--------------------------- MODULE EventLoopProofs ---------------------------
(***************************************************************************)
(* Safety of TimerQueue, EventLoop and ChildProcess for every value of     *)
(* their constants.  The loop keeps the rules of TimerQueue, its native    *)
(* registries and JavaScript tables agree, and it sleeps and gives up only *)
(* with its queues empty.  A watched stream of a child reads its own pipe, *)
(* and 'end' comes after all the data.                                     *)
(***************************************************************************)
EXTENDS ChildProcess, SequenceTheorems, WellFoundedInduction, TLAPS

-----------------------------------------------------------------------------
(* The timer queue. *)

\* Array.prototype.splice(k, 1): one element less, the others in their order.
LEMMA RemoveAtProperties ==
  ASSUME NEW S, NEW s \in Seq(S), NEW k \in DOMAIN s
  PROVE  /\ RemoveAt(s, k) \in Seq(S)
         /\ Len(RemoveAt(s, k)) = Len(s) - 1
         /\ \A i \in 1 .. Len(s) - 1 :
              RemoveAt(s, k)[i] = IF i < k THEN s[i] ELSE s[i + 1]
<1> DEFINE a == SubSeq(s, 1, k - 1)
           b == SubSeq(s, k + 1, Len(s))
<1>0. k \in 1 .. Len(s) /\ Len(s) \in Nat
  BY LenProperties
<1>1. a \in Seq(S) /\ Len(a) = k - 1 /\ \A i \in 1 .. k - 1 : a[i] = s[i]
  <2>1. \A i \in 1 .. k - 1 : s[i] \in S
    BY <1>0, LenProperties
  <2> QED BY <1>0, <2>1, SubSeqProperties
<1>2. /\ b \in Seq(S) /\ Len(b) = Len(s) - k
      /\ \A i \in 1 .. Len(s) - k : b[i] = s[k + i]
  <2>1. \A i \in k + 1 .. Len(s) : s[i] \in S
    BY <1>0, LenProperties
  <2>2. /\ b \in Seq(S)
        /\ Len(b) = IF k + 1 <= Len(s) THEN Len(s) - (k + 1) + 1 ELSE 0
        /\ \A i \in 1 .. Len(s) - (k + 1) + 1 : b[i] = s[k + 1 + i - 1]
    <3> HIDE DEF b
    <3>1. k + 1 \in Int /\ Len(s) \in Int
      BY <1>0
    <3> QED BY <2>1, <3>1, SubSeqProperties DEF b
  <2> QED BY <1>0, <2>2
<1>3. /\ a \o b \in Seq(S)
      /\ Len(a \o b) = Len(a) + Len(b)
      /\ \A i \in 1 .. Len(a) + Len(b) :
           (a \o b)[i] = IF i <= Len(a) THEN a[i] ELSE b[i - Len(a)]
  <2> HIDE DEF a, b
  <2> QED BY <1>1, <1>2, ConcatProperties
<1> HIDE DEF a, b
<1>4. RemoveAt(s, k) = a \o b
  BY DEF RemoveAt, a, b
<1>5. Len(a) = k - 1 /\ Len(a) + Len(b) = Len(s) - 1
  BY <1>0, <1>1, <1>2
<1>6. ASSUME NEW i \in 1 .. Len(s) - 1
      PROVE  (a \o b)[i] = IF i < k THEN s[i] ELSE s[i + 1]
  <2>1. (a \o b)[i] = IF i <= k - 1 THEN a[i] ELSE b[i - (k - 1)]
    BY <1>3, <1>5
  <2>2. i \in Int /\ 1 <= i /\ i <= Len(s) - 1
    BY <1>0, <1>6
  <2>3. CASE i < k
    <3>1. i \in 1 .. k - 1
      BY <1>0, <2>2, <2>3
    <3> QED BY <1>0, <1>1, <2>1, <2>3, <3>1
  <2>4. CASE ~(i < k)
    <3>1. i - (k - 1) \in 1 .. Len(s) - k /\ k + (i - (k - 1)) = i + 1
      BY <1>0, <2>2, <2>4
    <3>2. b[i - (k - 1)] = s[i + 1]
      BY <1>2, <3>1
    <3> QED BY <1>0, <2>1, <2>2, <2>4, <3>2
  <2> QED BY <2>3, <2>4
<1> QED BY <1>3, <1>4, <1>5, <1>6
-----------------------------------------------------------------------------
\* A pushed record.
LEMMA EnqueuedIsTimer ==
  ASSUME NEW d \in Delays, NEW i \in BOOLEAN, now \in Nat, nextTimerId \in Nat
  PROVE  /\ EffectiveDelay(d) \in Nat
         /\ [id |-> nextTimerId, isInterval |-> i, delay |-> EffectiveDelay(d),
             fireAt |-> now + EffectiveDelay(d), cleared |-> FALSE] \in Timer
  BY TimerAssumption DEF EffectiveDelay, Timer

\* The queue that __timer_clear__ leaves differs in the marks alone.
LEMMA ClearedQueue ==
  ASSUME TimerTypeOK, NEW id, TimerClear(id)
  PROVE  /\ timerQueue' \in Seq(Timer)
         /\ DOMAIN timerQueue' = DOMAIN timerQueue
         /\ \A k \in DOMAIN timerQueue :
              timerQueue'[k] = IF timerQueue[k].id = id
                               THEN [timerQueue[k] EXCEPT !.cleared = TRUE]
                               ELSE timerQueue[k]
<1> DEFINE e(k) == IF timerQueue[k].id = id
                   THEN [timerQueue[k] EXCEPT !.cleared = TRUE] ELSE timerQueue[k]
<1>1. timerQueue \in Seq(Timer)
  BY DEF TimerTypeOK
<1>2. Len(timerQueue) \in Nat /\ DOMAIN timerQueue = 1 .. Len(timerQueue)
  BY <1>1, LenProperties
<1>3. \A k \in DOMAIN timerQueue : timerQueue[k] \in Timer
  BY <1>1, LenProperties
<1>4. timerQueue' = [k \in 1 .. Len(timerQueue) |-> e(k)]
  BY <1>2 DEF TimerClear
<1>5. \A k \in 1 .. Len(timerQueue) : e(k) \in Timer
  BY <1>2, <1>3 DEF Timer
<1> HIDE DEF e
<1>6. [k \in 1 .. Len(timerQueue) |-> e(k)] \in Seq(Timer)
  BY <1>2, <1>5, IsASeq
<1>7. DOMAIN timerQueue' = 1 .. Len(timerQueue) /\ \A k \in 1 .. Len(timerQueue) : timerQueue'[k] = e(k)
  BY <1>4
<1> QED BY <1>2, <1>4, <1>6, <1>7 DEF e

-----------------------------------------------------------------------------
LEMMA TypeInit == InitTimers => TimerTypeOK
  BY DEF InitTimers, TimerTypeOK, NoTimer, Timer, NoPass

LEMMA TypeStep == TimerTypeOK /\ [TimerNext]_timerVars => TimerTypeOK'
<1> SUFFICES ASSUME TimerTypeOK, [TimerNext]_timerVars PROVE TimerTypeOK'
  OBVIOUS
<1>0. /\ timerQueue \in Seq(Timer) /\ nextTimerId \in Nat \ {0} /\ now \in Nat
      /\ setBacks \in Nat /\ passNow \in Nat \cup {NoPass} /\ firing \in Timer
      /\ cancelled \subseteq Nat /\ selfCleared \subseteq Nat
  BY DEF TimerTypeOK
<1>1. ASSUME NEW d \in Delays, NEW i \in BOOLEAN, TimerEnqueue(d, i)
      PROVE  TimerTypeOK'
  <2>1. timerQueue' \in Seq(Timer)
    BY <1>0, <1>1, EnqueuedIsTimer, AppendProperties DEF TimerEnqueue
  <2> QED BY <1>0, <1>1, <2>1 DEF TimerEnqueue, TimerTypeOK
<1>2. ASSUME NEW id \in TimerIds, TimerClear(id)
      PROVE  TimerTypeOK'
  <2>1. timerQueue' \in Seq(Timer)
    BY <1>2, ClearedQueue
  <2>2. id \in Nat
    BY TimerAssumption DEF TimerIds
  <2> QED BY <1>0, <1>2, <2>1, <2>2 DEF TimerClear, TimerTypeOK
<1>3. ASSUME BeginPass PROVE TimerTypeOK'
  BY <1>0, <1>3 DEF BeginPass, TimerTypeOK
<1>4. ASSUME FireTimer PROVE TimerTypeOK'
  <2>1. PICK k \in DOMAIN timerQueue :
          firing' = timerQueue[k] /\ timerQueue' = RemoveAt(timerQueue, k)
    BY <1>4 DEF FireTimer, TakenOut
  <2>2. timerQueue' \in Seq(Timer) /\ firing' \in Timer
    BY <1>0, <2>1, RemoveAtProperties, LenProperties
  <2> QED BY <1>0, <1>4, <2>2 DEF FireTimer, TimerTypeOK
<1>5. ASSUME TimerReturn PROVE TimerTypeOK'
  <2>1. NextRound(firing) \in Timer
    <3>1. firing.delay \in Nat
      BY <1>0 DEF Timer
    <3>2. now + firing.delay \in Nat
      BY <1>0, <3>1
    <3> QED BY <1>0, <3>2 DEF NextRound, Timer
  <2>2. timerQueue' \in Seq(Timer)
    BY <1>0, <1>5, <2>1, AppendProperties DEF TimerReturn
  <2>3. NoTimer \in Timer
    BY DEF NoTimer, Timer
  <2> QED BY <1>0, <1>5, <2>2, <2>3 DEF TimerReturn, TimerTypeOK
<1>6. ASSUME EndPass PROVE TimerTypeOK'
  BY <1>0, <1>6 DEF EndPass, TimerTypeOK
<1>7. ASSUME Tick \/ ClockSetBack PROVE TimerTypeOK'
  <2>1. now' \in Nat /\ setBacks' \in Nat
    <3>1. CASE Tick
      BY <1>0, <3>1 DEF Tick
    <3>2. CASE ClockSetBack
      <4>1. PICK s \in BackSteps : s <= now /\ now' = now - s
        BY <3>2 DEF ClockSetBack
      <4>2. s \in Nat
        BY TimerAssumption
      <4> QED BY <1>0, <3>2, <4>1, <4>2 DEF ClockSetBack
    <3> QED BY <1>7, <3>1, <3>2
  <2> QED BY <1>0, <1>7, <2>1 DEF Tick, ClockSetBack, TimerTypeOK
<1>8. ASSUME UNCHANGED timerVars PROVE TimerTypeOK'
  BY <1>0, <1>8 DEF timerVars, TimerTypeOK
<1> QED BY <1>1, <1>2, <1>3, <1>4, <1>5, <1>6, <1>7, <1>8 DEF TimerNext, ScriptStep

\* Queue, clock and ids keep their types in every behaviour of the timer queue.
THEOREM TimerTypeCorrect == TimerSpec => []TimerTypeOK
  BY TypeInit, TypeStep, PTL DEF TimerSpec
-----------------------------------------------------------------------------
\* OneRecordPerTimer and CancelledStaysSilent, with what makes them inductive.
LEMMA InvInit == InitTimers => TimerInv
<1> SUFFICES ASSUME InitTimers PROVE TimerInv
  OBVIOUS
<1>1. TimerTypeOK
  BY TypeInit
<1>2. DOMAIN timerQueue = {} /\ nextTimerId = 1 /\ firing = NoTimer /\ cancelled = {}
  BY DEF InitTimers
<1>3. NoTimer.id = 0
  BY DEF NoTimer
<1> QED BY <1>1, <1>2, <1>3 DEF TimerInv, IdsBelowNext, OneRecordPerTimer,
           CancelledAreMarked, CancelledStaysSilent

LEMMA InvStep == TimerInv /\ [TimerNext]_timerVars => TimerInv'
<1> SUFFICES ASSUME TimerInv, [TimerNext]_timerVars PROVE TimerInv'
  OBVIOUS
<1> USE DEF Queued
<1>t. TimerTypeOK /\ TimerTypeOK'
  BY TypeStep DEF TimerInv
<1>q. /\ timerQueue \in Seq(Timer) /\ nextTimerId \in Nat \ {0}
      /\ Len(timerQueue) \in Nat /\ DOMAIN timerQueue = 1 .. Len(timerQueue)
      /\ \A k \in DOMAIN timerQueue : timerQueue[k] \in Timer /\ timerQueue[k].id \in Nat
      /\ firing \in Timer /\ firing.id \in Nat
  <2>1. timerQueue \in Seq(Timer) /\ nextTimerId \in Nat \ {0} /\ firing \in Timer
    BY <1>t DEF TimerTypeOK
  <2>2. /\ Len(timerQueue) \in Nat /\ DOMAIN timerQueue = 1 .. Len(timerQueue)
        /\ \A k \in DOMAIN timerQueue : timerQueue[k] \in Timer
    BY <2>1, LenProperties
  <2>3. \A r \in Timer : r.id \in Nat
    BY DEF Timer
  <2> QED BY <2>1, <2>2, <2>3
<1>i. IdsBelowNext /\ OneRecordPerTimer /\ CancelledAreMarked /\ CancelledStaysSilent
  BY DEF TimerInv
<1>1. ASSUME NEW d \in Delays, NEW i \in BOOLEAN, TimerEnqueue(d, i)
      PROVE  TimerInv'
  <2> DEFINE t == [id |-> nextTimerId, isInterval |-> i,
                   delay |-> EffectiveDelay(d), fireAt |-> now + EffectiveDelay(d),
                   cleared |-> FALSE]
  <2>1. t \in Timer /\ t.id = nextTimerId
    BY <1>t, EnqueuedIsTimer DEF TimerTypeOK
  <2>2. timerQueue' = Append(timerQueue, t) /\ nextTimerId' = nextTimerId + 1
        /\ firing' = firing /\ cancelled' = cancelled
    BY <1>1 DEF TimerEnqueue
  <2> HIDE DEF t
  <2>3. /\ DOMAIN timerQueue' = 1 .. Len(timerQueue) + 1
        /\ timerQueue'[Len(timerQueue) + 1] = t
        /\ \A k \in 1 .. Len(timerQueue) : timerQueue'[k] = timerQueue[k]
    BY <1>q, <2>1, <2>2, AppendProperties, LenProperties
  <2>4. IdsBelowNext'
    BY <1>q, <1>i, <2>1, <2>2, <2>3 DEF IdsBelowNext
  <2>5. OneRecordPerTimer'
    BY <1>q, <1>i, <2>1, <2>2, <2>3 DEF IdsBelowNext, OneRecordPerTimer
  <2>6. CancelledAreMarked'
    BY <1>q, <1>i, <2>1, <2>2, <2>3 DEF IdsBelowNext, CancelledAreMarked
  <2> QED BY <1>t, <1>i, <2>2, <2>4, <2>5, <2>6 DEF TimerInv, CancelledStaysSilent
<1>2. ASSUME NEW id \in TimerIds, TimerClear(id)
      PROVE  TimerInv'
  <2>1. /\ DOMAIN timerQueue' = DOMAIN timerQueue
        /\ \A k \in DOMAIN timerQueue :
             timerQueue'[k] = IF timerQueue[k].id = id
                              THEN [timerQueue[k] EXCEPT !.cleared = TRUE]
                              ELSE timerQueue[k]
    BY <1>t, <1>2, ClearedQueue
  <2>2. \A k \in DOMAIN timerQueue :
          /\ timerQueue'[k].id = timerQueue[k].id
          /\ timerQueue[k].cleared \/ timerQueue[k].id = id => timerQueue'[k].cleared
    BY <1>q, <2>1 DEF Timer
  <2>3. /\ nextTimerId' = nextTimerId /\ firing' = firing
        /\ cancelled' = IF Queued(id) THEN cancelled \cup {id} ELSE cancelled
    BY <1>2 DEF TimerClear
  <2>4. IdsBelowNext'
    BY <1>i, <2>1, <2>2, <2>3 DEF IdsBelowNext
  <2>5. OneRecordPerTimer'
    BY <1>i, <2>1, <2>2, <2>3 DEF OneRecordPerTimer
  <2>6. CancelledAreMarked'
    BY <1>i, <2>1, <2>2, <2>3 DEF CancelledAreMarked
  <2>7. CancelledStaysSilent'
    <3>1. CASE firing = NoTimer
      BY <1>q, <1>i, <2>3, <3>1, <1>t DEF IdsBelowNext, CancelledStaysSilent, NoTimer
    <3>2. CASE firing # NoTimer
      BY <1>i, <2>3, <3>2 DEF OneRecordPerTimer, CancelledStaysSilent
    <3> QED BY <3>1, <3>2
  <2> QED BY <1>t, <2>4, <2>5, <2>6, <2>7 DEF TimerInv
<1>3. ASSUME FireTimer PROVE TimerInv'
  <2>1. PICK k \in DOMAIN timerQueue :
          /\ Due(timerQueue[k])
          /\ firing' = timerQueue[k] /\ timerQueue' = RemoveAt(timerQueue, k)
    BY <1>3 DEF FireTimer, TakenOut, EarliestDue
  <2>2. /\ nextTimerId' = nextTimerId /\ cancelled' = cancelled
    BY <1>3 DEF FireTimer
  <2>3. /\ DOMAIN timerQueue' = 1 .. Len(timerQueue) - 1
        /\ \A i \in 1 .. Len(timerQueue) - 1 :
             timerQueue'[i] = IF i < k THEN timerQueue[i] ELSE timerQueue[i + 1]
    BY <1>q, <2>1, RemoveAtProperties, LenProperties
  <2>4. \A i \in DOMAIN timerQueue' : \E j \in DOMAIN timerQueue \ {k} :
          timerQueue'[i] = timerQueue[j] /\ j = IF i < k THEN i ELSE i + 1
    BY <1>q, <2>3
  <2>5. IdsBelowNext'
    BY <1>q, <1>i, <2>1, <2>2, <2>4 DEF IdsBelowNext
  <2>6. OneRecordPerTimer'
    <3>1. ASSUME NEW i \in DOMAIN timerQueue', NEW j \in DOMAIN timerQueue',
                 timerQueue'[i].id = timerQueue'[j].id
          PROVE  i = j
      <4>1. (IF i < k THEN i ELSE i + 1) = (IF j < k THEN j ELSE j + 1)
        BY <1>i, <2>4, <3>1 DEF OneRecordPerTimer
      <4> QED BY <1>q, <2>3, <4>1
    <3>2. ~\E i \in DOMAIN timerQueue' : timerQueue'[i].id = firing'.id
      BY <1>i, <2>1, <2>4 DEF OneRecordPerTimer
    <3> QED BY <3>1, <3>2 DEF OneRecordPerTimer
  <2>7. CancelledAreMarked'
    BY <1>i, <2>2, <2>4 DEF CancelledAreMarked
  <2>8. CancelledStaysSilent'
    BY <1>i, <2>1, <2>2 DEF CancelledAreMarked, CancelledStaysSilent, Due
  <2> QED BY <1>t, <2>5, <2>6, <2>7, <2>8 DEF TimerInv
<1>4. ASSUME TimerReturn PROVE TimerInv'
  <2>1. /\ nextTimerId' = nextTimerId /\ cancelled' = cancelled
        /\ firing' = NoTimer /\ firing'.id = 0 /\ firing # NoTimer
    BY <1>4 DEF TimerReturn, NoTimer
  <2>2. IdsBelowNext' /\ OneRecordPerTimer' /\ CancelledAreMarked'
    <3>1. CASE timerQueue' = timerQueue
      BY <1>q, <1>i, <2>1, <3>1 DEF IdsBelowNext, OneRecordPerTimer, CancelledAreMarked
    <3>2. CASE timerQueue' = Append(timerQueue, NextRound(firing))
      <4>1. NextRound(firing).id = firing.id
        BY <1>q DEF NextRound, Timer
      <4>2. /\ DOMAIN timerQueue' = 1 .. Len(timerQueue) + 1
            /\ timerQueue'[Len(timerQueue) + 1] = NextRound(firing)
            /\ \A k \in 1 .. Len(timerQueue) : timerQueue'[k] = timerQueue[k]
        BY <1>q, <3>2
      <4>3. IdsBelowNext'
        BY <1>q, <1>i, <2>1, <4>1, <4>2 DEF IdsBelowNext
      <4>4. OneRecordPerTimer'
        BY <1>q, <1>i, <2>1, <4>1, <4>2 DEF OneRecordPerTimer
      <4>5. CancelledAreMarked'
        BY <1>q, <1>i, <2>1, <4>1, <4>2 DEF CancelledAreMarked, CancelledStaysSilent
      <4> QED BY <4>3, <4>4, <4>5
    <3> QED BY <1>4, <3>1, <3>2 DEF TimerReturn
  <2>3. CancelledStaysSilent'
    BY <1>i, <2>1 DEF IdsBelowNext, CancelledStaysSilent
  <2> QED BY <1>t, <2>2, <2>3 DEF TimerInv
<1>5. ASSUME UNCHANGED <<timerQueue, nextTimerId, firing, cancelled>>
      PROVE  TimerInv'
  BY <1>t, <1>i, <1>5 DEF TimerInv, IdsBelowNext, OneRecordPerTimer,
     CancelledAreMarked, CancelledStaysSilent
<1> QED BY <1>1, <1>2, <1>3, <1>4, <1>5 DEF TimerNext, ScriptStep, BeginPass,
           EndPass, Tick, ClockSetBack, timerVars

\* No timer has two records, queued or running: an interval is pushed back only
\* after its record was taken out of the queue.
THEOREM OneRecord == TimerSpec => []OneRecordPerTimer
<1>1. TimerInv => OneRecordPerTimer
  BY DEF TimerInv
<1> QED BY <1>1, InvInit, InvStep, PTL DEF TimerSpec

\* A timer cleared while it was queued never runs again, in this pass or later.
THEOREM CancelledNeverRuns == TimerSpec => []CancelledStaysSilent
<1>1. TimerInv => CancelledStaysSilent
  BY DEF TimerInv
<1> QED BY <1>1, InvInit, InvStep, PTL DEF TimerSpec
-----------------------------------------------------------------------------
\* FifoPerDelay, as long as the clock has not been set back.
LEMMA FifoInit == InitTimers => FifoInv
<1> SUFFICES ASSUME InitTimers PROVE FifoInv
  OBVIOUS
<1>1. DOMAIN timerQueue = {} /\ firing = NoTimer
  BY DEF InitTimers
<1> QED BY <1>1 DEF FifoInv, TimeoutsInOrder, FifoPerDelay

LEMMA FifoStep ==
  ASSUME TimerInv, FifoInv, [TimerNext]_timerVars
  PROVE  FifoInv'
<1> SUFFICES ASSUME setBacks' = 0 PROVE FifoInv'
  BY DEF FifoInv, TimeoutsInOrder, FifoPerDelay
<1>z. setBacks = 0 /\ ~ClockSetBack
  <2>1. setBacks \in Nat
    BY DEF TimerInv, TimerTypeOK
  <2>2. ~ClockSetBack
    BY <2>1 DEF ClockSetBack
  <2>3. setBacks' = setBacks
    BY <2>2 DEF TimerNext, ScriptStep, TimerEnqueue, TimerClear, BeginPass, FireTimer,
       TimerReturn, EndPass, Tick, timerVars
  <2> QED BY <2>2, <2>3
<1> USE <1>z DEF SetAt
<1>q. /\ timerQueue \in Seq(Timer) /\ nextTimerId \in Nat \ {0} /\ firing \in Timer
      /\ now \in Nat /\ passNow \in Int
      /\ Len(timerQueue) \in Nat /\ DOMAIN timerQueue = 1 .. Len(timerQueue)
      /\ \A k \in DOMAIN timerQueue : timerQueue[k] \in Timer
  <2>1. /\ timerQueue \in Seq(Timer) /\ nextTimerId \in Nat \ {0} /\ firing \in Timer
        /\ now \in Nat /\ passNow \in Int
    BY DEF TimerInv, TimerTypeOK, NoPass
  <2> QED BY <2>1, LenProperties
<1>f. \A r \in Timer : r.id \in Nat /\ r.delay \in Nat /\ r.fireAt \in Nat
                       /\ r.isInterval \in BOOLEAN /\ r.cleared \in BOOLEAN
  BY DEF Timer
<1>i. TimerTypeOK /\ IdsBelowNext /\ TimeoutsInOrder /\ FifoPerDelay
  BY DEF TimerInv, FifoInv
<1>1. ASSUME NEW d \in Delays, NEW i \in BOOLEAN, TimerEnqueue(d, i)
      PROVE  FifoInv'
  <2> DEFINE t == [id |-> nextTimerId, isInterval |-> i,
                   delay |-> EffectiveDelay(d), fireAt |-> now + EffectiveDelay(d),
                   cleared |-> FALSE]
  <2>1. /\ t \in Timer /\ t.id = nextTimerId /\ SetAt(t) = now
    <3>1. EffectiveDelay(d) \in Nat /\ t \in Timer
      BY <1>q, EnqueuedIsTimer
    <3> QED BY <1>q, <3>1
  <2>2. timerQueue' = Append(timerQueue, t) /\ now' = now /\ firing' = firing
    BY <1>1 DEF TimerEnqueue
  <2> HIDE DEF t
  <2>3. /\ DOMAIN timerQueue' = 1 .. Len(timerQueue) + 1
        /\ timerQueue'[Len(timerQueue) + 1] = t
        /\ \A k \in 1 .. Len(timerQueue) : timerQueue'[k] = timerQueue[k]
    BY <1>q, <2>1, <2>2
  <2>4. TimeoutsInOrder'
    <3>1. \A k \in DOMAIN timerQueue' :
            ~timerQueue'[k].isInterval => SetAt(timerQueue'[k]) <= now'
      BY <1>q, <1>i, <2>1, <2>2, <2>3 DEF TimeoutsInOrder
    <3>2. ASSUME NEW a \in DOMAIN timerQueue', NEW b \in DOMAIN timerQueue',
                 a < b, ~timerQueue'[a].isInterval, ~timerQueue'[b].isInterval
          PROVE  /\ timerQueue'[a].id < timerQueue'[b].id
                 /\ SetAt(timerQueue'[a]) <= SetAt(timerQueue'[b])
      <4>1. a \in 1 .. Len(timerQueue) /\ timerQueue'[a] = timerQueue[a]
        BY <1>q, <2>3, <3>2
      <4>2. CASE b \in 1 .. Len(timerQueue)
        BY <1>q, <1>i, <2>3, <3>2, <4>1, <4>2 DEF TimeoutsInOrder
      <4>3. CASE b = Len(timerQueue) + 1
        <5>1. timerQueue[a].id < t.id
          BY <1>q, <1>f, <1>i, <2>1, <4>1 DEF IdsBelowNext
        <5>2. SetAt(timerQueue[a]) <= SetAt(t)
          BY <1>q, <1>i, <2>1, <3>2, <4>1 DEF TimeoutsInOrder
        <5> QED BY <2>3, <4>1, <4>3, <5>1, <5>2
      <4> QED BY <1>q, <2>3, <4>2, <4>3
    <3> QED BY <3>1, <3>2 DEF TimeoutsInOrder
  <2>5. FifoPerDelay'
    <3>1. firing.id <= nextTimerId
      BY <1>q, <1>f, <1>i DEF IdsBelowNext
    <3> QED BY <1>q, <1>i, <2>1, <2>2, <2>3, <3>1 DEF FifoPerDelay
  <2> QED BY <2>4, <2>5 DEF FifoInv
<1>2. ASSUME NEW id \in TimerIds, TimerClear(id)
      PROVE  FifoInv'
  <2>1. /\ DOMAIN timerQueue' = DOMAIN timerQueue
        /\ \A k \in DOMAIN timerQueue :
             timerQueue'[k] = IF timerQueue[k].id = id
                              THEN [timerQueue[k] EXCEPT !.cleared = TRUE]
                              ELSE timerQueue[k]
    BY <1>i, <1>2, ClearedQueue
  <2>2. \A k \in DOMAIN timerQueue :
          /\ timerQueue'[k].id = timerQueue[k].id
          /\ timerQueue'[k].delay = timerQueue[k].delay
          /\ timerQueue'[k].fireAt = timerQueue[k].fireAt
          /\ timerQueue'[k].isInterval = timerQueue[k].isInterval
          /\ ~timerQueue'[k].cleared => ~timerQueue[k].cleared
    BY <1>q, <2>1 DEF Timer
  <2>3. now' = now /\ firing' = firing
    BY <1>2 DEF TimerClear
  <2>4. TimeoutsInOrder'
    BY <1>i, <2>1, <2>2, <2>3 DEF TimeoutsInOrder
  <2>5. FifoPerDelay'
    BY <1>i, <2>1, <2>2, <2>3 DEF FifoPerDelay
  <2> QED BY <2>4, <2>5 DEF FifoInv
<1>3. ASSUME FireTimer PROVE FifoInv'
  <2>1. PICK k \in DOMAIN timerQueue :
          /\ EarliestDue(k)
          /\ firing' = timerQueue[k] /\ timerQueue' = RemoveAt(timerQueue, k)
    BY <1>3 DEF FireTimer, TakenOut
  <2>2. now' = now
    BY <1>3 DEF FireTimer
  <2>3. /\ DOMAIN timerQueue' = 1 .. Len(timerQueue) - 1
        /\ \A i \in 1 .. Len(timerQueue) - 1 :
             timerQueue'[i] = IF i < k THEN timerQueue[i] ELSE timerQueue[i + 1]
    BY <1>q, <2>1, RemoveAtProperties, LenProperties
  <2> DEFINE old(i) == IF i < k THEN i ELSE i + 1
  <2>4. \A i \in DOMAIN timerQueue' :
          old(i) \in DOMAIN timerQueue /\ timerQueue'[i] = timerQueue[old(i)]
    BY <1>q, <2>3
  <2>5. \A i, j \in DOMAIN timerQueue' : i < j => old(i) < old(j)
    BY <1>q, <2>3
  <2> HIDE DEF old
  <2>6. TimeoutsInOrder'
    BY <1>i, <2>2, <2>4, <2>5 DEF TimeoutsInOrder
  <2>7. ASSUME ~timerQueue[k].isInterval,
               NEW j \in DOMAIN timerQueue, ~timerQueue[j].isInterval,
               ~timerQueue[j].cleared, timerQueue[j].delay <= timerQueue[k].delay
        PROVE  timerQueue[j].id >= timerQueue[k].id
    <3>1. SUFFICES ASSUME j < k PROVE FALSE
      <4>1. timerQueue[j].id \in Nat /\ timerQueue[k].id \in Nat
        BY <1>q, <1>f
      <4>2. k < j => timerQueue[k].id < timerQueue[j].id
        BY <1>i, <2>7 DEF TimeoutsInOrder
      <4> QED BY <1>q, <3>1, <4>1, <4>2
    <3>2. SetAt(timerQueue[j]) <= SetAt(timerQueue[k])
      BY <1>i, <2>7, <3>1 DEF TimeoutsInOrder
    <3>3. timerQueue[j].fireAt <= timerQueue[k].fireAt
      BY <1>q, <1>f, <2>7, <3>2
    <3>4. timerQueue[k].fireAt <= passNow
      BY <2>1 DEF EarliestDue, Due
    <3>5. Due(timerQueue[j])
      BY <1>q, <1>f, <2>7, <3>3, <3>4 DEF Due
    <3> QED BY <1>q, <1>f, <2>1, <3>1, <3>3, <3>5 DEF EarliestDue
  <2>8. FifoPerDelay'
    BY <2>1, <2>4, <2>7 DEF FifoPerDelay
  <2> QED BY <2>6, <2>8 DEF FifoInv
<1>4. ASSUME TimerReturn PROVE FifoInv'
  <2>1. firing' = NoTimer /\ now' = now
    BY <1>4 DEF TimerReturn
  <2>2. TimeoutsInOrder'
    <3>1. CASE timerQueue' = timerQueue
      BY <1>i, <2>1, <3>1 DEF TimeoutsInOrder
    <3>2. CASE firing.isInterval /\ timerQueue' = Append(timerQueue, NextRound(firing))
      <4>1. NextRound(firing).isInterval
        BY <1>q, <3>2 DEF NextRound, Timer
      <4>2. /\ DOMAIN timerQueue' = 1 .. Len(timerQueue) + 1
            /\ timerQueue'[Len(timerQueue) + 1] = NextRound(firing)
            /\ \A k \in 1 .. Len(timerQueue) : timerQueue'[k] = timerQueue[k]
        BY <1>q, <3>2
      <4> QED BY <1>q, <1>i, <2>1, <4>1, <4>2 DEF TimeoutsInOrder
    <3> QED BY <1>4, <3>1, <3>2 DEF TimerReturn
  <2> QED BY <2>1, <2>2 DEF FifoInv, FifoPerDelay
<1>5. ASSUME UNCHANGED <<timerQueue, firing>>, now' = now \/ now' = now + 1
      PROVE  FifoInv'
  <2>1. TimeoutsInOrder'
    <3>1. \A k \in DOMAIN timerQueue : SetAt(timerQueue[k]) \in Int
      BY <1>q, <1>f
    <3> QED BY <1>q, <1>i, <1>5, <3>1 DEF TimeoutsInOrder
  <2> QED BY <1>i, <1>5, <2>1 DEF FifoInv, FifoPerDelay
<1> QED BY <1>1, <1>2, <1>3, <1>4, <1>5 DEF TimerNext, ScriptStep,
           BeginPass, EndPass, Tick, timerVars

\* Timeouts run in the order they were set unless the later one is shorter, as
\* long as the wall clock is not set back.
THEOREM TimeoutsAreFifo == TimerSpec => []FifoPerDelay
<1>1. FifoInv => FifoPerDelay
  BY DEF FifoInv
<1>2. TimerInv /\ FifoInv /\ [TimerNext]_timerVars => FifoInv'
  BY FifoStep
<1> QED BY <1>1, <1>2, InvInit, InvStep, FifoInit, PTL DEF TimerSpec
-----------------------------------------------------------------------------
\* __get_next_timer_fireat__: the time of the first live timer.
LEMMA NextFireAtIsEarliest ==
  ASSUME TimerTypeOK, AnyTimer
  PROVE  /\ NextFireAt \in Nat
         /\ \A k \in DOMAIN timerQueue :
              ~timerQueue[k].cleared => NextFireAt <= timerQueue[k].fireAt
<1> DEFINE live == {k \in DOMAIN timerQueue : ~timerQueue[k].cleared}
           times == {timerQueue[k].fireAt : k \in live}
<1>1. \A k \in DOMAIN timerQueue : timerQueue[k].fireAt \in Nat
  <2>1. timerQueue \in Seq(Timer)
    BY DEF TimerTypeOK
  <2>2. \A k \in DOMAIN timerQueue : timerQueue[k] \in Timer
    BY <2>1, LenProperties
  <2> QED BY <2>2 DEF Timer
<1>2. times \subseteq Nat /\ times # {}
  BY <1>1 DEF AnyTimer
<1>3. PICK m \in times : \A n \in times : <<n, m>> \notin OpToRel(<, Nat)
  <2> HIDE DEF times
  <2> QED BY <1>2, NatLessThanWellFounded, WFMin
<1>4. m \in Nat /\ \A n \in times : m <= n
  <2> HIDE DEF times
  <2>1. \A a, b \in Nat : a < b => <<a, b>> \in OpToRel(<, Nat)
    BY DEF OpToRel
  <2>2. m \in Nat /\ \A n \in times : n \in Nat /\ ~(n < m)
    BY <1>2, <1>3, <2>1, Zenon
  <2> QED BY <2>2
<1> DEFINE IsFirst(x) ==
             /\ \E k \in DOMAIN timerQueue :
                  ~timerQueue[k].cleared /\ timerQueue[k].fireAt = x
             /\ \A k \in DOMAIN timerQueue :
                  ~timerQueue[k].cleared => x <= timerQueue[k].fireAt
<1>5. m \in {timerQueue[k].fireAt : k \in DOMAIN timerQueue} /\ IsFirst(m)
  BY <1>3, <1>4
<1>6. NextFireAt \in {timerQueue[k].fireAt : k \in DOMAIN timerQueue} /\ IsFirst(NextFireAt)
  BY <1>5 DEF NextFireAt
<1> QED BY <1>1, <1>6

-----------------------------------------------------------------------------
(* The loop implements the timer queue. *)

\* Which JavaScript runs in which phase of the loop, and that a timer pass is
\* open exactly while the loop is in it.
Phases ==
  /\ js \in {"idle", "script", "microtask", "watcher", "child", "timer", "exit"}
  /\ js = "script" => pc = "script"
  /\ js = "microtask" => pc = "drain"
  /\ js = "watcher" => pc = "fire"
  /\ js = "child" => pc = "reap"
  /\ js = "timer" <=> firing # NoTimer
  /\ js = "timer" => pc = "timers"
  /\ js = "exit" => pc = "flush" /\ loopRun = 2
  /\ passNow # NoPass <=> pc = "timers"
  /\ pc = "script" => js = "script"
  /\ forking # NoPid => js # "idle"

PhasesInv == TimerInv /\ Phases /\ ret \in {"top", "dispatch", "fire"}

LEMMA PhasesInit == Init => PhasesInv
  BY InvInit DEF Init, PhasesInv, Phases, InitTimers, NoPass

\* One step of the loop, of its JavaScript or of the kernel is a step of the
\* timer queue or leaves it alone.
LEMMA TimerStep ==
  ASSUME PhasesInv, [Next]_vars PROVE [TimerNext]_timerVars
<1>1. JsFree => JsRuns
  BY DEF PhasesInv, Phases, JsFree, JsRuns
<1>2. ASSUME SetTimer \/ ClearTimer PROVE ScriptStep
  BY <1>1, <1>2 DEF SetTimer, ClearTimer, ScriptStep
<1>3. ASSUME JsStep PROVE [TimerNext]_timerVars
  BY <1>2, <1>3 DEF JsStep, JsOpen, JsClose, JsUse, IoWatch, IoUnwatch, Fork,
     ChildUnregister, EnqueueMicrotask, TimerNext
<1>4. ASSUME ChildRegister \/ JsReturn PROVE [TimerNext]_timerVars
  BY <1>4 DEF ChildRegister, JsReturn, TimerNext
<1>5. ASSUME LoopStep PROVE [TimerNext]_timerVars
  BY <1>5 DEF LoopStep, DrainOne, DrainDone, Top, Select, SelectReturns,
     CheckSigchld, ReapOne, ReapDone, Dispatch, FireWatcher, FireDone, RunTimer,
     TimersDone, FlushExit, TimerNext
<1>6. ASSUME Kernel PROVE [TimerNext]_timerVars
  BY <1>6 DEF Kernel, FdReady, ChildExits, ClockTicks, DateSet, TimerNext
<1>7. ASSUME Exited \/ UNCHANGED vars PROVE [TimerNext]_timerVars
  BY <1>7 DEF Exited, vars
<1> QED BY <1>3, <1>4, <1>5, <1>6, <1>7 DEF Next

LEMMA PhasesStep ==
  ASSUME PhasesInv, [Next]_vars PROVE PhasesInv'
<1> USE DEF control
<1>t. TimerInv'
  BY TimerStep, InvStep DEF PhasesInv
<1>p. TimerInv /\ Phases /\ ret \in {"top", "dispatch", "fire"}
  BY DEF PhasesInv
<1>n. now # NoPass
  BY <1>p DEF TimerInv, TimerTypeOK, NoPass
<1>1. ASSUME JsStep PROVE Phases' /\ ret' = ret
  <2>1. UNCHANGED control /\ js # "idle"
    BY <1>1 DEF JsStep, JsOpen, JsClose, JsUse, IoWatch, IoUnwatch, Fork,
       ChildUnregister, EnqueueMicrotask, SetTimer, ClearTimer, loopVars, JsFree
  <2>2. firing' = firing /\ passNow' = passNow
    BY <1>1 DEF JsStep, JsOpen, JsClose, JsUse, IoWatch, IoUnwatch, Fork,
       ChildUnregister, EnqueueMicrotask, SetTimer, ClearTimer, TimerEnqueue,
       TimerClear, timerVars
  <2> QED BY <1>p, <2>1, <2>2 DEF Phases
<1>2. ASSUME ChildRegister PROVE Phases' /\ ret' = ret
  BY <1>p, <1>2 DEF ChildRegister, Phases, timerVars
<1>3. ASSUME JsReturn PROVE Phases' /\ ret' \in {"top", "dispatch", "fire"}
  <2>1. CASE js = "timer"
    BY <1>p, <1>3, <2>1 DEF JsReturn, JsFree, ResumeAfter, TimerReturn, Phases,
       processes
  <2>2. CASE js # "timer"
    BY <1>p, <1>3, <2>2 DEF JsReturn, JsFree, ResumeAfter, DrainThen, Phases,
       timerVars, processes
  <2> QED BY <2>1, <2>2
<1>4. ASSUME DrainOne \/ DrainDone \/ Top \/ Select \/ CheckSigchld
             \/ (\E p \in Pids : ReapOne(p)) \/ ReapDone \/ Dispatch \/ FireWatcher
             \/ FlushExit
      PROVE  Phases' /\ ret' \in {"top", "dispatch", "fire"}
  BY <1>p, <1>4 DEF DrainOne, DrainDone, Top, Select, SelectReturns, CheckSigchld,
     ReapOne, ReapDone, Dispatch, FireWatcher, FlushExit, At, DrainThen,
     LoopReturns, Phases, timerVars, processes
<1>5. ASSUME FireDone PROVE Phases' /\ ret' = ret
  BY <1>p, <1>n, <1>5 DEF FireDone, At, BeginPass, Phases, timerVars, processes
<1>6. ASSUME RunTimer PROVE Phases' /\ ret' = ret
  <2>1. firing' # NoTimer
    BY <1>p, <1>6 DEF RunTimer, FireTimer, TimerInv, IdsBelowNext, NoTimer
  <2> QED BY <1>p, <1>6, <2>1 DEF RunTimer, At, FireTimer, Phases, processes
<1>7. ASSUME TimersDone PROVE Phases' /\ ret' \in {"top", "dispatch", "fire"}
  BY <1>p, <1>7 DEF TimersDone, At, EndPass, DrainThen, Phases, processes
<1>8. ASSUME Kernel PROVE Phases' /\ ret' = ret
  BY <1>p, <1>8 DEF Kernel, FdReady, ChildExits, ClockTicks, DateSet, Tick,
     ClockSetBack, loopVars, Phases, timerVars, processes
<1>9. ASSUME Exited \/ UNCHANGED vars PROVE Phases' /\ ret' = ret
  BY <1>p, <1>9 DEF Exited, vars, loopVars, Phases, timerVars, processes
<1> QED BY <1>t, <1>p, <1>1, <1>2, <1>3, <1>4, <1>5, <1>6, <1>7, <1>8, <1>9
        DEF PhasesInv, Next, LoopStep
\* Passes do not nest, and timers are set and cleared only by JavaScript that
\* runs outside a pass or as its callback: all that is proved of TimerQueue's
\* safety holds of the loop.
THEOREM LoopImplementsTimerQueue == Spec => ImplementsTimerQueue
<1>1. Init => InitTimers
  BY DEF Init
<1>2. PhasesInv /\ [Next]_vars => PhasesInv'
  BY PhasesStep
<1>3. PhasesInv /\ [Next]_vars => [TimerNext]_timerVars
  BY TimerStep
<1> QED BY <1>1, <1>2, <1>3, PhasesInit, PTL DEF Spec, ImplementsTimerQueue

\* A timer of a running program has one record, and once cancelled never runs.
THEOREM LoopTimersSafe == Spec => [](OneRecordPerTimer /\ CancelledStaysSilent)
<1>1. PhasesInv => OneRecordPerTimer /\ CancelledStaysSilent
  BY DEF PhasesInv, TimerInv
<1>2. PhasesInv /\ [Next]_vars => PhasesInv'
  BY PhasesStep
<1> QED BY <1>1, <1>2, PhasesInit, PTL DEF Spec

-----------------------------------------------------------------------------
(* The registries and their callback tables. *)

WatcherIdsBelowNext == nextWatcherId \in Nat /\ \A w \in watchers : w.id < nextWatcherId

WatcherInv ==
  /\ watchers \subseteq Watcher
  /\ WatcherIdsBelowNext
  /\ WatcherTablesAgree

LEMMA WatcherInit == Init => WatcherInv
  BY DEF Init, WatcherInv, WatcherIdsBelowNext, WatcherTablesAgree, AliveIds, Alive

LEMMA WatcherStep ==
  ASSUME WatcherInv, [Next]_vars PROVE WatcherInv'
<1> USE DEF WatcherIdsBelowNext, Watcher, AliveIds, Alive
<1>i. /\ watchers \subseteq Watcher /\ WatcherIdsBelowNext
      /\ AliveIds = watcherCbs
      /\ \A v, w \in watchers : v.id = w.id => v = w
  BY DEF WatcherInv, WatcherTablesAgree
<1>1. ASSUME NEW fd \in Fds, NEW events \in EventMasks, IoWatch(fd, events)
      PROVE  WatcherInv'
  <2> DEFINE r == [id |-> nextWatcherId, fd |-> fd, events |-> events, alive |-> TRUE]
  <2>1. r \in Watcher /\ r.id = nextWatcherId /\ r.alive
    BY <1>i, LoopAssumption DEF Events
  <2>2. watchers' = watchers \cup {r} /\ nextWatcherId' = nextWatcherId + 1
        /\ watcherCbs' = watcherCbs \cup {r.id}
    BY <1>1 DEF IoWatch
  <2> HIDE DEF r
  <2>3. AliveIds' = AliveIds \cup {r.id}
    BY <2>1, <2>2
  <2>4. watchers' \subseteq Watcher /\ WatcherIdsBelowNext'
    BY <1>i, <2>1, <2>2
  <2>5. \A v, w \in watchers' : v.id = w.id => v = w
    BY <1>i, <2>1, <2>2
  <2> QED BY <1>i, <2>2, <2>3, <2>4, <2>5 DEF WatcherInv, WatcherTablesAgree
<1>2. ASSUME NEW id \in WatcherIds, IoUnwatch(id)
      PROVE  WatcherInv'
  <2> DEFINE dead(w) == IF w.id = id THEN [w EXCEPT !.alive = FALSE] ELSE w
  <2>1. \A w \in watchers :
          /\ dead(w) \in Watcher /\ dead(w).id = w.id
          /\ dead(w).alive <=> w.alive /\ w.id # id
    BY <1>i
  <2>2. watchers' = {dead(w) : w \in watchers} /\ nextWatcherId' = nextWatcherId
        /\ watcherCbs' = watcherCbs \ {id}
    BY <1>2 DEF IoUnwatch, native
  <2> HIDE DEF dead
  <2>3. AliveIds' = AliveIds \ {id}
    BY <2>1, <2>2
  <2>4. watchers' \subseteq Watcher /\ WatcherIdsBelowNext'
    BY <1>i, <2>1, <2>2
  <2>5. \A v, w \in watchers' : v.id = w.id => v = w
    BY <1>i, <2>1, <2>2
  <2> QED BY <1>i, <2>2, <2>3, <2>4, <2>5 DEF WatcherInv, WatcherTablesAgree
<1>3. ASSUME Top PROVE WatcherInv'
  BY <1>i, <1>3 DEF Top, tables, WatcherInv, WatcherTablesAgree
<1>4. ASSUME UNCHANGED <<watchers, nextWatcherId, watcherCbs>> PROVE WatcherInv'
  BY <1>4 DEF WatcherInv, WatcherTablesAgree
<1> USE DEF vars, loopVars, native, tables
<1>5. ASSUME JsStep PROVE WatcherInv'
  BY <1>1, <1>2, <1>4, <1>5 DEF JsStep, JsOpen, JsClose, JsUse, Fork,
     ChildUnregister, EnqueueMicrotask
<1>6. ASSUME LoopStep PROVE WatcherInv'
  BY <1>3, <1>4, <1>6 DEF LoopStep, DrainOne, DrainDone, Select, SelectReturns,
     CheckSigchld, ReapOne, ReapDone, Dispatch, FireWatcher, FireDone, RunTimer,
     TimersDone, FlushExit
<1>7. ASSUME ChildRegister \/ JsReturn \/ Kernel \/ Exited \/ UNCHANGED vars
      PROVE  WatcherInv'
  BY <1>4, <1>7 DEF ChildRegister, JsReturn, Kernel, FdReady, ChildExits, ClockTicks,
     DateSet, Exited
<1> QED BY <1>5, <1>6, <1>7 DEF Next

\* A watcher record that keeps the loop alive has its callback, and the reverse.
THEOREM WatcherTables == Spec => []WatcherTablesAgree
<1>1. WatcherInv => WatcherTablesAgree
  BY DEF WatcherInv
<1>2. WatcherInv /\ [Next]_vars => WatcherInv'
  BY WatcherStep
<1> QED BY <1>1, <1>2, WatcherInit, PTL DEF Spec

\* No watcher callback starts after its watcher was unwatched, even by a callback
\* of the same turn of the loop.
THEOREM UnwatchedNeverCalled == Spec => UnwatchedStaysSilent
<1>1. ASSUME WatcherInv, [Next]_vars, js = "idle", js' = "watcher"
      PROVE  current' \in AliveIds
  <2>1. FireWatcher \/ UNCHANGED js \/ js' # "watcher"
    BY <1>1 DEF Next, JsStep, JsOpen, JsClose, JsUse, IoWatch, IoUnwatch, Fork,
       ChildUnregister, EnqueueMicrotask, ChildRegister, JsReturn, LoopStep, DrainOne,
       DrainDone, Top, Select, SelectReturns, CheckSigchld, ReapOne, ReapDone, Dispatch,
       FireDone, RunTimer, TimersDone, FlushExit, Kernel, FdReady, ChildExits,
       ClockTicks, DateSet, Exited, vars, loopVars, control
  <2>2. FireWatcher
    BY <1>1, <2>1
  <2> QED BY <1>1, <2>2 DEF FireWatcher, HasCallback, WatcherInv, WatcherTablesAgree
<1>2. WatcherInv /\ [Next]_vars => WatcherInv'
  BY WatcherStep
<1>3. WatcherInv /\ [Next]_vars
        => [js = "idle" /\ js' = "watcher" => current' \in AliveIds]_vars
  BY <1>1
<1> QED BY <1>2, <1>3, WatcherInit, PTL DEF Spec, UnwatchedStaysSilent

ChildInv ==
  /\ children \subseteq Child
  /\ forks \in Nat
  /\ forking \in Pids \cup {NoPid}
  /\ proc \in [Pids -> {"none", "running", "zombie", "reaped"}]
  /\ forking # NoPid => proc[forking] \in {"running", "zombie"}
  /\ \A c \in children : proc[c.pid] # "none" /\ c.pid # forking
  /\ \A c, d \in children : c.pid = d.pid => c = d
  /\ forking # NoPid => js # "idle"
  /\ ChildTablesAgree

LEMMA RegistryInit == Init => ChildInv
  BY DEF Init, ChildInv, ChildTablesAgree, AlivePids, Alive, NoPid

LEMMA MarkedDead ==
  ASSUME ChildInv, NEW p \in Pids
  PROVE  /\ ChildMarkedDead(p) \subseteq Child
         /\ {c.pid : c \in Alive(ChildMarkedDead(p))} = AlivePids \ {p}
         /\ \A c \in ChildMarkedDead(p) : \E d \in children : c.pid = d.pid
         /\ \A c, d \in ChildMarkedDead(p) : c.pid = d.pid => c = d
<1> DEFINE dead(c) == IF c.pid = p THEN [c EXCEPT !.alive = FALSE] ELSE c
<1>1. /\ children \subseteq Child
      /\ \A c, d \in children : c.pid = d.pid => c = d
  BY DEF ChildInv
<1>2. \A c \in children : c.n \in Nat
  BY <1>1 DEF Child
<1>3. ChildMarkedDead(p) = {dead(c) : c \in children}
  BY <1>1, <1>2 DEF ChildMarkedDead
<1>4. \A c \in children :
        /\ dead(c) \in Child /\ dead(c).pid = c.pid
        /\ dead(c).alive <=> c.alive /\ c.pid # p
  BY <1>1 DEF Child
<1> HIDE DEF dead
<1> QED BY <1>1, <1>3, <1>4 DEF AlivePids, Alive

LEMMA ChildStep ==
  ASSUME ~PidReuse, ChildInv, [Next]_vars PROVE ChildInv'
<1> USE DEF NoPid
<1>i. /\ children \subseteq Child /\ forks \in Nat
      /\ forking \in Pids \cup {NoPid}
      /\ proc \in [Pids -> {"none", "running", "zombie", "reaped"}]
      /\ forking # NoPid => proc[forking] \in {"running", "zombie"}
      /\ \A c \in children : proc[c.pid] # "none" /\ c.pid # forking
      /\ \A c, d \in children : c.pid = d.pid => c = d
      /\ forking # NoPid => js # "idle"
      /\ AlivePids = childCbs
      /\ \A p \in childCbs : proc[p] \in {"running", "zombie"}
      /\ childCbs \subseteq Pids
  BY DEF ChildInv, ChildTablesAgree, AlivePids, Alive, Child
<1>0. NoPid \notin Pids
  BY LoopAssumption
<1>1. ASSUME NEW p \in Pids, Fork(p) PROVE ChildInv'
  <2>1. proc[p] = "none" /\ proc' = [proc EXCEPT ![p] = "running"] /\ forking' = p
        /\ forking = NoPid /\ js # "idle"
    BY <1>1 DEF Fork, JsFree
  <2>2. children' = children /\ childCbs' = childCbs /\ js' = js /\ forks' = forks + 1
    BY <1>1 DEF Fork, native, tables, control
  <2>3. \A c \in children : c.pid \in Pids /\ c.pid # p
    BY <1>i, <2>1 DEF Child
  <2> QED BY <1>i, <2>1, <2>2, <2>3 DEF ChildInv, ChildTablesAgree, AlivePids, Alive
<1>2. ASSUME ChildRegister PROVE ChildInv'
  <2> DEFINE r == [n |-> forks, pid |-> forking, alive |-> TRUE]
  <2>1. forking # NoPid /\ forking \in Pids /\ r \in Child /\ r.pid = forking /\ r.alive
    BY <1>i, <1>2 DEF ChildRegister, Child
  <2>2. children' = children \cup {r} /\ childCbs' = childCbs \cup {r.pid}
        /\ forking' = NoPid /\ proc' = proc /\ js' = js /\ forks' = forks
    BY <1>2 DEF ChildRegister, control
  <2> HIDE DEF r
  <2>3. AlivePids' = AlivePids \cup {r.pid}
    BY <2>1, <2>2 DEF AlivePids, Alive
  <2>4. \A c \in children' : c.pid \in Pids
    BY <1>i, <2>1, <2>2 DEF Child
  <2> QED BY <1>i, <1>0, <2>1, <2>2, <2>3, <2>4 DEF ChildInv, ChildTablesAgree
<1>3. ASSUME NEW p \in Pids, ChildUnregister(p) PROVE ChildInv'
  <2>1. children' = ChildMarkedDead(p) /\ childCbs' = childCbs \ {p}
        /\ UNCHANGED <<proc, forks, forking, js>>
    BY <1>3 DEF ChildUnregister, processes, control
  <2> QED BY <1>i, <2>1, MarkedDead DEF ChildInv, ChildTablesAgree, AlivePids
<1>4. ASSUME NEW p \in Pids, ReapOne(p) PROVE ChildInv'
  <2>1. children' = ChildMarkedDead(p) /\ childCbs' = childCbs \ {p}
        /\ proc' = [proc EXCEPT ![p] = "reaped"] /\ forking = NoPid
        /\ UNCHANGED <<forks, forking>>
    BY <1>i, <1>4 DEF ReapOne, At
  <2>2. /\ children' \subseteq Child /\ AlivePids' = AlivePids \ {p}
        /\ \A c \in children' : \E d \in children : c.pid = d.pid
        /\ \A c, d \in children' : c.pid = d.pid => c = d
    BY <2>1, MarkedDead DEF AlivePids
  <2>3. \A c \in children' : c.pid \in Pids
    BY <2>2 DEF Child
  <2>4. \A c \in children' : proc'[c.pid] # "none" /\ c.pid # forking'
    BY <1>i, <2>1, <2>2, <2>3
  <2>5. ChildTablesAgree'
    BY <1>i, <2>1, <2>2 DEF ChildTablesAgree
  <2>6. proc' \in [Pids -> {"none", "running", "zombie", "reaped"}]
    BY <1>i, <2>1
  <2> QED BY <1>i, <2>1, <2>2, <2>4, <2>5, <2>6 DEF ChildInv
<1>5. ASSUME NEW p \in Pids, ChildExits(p) PROVE ChildInv'
  <2>1. proc[p] = "running" /\ proc' = [proc EXCEPT ![p] = "zombie"]
        /\ UNCHANGED <<children, childCbs, forks, forking, js>>
    BY <1>5 DEF ChildExits, tables, control
  <2>2. \A c \in children : c.pid \in Pids
    BY <1>i DEF Child
  <2> QED BY <1>i, <2>1, <2>2 DEF ChildInv, ChildTablesAgree, AlivePids, Alive
<1>6. ASSUME children' = Alive(children),
             UNCHANGED <<childCbs, proc, forks, forking, js>>
      PROVE  ChildInv'
  BY <1>i, <1>6 DEF ChildInv, ChildTablesAgree, AlivePids, Alive
<1>7. ASSUME UNCHANGED <<children, childCbs, proc, forks, forking>>,
             forking = NoPid \/ js' = js
      PROVE  ChildInv'
  BY <1>i, <1>7 DEF ChildInv, ChildTablesAgree, AlivePids, Alive
<1> USE DEF vars, loopVars, control, native, tables, processes
<1>8. ASSUME JsStep PROVE ChildInv'
  BY <1>1, <1>3, <1>7, <1>8 DEF JsStep, JsOpen, JsClose, JsUse, IoWatch, IoUnwatch,
     EnqueueMicrotask
<1>9. ASSUME LoopStep PROVE ChildInv'
  <2>1. js = "idle" \/ js' = js => forking = NoPid \/ js' = js
    BY <1>i
  <2> QED BY <1>4, <1>6, <1>7, <1>9, <2>1 DEF LoopStep, DrainOne, DrainDone, Top,
       Select, SelectReturns, CheckSigchld, ReapDone, Dispatch, FireWatcher, FireDone,
       RunTimer, TimersDone, FlushExit, At
<1>10. ASSUME JsReturn \/ Exited \/ UNCHANGED vars PROVE ChildInv'
  BY <1>7, <1>10 DEF JsReturn, JsFree, Exited
<1>11. ASSUME Kernel PROVE ChildInv'
  BY <1>5, <1>7, <1>11 DEF Kernel, FdReady, ClockTicks, DateSet
<1> QED BY <1>2, <1>8, <1>9, <1>10, <1>11 DEF Next

\* A child keeps the loop alive, and has its callback, from childRegister until it
\* is reaped or unregistered: no longer and no shorter.  (Pids are not reused.)
THEOREM ChildTables ==
  ASSUME ~PidReuse PROVE Spec => []ChildTablesAgree
<1>1. ChildInv => ChildTablesAgree
  BY DEF ChildInv
<1>2. ChildInv /\ [Next]_vars => ChildInv'
  BY ChildStep
<1> QED BY <1>1, <1>2, RegistryInit, PTL DEF Spec

\* Both registries agree with the callback tables of globals.cpp, at once.
THEOREM Tables ==
  ASSUME ~PidReuse PROVE Spec => []TablesAgree
<1>1. WatcherTablesAgree /\ ChildTablesAgree => TablesAgree
  BY DEF TablesAgree
<1> QED BY <1>1, WatcherTables, ChildTables, PTL
-----------------------------------------------------------------------------
(* Sleeping and giving up. *)

DrainedInv ==
  loopRun = 1 =>
    /\ pc \in {"top", "select", "polled", "dispatch", "flush"} => microtasks = 0 /\ js = "idle"
    /\ pc = "fire" /\ js = "idle" => microtasks = 0

LEMMA DrainedStep ==
  ASSUME PhasesInv, DrainedInv, [Next]_vars PROVE DrainedInv'
<1> USE DEF DrainedInv
<1>p. Phases /\ ret \in {"top", "dispatch", "fire"}
  BY DEF PhasesInv
<1>1. ASSUME UNCHANGED <<pc, js, loopRun, microtasks>> PROVE DrainedInv'
  BY <1>1
<1>2. ASSUME EnqueueMicrotask PROVE DrainedInv'
  BY <1>2 DEF EnqueueMicrotask, JsFree, control
<1> USE DEF control, micro
<1>3. ASSUME JsReturn PROVE DrainedInv'
  BY <1>p, <1>3 DEF JsReturn, JsFree, ResumeAfter, DrainThen, Phases
<1>4. ASSUME FireWatcher \/ DrainOne \/ DrainDone \/ Top \/ Select \/ CheckSigchld
             \/ (\E p \in Pids : ReapOne(p)) \/ ReapDone \/ Dispatch \/ FlushExit
      PROVE  DrainedInv'
  BY <1>p, <1>4 DEF FireWatcher, DrainOne, DrainDone, Top, Select, SelectReturns,
     CheckSigchld, ReapOne, ReapDone, Dispatch, FlushExit, At, DrainThen, LoopReturns
<1>5. ASSUME FireDone \/ RunTimer \/ TimersDone PROVE DrainedInv'
  BY <1>5 DEF FireDone, RunTimer, TimersDone, At, DrainThen
<1> USE DEF vars, loopVars
<1>6. ASSUME JsStep PROVE DrainedInv'
  BY <1>1, <1>2, <1>6 DEF JsStep, JsOpen, JsClose, JsUse, IoWatch, IoUnwatch, Fork,
     ChildUnregister
<1>7. ASSUME ChildRegister \/ Kernel \/ Exited \/ UNCHANGED vars PROVE DrainedInv'
  BY <1>1, <1>7 DEF ChildRegister, Kernel, FdReady, ChildExits, ClockTicks, DateSet,
     Exited
<1> QED BY <1>3, <1>4, <1>5, <1>6, <1>7 DEF Next, LoopStep

\* Until the exit handlers run, the loop sleeps, picks and calls watchers and
\* returns only when every microtask queued so far has run.
THEOREM SleepsWithNoMicrotask == Spec => []SleepsDrained
<1>1. Init => DrainedInv
  BY DEF Init, DrainedInv
<1>2. DrainedInv => SleepsDrained
  BY DEF DrainedInv, SleepsDrained, At
<1>3. PhasesInv /\ DrainedInv /\ [Next]_vars => DrainedInv'
  BY DrainedStep
<1>4. PhasesInv /\ [Next]_vars => PhasesInv'
  BY PhasesStep
<1> QED BY <1>1, <1>2, <1>3, <1>4, PhasesInit, PTL DEF Spec

\* No watched descriptor is closed, so select() does not fail; and after the loop
\* has returned for good nothing changes what it found.
ExitInv ==
  /\ \A w \in Alive(watchers) : w.fd \in open
  /\ selected # "EBADF"
  /\ ExitsOnlyWhenIdle
  /\ pc = "exited" => js = "idle"

LEMMA ExitStep ==
  ASSUME ~CloseWatched, ~PidReuse, PhasesInv, WatcherInv, ChildInv, ExitInv, [Next]_vars
  PROVE  ExitInv'
<1> USE DEF ExitInv, ExitsOnlyWhenIdle, Alive, AnyTimer
<1>p. Phases
  BY DEF PhasesInv
<1>1. ASSUME UNCHANGED <<pc, js, watchers, open, selected, timerQueue, watcherCbs, childCbs>>
      PROVE  ExitInv'
  BY <1>1
<1>2. ASSUME js # "idle", js' = js, pc' = pc, selected' = selected,
             \A w \in Alive(watchers)' : w.fd \in open'
      PROVE  ExitInv'
  BY <1>2
<1> USE DEF control, iteration, native, tables, descriptors, timerVars
<1>3. ASSUME NEW fd \in Fds, JsOpen(fd) \/ JsClose(fd) PROVE ExitInv'
  BY <1>2, <1>3 DEF JsOpen, JsClose, JsFree
<1>4. ASSUME NEW fd \in Fds, NEW events \in EventMasks, IoWatch(fd, events)
      PROVE  ExitInv'
  BY <1>2, <1>4 DEF IoWatch, JsFree
<1>5. ASSUME NEW id \in WatcherIds, IoUnwatch(id) PROVE ExitInv'
  <2>1. \A w \in watchers : w.id = id => ~[w EXCEPT !.alive = FALSE].alive
    BY DEF WatcherInv, Watcher
  <2>2. \A w \in Alive(watchers)' : w \in Alive(watchers)
    BY <1>5, <2>1 DEF IoUnwatch
  <2> QED BY <1>2, <1>5, <2>2 DEF IoUnwatch, JsFree
<1>6. ASSUME JsReturn PROVE ExitInv'
  BY <1>p, <1>6 DEF JsReturn, JsFree, ResumeAfter, DrainThen, Phases
<1>7. ASSUME Top PROVE ExitInv'
  <2>1. NothingPending => ~AnyTimer /\ watcherCbs = {} /\ childCbs = {}
    BY DEF NothingPending, WatcherInv, WatcherTablesAgree, AliveIds, ChildInv,
       ChildTablesAgree, AlivePids
  <2>2. pc' = "exited" => NothingPending
    BY <1>7 DEF Top, LoopReturns
  <2> QED BY <1>7, <2>1, <2>2 DEF Top, At
<1>8. ASSUME Select PROVE ExitInv'
  BY <1>8 DEF Select, SelectReturns, BadFd
<1>9. ASSUME Dispatch PROVE ExitInv'
  BY <1>9 DEF Dispatch, At
<1>10. ASSUME DrainOne \/ DrainDone \/ CheckSigchld \/ (\E p \in Pids : ReapOne(p))
              \/ ReapDone \/ FireWatcher \/ FireDone \/ RunTimer \/ TimersDone \/ FlushExit
       PROVE  ExitInv'
  BY <1>p, <1>10 DEF DrainOne, DrainDone, CheckSigchld, ReapOne, ReapDone, FireWatcher,
     FireDone, RunTimer, TimersDone, FlushExit, At, DrainThen, PhasesInv
<1> USE DEF vars, loopVars
<1>11. ASSUME JsStep PROVE ExitInv'
  <2>1. ASSUME (SetTimer \/ ClearTimer) /\ UNCHANGED loopVars PROVE ExitInv'
    BY <1>2, <2>1 DEF SetTimer, ClearTimer, JsFree
  <2>2. ASSUME NEW p \in Pids, Fork(p) \/ ChildUnregister(p) PROVE ExitInv'
    BY <1>2, <2>2 DEF Fork, ChildUnregister, JsFree
  <2>3. ASSUME EnqueueMicrotask \/ (\E p \in ready : JsUse(p)) PROVE ExitInv'
    BY <1>1, <2>3 DEF EnqueueMicrotask, JsUse
  <2> QED BY <1>3, <1>4, <1>5, <1>11, <2>1, <2>2, <2>3 DEF JsStep
<1>12. ASSUME ChildRegister PROVE ExitInv'
  BY <1>2, <1>12 DEF ChildRegister, ChildInv
<1>13. ASSUME Kernel \/ Exited \/ UNCHANGED vars PROVE ExitInv'
  BY <1>1, <1>13 DEF Kernel, FdReady, ChildExits, ClockTicks, DateSet, Tick,
     ClockSetBack, Exited
<1> QED BY <1>6, <1>7, <1>8, <1>9, <1>10, <1>11, <1>12, <1>13 DEF Next, LoopStep

\* When scripts unwatch a descriptor before they close it, RunMain ends only with
\* no timer, watcher or child registered.
THEOREM ExitsIdle ==
  ASSUME ~CloseWatched, ~PidReuse PROVE Spec => []ExitsOnlyWhenIdle
<1>1. Init => ExitInv
  BY DEF Init, ExitInv, ExitsOnlyWhenIdle, Alive
<1>2. ExitInv => ExitsOnlyWhenIdle
  BY DEF ExitInv
<1>3. PhasesInv /\ WatcherInv /\ ChildInv /\ ExitInv /\ [Next]_vars => ExitInv'
  BY ExitStep
<1>4. PhasesInv /\ [Next]_vars => PhasesInv'
  BY PhasesStep
<1>5. WatcherInv /\ [Next]_vars => WatcherInv'
  BY WatcherStep
<1>6. ChildInv /\ [Next]_vars => ChildInv'
  BY ChildStep
<1> QED BY <1>1, <1>2, <1>3, <1>4, <1>5, <1>6, PhasesInit, WatcherInit, RegistryInit,
           PTL DEF Spec

SleepInv == SleepEndsForTimers /\ timeout \in Nat \cup {Never}

LEMMA SleepStep ==
  ASSUME PhasesInv, SleepInv, [Next]_vars PROVE SleepInv'
<1> USE DEF SleepInv, SleepEndsForTimers
<1>t. /\ TimerTypeOK /\ TimerTypeOK' /\ Phases
      /\ now \in Nat /\ now' \in Nat
      /\ \A k \in DOMAIN timerQueue : timerQueue[k].fireAt \in Nat
  <2>1. TimerTypeOK /\ TimerTypeOK' /\ Phases
    BY TimerStep, TypeStep DEF PhasesInv, TimerInv
  <2>2. timerQueue \in Seq(Timer)
    BY <2>1 DEF TimerTypeOK
  <2>3. \A k \in DOMAIN timerQueue : timerQueue[k] \in Timer
    BY <2>2, LenProperties
  <2> QED BY <2>1, <2>3 DEF TimerTypeOK, Timer
<1>1. ASSUME pc' # "select", timeout' = timeout PROVE SleepInv'
  BY <1>1
<1>2. ASSUME UNCHANGED <<pc, timerQueue, now, timeout>> PROVE SleepInv'
  BY <1>2
<1> USE DEF control, iteration, timerVars
<1>3. ASSUME Top PROVE SleepInv'
  <2>1. timerQueue' = timerQueue /\ now' = now
    BY <1>3 DEF Top
  <2>2. CASE AnyTimer
    <3>1. NextFireAt \in Nat
          /\ \A k \in DOMAIN timerQueue :
               ~timerQueue[k].cleared => NextFireAt <= timerQueue[k].fireAt
      BY <1>t, <2>2, NextFireAtIsEarliest
    <3>2. timeout' = EffectiveDelay(NextFireAt - now)
      BY <1>3, <2>2 DEF Top
    <3>3. timeout' \in Nat /\ (timeout' = 0 \/ now + timeout' = NextFireAt)
      BY <1>t, <3>1, <3>2 DEF EffectiveDelay
    <3>4. timeout' # Never
      BY <3>3 DEF Never
    <3> QED BY <1>t, <2>1, <3>1, <3>3, <3>4
  <2>3. CASE ~AnyTimer
    BY <1>3, <2>1, <2>3 DEF Top, AnyTimer
  <2> QED BY <2>2, <2>3
<1>4. ASSUME ClockTicks PROVE SleepInv'
  <2>1. pc' = pc /\ timerQueue' = timerQueue /\ now' = now + 1
        /\ timeout' = IF pc = "select" /\ timeout > 0 THEN timeout - 1 ELSE timeout
    BY <1>4 DEF ClockTicks, Tick
  <2>2. timeout' \in Nat \cup {Never} /\ (timeout # Never => timeout' # Never)
    BY <2>1 DEF Never
  <2>3. CASE pc = "select" /\ timeout \in Nat /\ timeout > 0
    BY <1>t, <2>1, <2>2, <2>3
  <2>4. CASE ~(pc = "select" /\ timeout \in Nat /\ timeout > 0)
    BY <1>t, <2>1, <2>2, <2>4 DEF Never
  <2> QED BY <2>3, <2>4
<1>5. ASSUME DateSet PROVE SleepInv'
  <2>1. UNCHANGED <<pc, timerQueue, timeout>> /\ now' <= now
    <3>1. PICK s \in BackSteps : s <= now /\ now' = now - s
      BY <1>5 DEF DateSet, ClockSetBack
    <3>2. s \in Nat
      BY TimerAssumption
    <3> QED BY <1>t, <1>5, <3>1, <3>2 DEF DateSet, ClockSetBack, loopVars
  <2> QED BY <1>t, <2>1 DEF Never
<1>6. ASSUME JsStep PROVE SleepInv'
  <2>1. js # "idle" /\ pc' = pc /\ timeout' = timeout
    BY <1>6 DEF JsStep, JsOpen, JsClose, JsUse, IoWatch, IoUnwatch, Fork,
       ChildUnregister, EnqueueMicrotask, SetTimer, ClearTimer, loopVars, JsFree
  <2>2. pc # "select"
    BY <1>t, <2>1 DEF Phases
  <2> QED BY <1>1, <2>1, <2>2
<1>7. ASSUME JsReturn PROVE SleepInv'
  <2>1. pc' # "select"
    BY <1>t, <1>7 DEF JsReturn, JsFree, ResumeAfter, DrainThen, Phases
  <2> QED BY <1>1, <1>7, <2>1 DEF JsReturn
<1>8. ASSUME DrainOne \/ DrainDone \/ Select \/ CheckSigchld
             \/ (\E p \in Pids : ReapOne(p)) \/ ReapDone \/ Dispatch \/ FireWatcher
             \/ FireDone \/ RunTimer \/ TimersDone \/ FlushExit
      PROVE  SleepInv'
  <2>1. pc' # "select" /\ timeout' \in {timeout, Never}
    BY <1>8 DEF PhasesInv, DrainOne, DrainDone, Select, SelectReturns, CheckSigchld,
       ReapOne, ReapDone, Dispatch, FireWatcher, FireDone, RunTimer, TimersDone,
       FlushExit, At, DrainThen, LoopReturns
  <2> QED BY <1>1, <2>1
<1>9. ASSUME ChildRegister \/ (\E fd \in Fds, e \in Events : FdReady(fd, e))
             \/ (\E p \in Pids : ChildExits(p)) \/ Exited \/ UNCHANGED vars
      PROVE  SleepInv'
  BY <1>2, <1>9 DEF ChildRegister, FdReady, ChildExits, Exited, vars, loopVars
<1> QED BY <1>3, <1>4, <1>5, <1>6, <1>7, <1>8, <1>9 DEF Next, LoopStep, Kernel

\* While a live timer waits, select() is given a timeout that ends no later than
\* the timer is due, whatever the date is set to meanwhile.
THEOREM SleepIsBounded == Spec => []SleepEndsForTimers
<1>1. Init => SleepInv
  BY DEF Init, SleepInv, SleepEndsForTimers
<1>2. SleepInv => SleepEndsForTimers
  BY DEF SleepInv
<1>3. PhasesInv /\ SleepInv /\ [Next]_vars => SleepInv'
  BY SleepStep
<1>4. PhasesInv /\ [Next]_vars => PhasesInv'
  BY PhasesStep
<1> QED BY <1>1, <1>2, <1>3, <1>4, PhasesInit, PTL DEF Spec
-----------------------------------------------------------------------------
(* Types. *)

LEMMA LoopTypeInit == Init => TypeOK
<1> SUFFICES ASSUME Init PROVE TypeOK
  OBVIOUS
<1>1. TimerTypeOK /\ ControlTypeOK
  BY TypeInit DEF Init, ControlTypeOK
<1>2. NativeTypeOK /\ IterationTypeOK
  <2>1. nextWatcherId \in Nat \ {0}
    BY DEF Init
  <2>2. {sigchldSeen, handler, anyTimer} \subseteq BOOLEAN
    BY Zenon DEF Init
  <2>3. timeout \in Nat \cup {Never}
    BY DEF Init
  <2> QED BY <2>1, <2>2, <2>3 DEF Init, NativeTypeOK, IterationTypeOK
<1>3. QueueTypeOK /\ KernelTypeOK
  BY DEF Init, QueueTypeOK, KernelTypeOK, NoPid
<1> QED BY <1>1, <1>2, <1>3 DEF TypeOK

\* The steps that call back or move the loop on; all others leave control alone.
LEMMA ControlTypeStep ==
  ASSUME ControlTypeOK, toFire \subseteq Nat, [Next]_vars PROVE ControlTypeOK'
<1> USE LoopAssumption DEF ControlTypeOK, control
<1>1. ASSUME UNCHANGED control PROVE ControlTypeOK'
  BY <1>1
<1>2. ASSUME JsReturn PROVE ControlTypeOK'
  BY <1>2 DEF JsReturn, ResumeAfter, DrainThen
<1>3. ASSUME LoopStep PROVE ControlTypeOK'
  <2>1. ASSUME DrainOne \/ DrainDone \/ Top \/ Select \/ CheckSigchld \/ FlushExit
        PROVE  ControlTypeOK'
    BY <2>1 DEF DrainOne, DrainDone, Top, Select, SelectReturns, CheckSigchld,
       LoopReturns, FlushExit
  <2>2. ASSUME NEW p \in Pids, ReapOne(p) PROVE ControlTypeOK'
    <3>1. p \in Nat
      BY <2>2 DEF LoopAssumption
    <3> QED BY <2>2, <3>1 DEF ReapOne
  <2>3. ASSUME ReapDone \/ Dispatch \/ FireDone \/ RunTimer \/ TimersDone
        PROVE  ControlTypeOK'
    BY <2>3 DEF ReapDone, Dispatch, FireDone, RunTimer, TimersDone, DrainThen,
       LoopReturns
  <2>4. ASSUME FireWatcher PROVE ControlTypeOK'
    BY <2>4 DEF FireWatcher, DrainThen
  <2> QED BY <1>3, <2>1, <2>2, <2>3, <2>4 DEF LoopStep
<1>4. ASSUME JsStep \/ ChildRegister \/ Kernel \/ Exited \/ UNCHANGED vars
      PROVE  UNCHANGED control
  BY <1>4 DEF JsStep, JsOpen, JsClose, JsUse, IoWatch, IoUnwatch, Fork,
     ChildUnregister, EnqueueMicrotask, ChildRegister, Kernel, FdReady, ChildExits,
     ClockTicks, DateSet, Exited, vars, loopVars
<1> QED BY <1>1, <1>2, <1>3, <1>4 DEF Next

LEMMA NativeTypeStep ==
  ASSUME NativeTypeOK, KernelTypeOK, [Next]_vars PROVE NativeTypeOK'
<1> USE DEF native
<1>i. /\ watchers \subseteq Watcher /\ nextWatcherId \in Nat \ {0}
      /\ children \subseteq Child /\ sigchldSeen \in BOOLEAN /\ handler \in BOOLEAN
  BY DEF NativeTypeOK
<1>1. ASSUME UNCHANGED native PROVE NativeTypeOK'
  BY <1>i, <1>1 DEF NativeTypeOK
<1>2. ASSUME NEW fd \in Fds, NEW events \in EventMasks, IoWatch(fd, events)
      PROVE  NativeTypeOK'
  <2> DEFINE r == [id |-> nextWatcherId, fd |-> fd, events |-> events, alive |-> TRUE]
  <2>1. r \in Watcher
    BY <1>i, LoopAssumption DEF Watcher, Events
  <2>2. watchers' = watchers \cup {r}
    BY <1>2 DEF IoWatch
  <2> HIDE DEF r
  <2>3. watchers' \subseteq Watcher
    BY <1>i, <2>1, <2>2
  <2> QED BY <1>i, <1>2, <2>3 DEF IoWatch, NativeTypeOK
<1>3. ASSUME NEW id \in WatcherIds, IoUnwatch(id) PROVE NativeTypeOK'
  <2> DEFINE dead(w) == IF w.id = id THEN [w EXCEPT !.alive = FALSE] ELSE w
  <2>1. \A w \in watchers : dead(w) \in Watcher
    BY <1>i DEF Watcher
  <2>2. watchers' \subseteq Watcher
    BY <1>3, <2>1 DEF IoUnwatch
  <2> QED BY <1>i, <1>3, <2>2 DEF IoUnwatch, NativeTypeOK
<1>4. ASSUME NEW p \in Pids PROVE ChildMarkedDead(p) \subseteq Child
  <2> DEFINE first(c) == c.pid = p /\ \A d \in children : d.pid = p => c.n <= d.n
  <2>1. ChildMarkedDead(p)
          = {IF first(c) THEN [c EXCEPT !.alive = FALSE] ELSE c : c \in children}
    BY DEF ChildMarkedDead
  <2> HIDE DEF first
  <2>2. \A c \in children : (IF first(c) THEN [c EXCEPT !.alive = FALSE] ELSE c) \in Child
    BY <1>i DEF Child
  <2> QED BY <2>1, <2>2
<1>5. ASSUME NEW p \in Pids, ChildUnregister(p) \/ ReapOne(p) PROVE NativeTypeOK'
  BY <1>i, <1>4, <1>5 DEF ChildUnregister, ReapOne, NativeTypeOK
<1>6. ASSUME ChildRegister PROVE NativeTypeOK'
  <2>1. [n |-> forks, pid |-> forking, alive |-> TRUE] \in Child
    BY <1>6 DEF ChildRegister, KernelTypeOK, Child
  <2> QED BY <1>i, <1>6, <2>1 DEF ChildRegister, NativeTypeOK
<1>7. ASSUME Top \/ CheckSigchld \/ ReapDone PROVE NativeTypeOK'
  <2>1. Alive(watchers) \subseteq Watcher /\ Alive(children) \subseteq Child
    BY <1>i DEF Alive
  <2> QED BY <1>i, <1>7, <2>1 DEF Top, CheckSigchld, ReapDone, NativeTypeOK
<1>8. ASSUME NEW p \in Pids, ChildExits(p) PROVE NativeTypeOK'
  BY <1>i, <1>8 DEF ChildExits, NativeTypeOK
<1>9. CASE JsStep
  BY <1>1, <1>2, <1>3, <1>5, <1>9 DEF JsStep, JsOpen, JsClose, JsUse, Fork,
     EnqueueMicrotask, loopVars
<1>10. CASE LoopStep
  BY <1>1, <1>5, <1>7, <1>10 DEF LoopStep, DrainOne, DrainDone, Select, SelectReturns,
     Dispatch, FireWatcher, FireDone, RunTimer, TimersDone, FlushExit
<1>11. CASE JsReturn \/ Kernel \/ Exited \/ UNCHANGED vars
  BY <1>1, <1>8, <1>11 DEF JsReturn, Kernel, FdReady, ClockTicks, DateSet, Exited,
     vars, loopVars
<1> QED BY <1>6, <1>9, <1>10, <1>11 DEF Next

\* The timeout is a number because a live timer has a time to fire at.
LEMMA IterationTypeStep ==
  ASSUME PhasesInv, NativeTypeOK, IterationTypeOK, KernelTypeOK, [Next]_vars
  PROVE  IterationTypeOK'
<1> USE DEF iteration, Never
<1>i. /\ anyTimer \in BOOLEAN /\ timeout \in Nat \cup {Never}
      /\ selected \in {"ready", "timeout", "EINTR", "EBADF"}
      /\ polled \subseteq Fds \X Events /\ toFire \subseteq Nat
      /\ nextWatcherId \in Nat \ {0}
      /\ watchers \subseteq Watcher /\ ready \subseteq Fds \X Events
  BY DEF IterationTypeOK, NativeTypeOK, KernelTypeOK
<1>1. ASSUME UNCHANGED iteration PROVE IterationTypeOK'
  BY <1>i, <1>1 DEF IterationTypeOK
<1>2. ASSUME Top PROVE IterationTypeOK'
  <2>1. timeout' \in Nat \cup {Never}
    <3>1. now \in Nat
      BY DEF PhasesInv, TimerInv, TimerTypeOK
    <3>2. CASE AnyTimer
      <4>1. NextFireAt \in Nat
        BY <3>2, NextFireAtIsEarliest DEF PhasesInv, TimerInv
      <4> QED BY <1>2, <3>1, <3>2, <4>1 DEF Top, EffectiveDelay
    <3>3. CASE ~AnyTimer
      BY <1>2, <3>3 DEF Top
    <3> QED BY <3>2, <3>3
  <2>2. AnyTimer \in BOOLEAN
    BY DEF AnyTimer
  <2> QED BY <1>i, <1>2, <2>1, <2>2 DEF Top, IterationTypeOK
<1>3. ASSUME Select PROVE IterationTypeOK'
  <2>1. ReadyWatched \subseteq Fds \X Events
    BY <1>i DEF ReadyWatched
  <2> QED BY <1>i, <1>3, <2>1 DEF Select, SelectReturns, IterationTypeOK
<1>4. ASSUME Dispatch PROVE IterationTypeOK'
  <2>1. \A w \in watchers : w.id \in Nat
    BY <1>i DEF Watcher
  <2>2. toFire' \subseteq Nat
    BY <1>4, <2>1 DEF Dispatch, Alive
  <2> QED BY <1>i, <1>4, <2>2 DEF Dispatch, IterationTypeOK
<1>5. ASSUME FireWatcher PROVE IterationTypeOK'
  BY <1>i, <1>5 DEF FireWatcher, IterationTypeOK
<1>6. ASSUME ClockTicks PROVE IterationTypeOK'
  BY <1>i, <1>6 DEF ClockTicks, IterationTypeOK
<1>f. ASSUME FireDone PROVE IterationTypeOK'
  <2>1. anyTimer' \in BOOLEAN
    BY <1>f, Zenon DEF FireDone
  <2>2. UNCHANGED <<timeout, selected, polled, toFire>>
    BY <1>f DEF FireDone
  <2> QED BY <1>i, <2>1, <2>2 DEF IterationTypeOK
<1>7. CASE LoopStep
  BY <1>1, <1>2, <1>3, <1>4, <1>5, <1>f, <1>7 DEF LoopStep, DrainOne, DrainDone,
     CheckSigchld, ReapOne, ReapDone, RunTimer, TimersDone, FlushExit
<1>8. CASE JsStep \/ JsReturn \/ ChildRegister \/ Kernel \/ Exited \/ UNCHANGED vars
  BY <1>1, <1>6, <1>8 DEF JsStep, JsOpen, JsClose, JsUse, IoWatch, IoUnwatch, Fork,
     ChildUnregister, EnqueueMicrotask, JsReturn, ChildRegister, Kernel, FdReady,
     ChildExits, DateSet, Exited, vars, loopVars
<1> QED BY <1>7, <1>8 DEF Next

LEMMA QueueTypeStep ==
  ASSUME NativeTypeOK, QueueTypeOK, KernelTypeOK, [Next]_vars PROVE QueueTypeOK'
<1> USE LoopAssumption DEF tables, micro
<1>i. /\ watcherCbs \subseteq Nat /\ childCbs \subseteq Pids /\ microtasks \in Nat
      /\ microtasksEver \in Nat /\ nextWatcherId \in Nat
  BY DEF QueueTypeOK, NativeTypeOK
<1>1. ASSUME UNCHANGED <<tables, micro>> PROVE QueueTypeOK'
  BY <1>i, <1>1 DEF QueueTypeOK
<1>2. ASSUME EnqueueMicrotask \/ DrainOne PROVE QueueTypeOK'
  <2>1. CASE EnqueueMicrotask
    BY <1>i, <2>1 DEF EnqueueMicrotask, QueueTypeOK
  <2>2. CASE DrainOne
    <3>1. microtasks' \in Nat
      BY <1>i, <2>2 DEF DrainOne
    <3> QED BY <1>i, <2>2, <3>1 DEF DrainOne, QueueTypeOK
  <2> QED BY <1>2, <2>1, <2>2
<1>3. ASSUME NEW fd \in Fds, NEW events \in EventMasks, IoWatch(fd, events)
      PROVE  QueueTypeOK'
  BY <1>i, <1>3 DEF IoWatch, QueueTypeOK
<1>4. ASSUME NEW id \in WatcherIds, IoUnwatch(id) PROVE QueueTypeOK'
  BY <1>i, <1>4 DEF IoUnwatch, QueueTypeOK
<1>5. ASSUME ChildRegister PROVE QueueTypeOK'
  BY <1>i, <1>5 DEF ChildRegister, QueueTypeOK, KernelTypeOK
<1>6. ASSUME NEW p \in Pids, ChildUnregister(p) \/ ReapOne(p) PROVE QueueTypeOK'
  BY <1>i, <1>6 DEF ChildUnregister, ReapOne, QueueTypeOK
<1>7. CASE JsStep
  BY <1>1, <1>2, <1>3, <1>4, <1>6, <1>7 DEF JsStep, JsOpen, JsClose, JsUse, Fork, loopVars
<1>8. CASE LoopStep
  BY <1>1, <1>2, <1>6, <1>8 DEF LoopStep, DrainDone, Top, Select, SelectReturns,
     CheckSigchld, ReapDone, Dispatch, FireWatcher, FireDone, RunTimer, TimersDone,
     FlushExit
<1>9. CASE JsReturn \/ Kernel \/ Exited \/ UNCHANGED vars
  BY <1>1, <1>9 DEF JsReturn, Kernel, FdReady, ChildExits, ClockTicks, DateSet, Exited,
     vars, loopVars
<1> QED BY <1>5, <1>7, <1>8, <1>9 DEF Next

LEMMA KernelTypeStep ==
  ASSUME KernelTypeOK, [Next]_vars PROVE KernelTypeOK'
<1> USE DEF processes, descriptors
<1>i. /\ proc \in [Pids -> {"none", "running", "zombie", "reaped"}] /\ forks \in Nat
      /\ forking \in Pids \cup {NoPid} /\ interrupted \in BOOLEAN
      /\ open \subseteq Fds /\ ready \subseteq Fds \X Events
  BY DEF KernelTypeOK
<1>1. ASSUME UNCHANGED <<processes, descriptors>> PROVE KernelTypeOK'
  BY <1>i, <1>1 DEF KernelTypeOK
<1>2. ASSUME NEW fd \in Fds, JsOpen(fd) \/ JsClose(fd) PROVE KernelTypeOK'
  BY <1>i, <1>2 DEF JsOpen, JsClose, KernelTypeOK
<1>3. ASSUME NEW p \in ready, JsUse(p) PROVE KernelTypeOK'
  BY <1>i, <1>3 DEF JsUse, KernelTypeOK
<1>4. ASSUME NEW p \in Pids, Fork(p) \/ ReapOne(p) \/ ChildExits(p) PROVE KernelTypeOK'
  <2>1. proc' \in [Pids -> {"none", "running", "zombie", "reaped"}]
    BY <1>i, <1>4 DEF Fork, ReapOne, ChildExits
  <2>2. open' \subseteq Fds /\ ready' \subseteq Fds \X Events
    BY <1>i, <1>4 DEF Fork, ReapOne, ChildExits
  <2>3. forks' \in Nat /\ forking' \in Pids \cup {NoPid}
    BY <1>i, <1>4 DEF Fork, ReapOne, ChildExits
  <2>4. interrupted' \in BOOLEAN
    BY <1>i, <1>4 DEF Fork, ReapOne, ChildExits
  <2> QED BY <2>1, <2>2, <2>3, <2>4 DEF KernelTypeOK
<1>5. ASSUME ChildRegister \/ Select PROVE KernelTypeOK'
  BY <1>i, <1>5 DEF ChildRegister, Select, SelectReturns, KernelTypeOK
<1>6. ASSUME NEW fd \in Fds, NEW e \in Events, FdReady(fd, e) PROVE KernelTypeOK'
  BY <1>i, <1>6 DEF FdReady, KernelTypeOK
<1>7. CASE JsStep
  BY <1>1, <1>2, <1>3, <1>4, <1>7 DEF JsStep, IoWatch, IoUnwatch, ChildUnregister,
     EnqueueMicrotask, loopVars
<1>8. CASE LoopStep
  BY <1>1, <1>4, <1>5, <1>8 DEF LoopStep, DrainOne, DrainDone, Top, CheckSigchld,
     ReapDone, Dispatch, FireWatcher, FireDone, RunTimer, TimersDone, FlushExit
<1>9. CASE JsReturn \/ Kernel \/ Exited \/ UNCHANGED vars
  BY <1>1, <1>4, <1>6, <1>9 DEF JsReturn, Kernel, ClockTicks, DateSet, Exited,
     vars, loopVars
<1> QED BY <1>5, <1>7, <1>8, <1>9 DEF Next

\* Every variable of the loop keeps its type.
THEOREM LoopTypeCorrect == Spec => []TypeOK
<1>1. PhasesInv /\ TypeOK /\ [Next]_vars => TypeOK'
  <2> SUFFICES ASSUME PhasesInv, TypeOK, [Next]_vars PROVE TypeOK'
    OBVIOUS
  <2>1. TimerTypeOK'
    BY PhasesStep DEF PhasesInv, TimerInv
  <2>2. toFire \subseteq Nat
    BY DEF TypeOK, IterationTypeOK
  <2> QED BY <2>1, <2>2, ControlTypeStep, NativeTypeStep, IterationTypeStep,
             QueueTypeStep, KernelTypeStep DEF TypeOK
<1>2. PhasesInv /\ [Next]_vars => PhasesInv'
  BY PhasesStep
<1> QED BY <1>1, <1>2, LoopTypeInit, PhasesInit, PTL DEF Spec

-----------------------------------------------------------------------------
(* The streams of spawned children. *)

\* What StreamInv depends on.
streamState ==
  <<fdOf, endOf, idOf, watching, ended, fill, writing, proc, nextWatcherId,
    watcherCbs, watchers, open>>

LEMMA StreamInit == ChildInit => StreamInv
<1> SUFFICES ASSUME ChildInit PROVE StreamInv
  OBVIOUS
<1> USE DEF ChildInit, Init
<1>1. StreamTypeOK
  BY DEF StreamTypeOK, NoPid, NoPipe
<1>2. StreamIds /\ ReaderIsWatched
  BY DEF StreamIds, ReaderIsWatched
<1>3. WatchedFds /\ EndIsComplete
  BY DEF WatchedFds, EndIsComplete
<1> QED BY <1>1, <1>2, <1>3 DEF StreamInv

LEMMA StreamUnchanged ==
  ASSUME StreamInv, UNCHANGED streamState,
         js' = "watcher" /\ turn' # "return" =>
           \A s \in Streams : idOf[s] = current' => s \in watching
  PROVE  StreamInv'
BY DEF StreamInv, StreamTypeOK, StreamIds, ReaderIsWatched, WatchedFds, WatcherOf,
   EndIsComplete, streamState, Streams, Stdins, Outputs

\* A stream that is watched has a number and a watcher of its own.
LEMMA OwnNumbers ==
  ASSUME StreamInv, NEW s \in watching, NEW t \in watching, s # t
  PROVE  s \in Streams /\ t \in Streams /\ fdOf[s] # fdOf[t] /\ idOf[s] # idOf[t]
BY DEF StreamInv, StreamTypeOK, StreamIds, WatchedFds

\* One of two things that end a stream: destroy() and the end of the data.
LEMMA StreamStops ==
  ASSUME StreamInv, NEW s \in watching, Unwatches(s), Closes(fdOf[s]),
         UNCHANGED <<fdOf, idOf, ended, fill, writing, proc, nextWatcherId>>,
         js' = js, current' = current,
         js = "watcher" => turn' = "return" \/ (turn' = turn /\ current # idOf[s])
  PROVE  StreamInv'
<1> USE DEF StreamInv
<1>s. s \in Streams /\ endOf[fdOf[s]] = s /\ fdOf[s] \in Fds
  BY DEF StreamTypeOK, WatchedFds
<1>1. /\ watching' = watching \ {s}
      /\ watcherCbs' = watcherCbs \ {idOf[s]}
      /\ open' = open \ {fdOf[s]}
      /\ endOf' = [endOf EXCEPT ![fdOf[s]] = NoPipe]
  BY DEF Unwatches, Closes
<1>2. StreamTypeOK'
  BY <1>1 DEF StreamTypeOK, Streams, Stdins, Outputs
<1>3. StreamIds'
  BY <1>1 DEF StreamIds, Streams, Outputs
<1>4. ReaderIsWatched'
  BY <1>1, <1>s DEF ReaderIsWatched, StreamIds, Streams, Outputs
<1>5. WatchedFds'
  <2>1. ASSUME NEW t \in watching'
        PROVE  fdOf[t] \in Fds /\ endOf'[fdOf[t]] = t /\ WatcherOf(t)' \in watchers'
    <3>1. t \in watching /\ t # s
      BY <1>1, <2>1
    <3>2. fdOf[t] # fdOf[s] /\ idOf[t] # idOf[s]
      BY <3>1, OwnNumbers
    <3>3. fdOf[t] \in Fds /\ endOf[fdOf[t]] = t /\ WatcherOf(t) \in watchers
      BY <3>1 DEF WatchedFds
    <3>4. WatcherOf(t).id # idOf[s]
      BY <3>2 DEF WatcherOf
    <3>5. WatcherOf(t) \in watchers'
      BY <3>3, <3>4 DEF Unwatches
    <3>6. WatcherOf(t)' = WatcherOf(t)
      BY DEF WatcherOf
    <3>7. endOf'[fdOf[t]] = t
      BY <1>1, <3>2, <3>3 DEF StreamTypeOK
    <3> QED BY <3>3, <3>5, <3>6, <3>7
  <2>2. \A fd \in Fds : endOf'[fd] # NoPipe => fd \in open'
    BY <1>1, <1>s DEF StreamTypeOK, WatchedFds
  <2> QED BY <2>1, <2>2 DEF WatchedFds
<1>6. EndIsComplete'
  BY DEF EndIsComplete
<1> QED BY <1>2, <1>3, <1>4, <1>5, <1>6

\* A spawned child gets descriptors that nobody has, two new watchers and streams
\* that have not been used.
LEMMA StreamsStart ==
  ASSUME StreamInv, NEW p \in Pids, Spawn(p) PROVE StreamInv'
<1> USE DEF StreamInv
<1> DEFINE out == <<p, "out">>
           err == <<p, "err">>
           in == <<p, "in">>
<1>0. /\ in \in Stdins /\ out \in Streams /\ err \in Streams
      /\ out # err /\ out # in /\ err # in
      /\ \A s \in Streams : s[1] \in Pids /\ (s[1] = p => s \in {out, err})
      /\ out[1] = p /\ err[1] = p
  BY DEF Streams, Stdins, Outputs
<1>1. PICK i, o, e \in Fds \ open :
        /\ i < o /\ o < e
        /\ open' = open \cup {i, o, e}
        /\ fdOf' = [fdOf EXCEPT ![in] = i, ![out] = o, ![err] = e]
        /\ endOf' = [endOf EXCEPT ![i] = in, ![o] = out, ![e] = err]
        /\ watchers' = watchers \cup
             {[id |-> nextWatcherId, fd |-> o, events |-> {"r"}, alive |-> TRUE],
              [id |-> nextWatcherId + 1, fd |-> e, events |-> {"r"}, alive |-> TRUE]}
  BY DEF Spawn
<1>2. /\ nextWatcherId' = nextWatcherId + 2
      /\ watcherCbs' = watcherCbs \cup {nextWatcherId, nextWatcherId + 1}
      /\ idOf' = [idOf EXCEPT ![out] = nextWatcherId, ![err] = nextWatcherId + 1]
      /\ watching' = watching \cup {out, err}
      /\ writing' = writing \cup {out, err}
      /\ proc' = [proc EXCEPT ![p] = "running"]
      /\ proc[p] = "none"
      /\ ended' = ended /\ fill' = fill /\ js' = js /\ turn' = turn
      /\ current' = current
  BY DEF Spawn, control
<1> HIDE DEF in, out, err
<1>3. i # o /\ i # e /\ o # e /\ i \in Fds /\ o \in Fds /\ e \in Fds
  BY <1>1, LoopAssumption
<1>4. endOf[i] = NoPipe /\ endOf[o] = NoPipe /\ endOf[e] = NoPipe
  BY <1>1 DEF WatchedFds
<1>5. \A s \in watching \cup ended : s \in Streams /\ s[1] # p /\ s # out /\ s # err
  BY <1>0, <1>2 DEF StreamTypeOK, StreamIds
<1>6. \A s \in Streams : s # NoPipe
  BY LoopAssumption DEF Streams, NoPipe, NoPid
<1>7. StreamTypeOK'
  BY <1>0, <1>1, <1>2, <1>3 DEF StreamTypeOK
<1>8. idOf[out] = 0 /\ idOf[err] = 0
  BY <1>0, <1>2 DEF StreamIds
<1>9. StreamIds'
  <2>1. \A s \in Streams :
          idOf'[s] = IF s = out THEN nextWatcherId
                     ELSE IF s = err THEN nextWatcherId + 1 ELSE idOf[s]
    BY <1>0, <1>2 DEF StreamTypeOK
  <2>2. \A s, t \in Streams : idOf'[s] # 0 /\ idOf'[s] = idOf'[t] => s = t
    BY <2>1 DEF StreamTypeOK, StreamIds
  <2>3. \A s \in Streams : idOf'[s] < nextWatcherId'
    BY <1>2, <2>1 DEF StreamTypeOK, StreamIds
  <2>4. \A s \in Streams : proc'[s[1]] = "none" => idOf'[s] = 0
    BY <1>0, <1>2, <2>1 DEF StreamTypeOK, StreamIds
  <2>5. \A s \in watching' \cup ended' : idOf'[s] # 0
    BY <1>0, <1>2, <2>1, <1>5 DEF StreamTypeOK, StreamIds
  <2> QED BY <2>2, <2>3, <2>4, <2>5 DEF StreamIds
<1>10. ReaderIsWatched'
  <2>1. \A s \in Streams :
          s \notin {out, err} => idOf'[s] = idOf[s] /\ idOf[s] < nextWatcherId
    BY <1>2 DEF StreamTypeOK, StreamIds
  <2>2. watcherCbs' \subseteq 1 .. nextWatcherId' - 1
    BY <1>2 DEF StreamTypeOK, ReaderIsWatched
  <2>3. \A s \in Streams : idOf'[s] \in watcherCbs' => s \in watching'
    BY <1>2, <2>1 DEF StreamTypeOK, ReaderIsWatched
  <2>4. js' = "watcher" /\ turn' # "return" =>
          \A s \in Streams : idOf'[s] = current' => s \in watching'
    BY <1>2, <2>1 DEF ReaderIsWatched
  <2> QED BY <2>2, <2>3, <2>4 DEF ReaderIsWatched
<1>11. WatchedFds'
  <2>1. /\ fdOf'[out] = o /\ fdOf'[err] = e
        /\ endOf'[o] = out /\ endOf'[e] = err
        /\ idOf'[out] = nextWatcherId /\ idOf'[err] = nextWatcherId + 1
    BY <1>0, <1>1, <1>2, <1>3 DEF StreamTypeOK
  <2>2. WatcherOf(out)' \in watchers' /\ WatcherOf(err)' \in watchers'
    <3>1. /\ [id |-> nextWatcherId, fd |-> o, events |-> {"r"}, alive |-> TRUE]
               \in watchers'
          /\ [id |-> nextWatcherId + 1, fd |-> e, events |-> {"r"}, alive |-> TRUE]
               \in watchers'
      BY <1>1, Zenon
    <3> QED BY <2>1, <3>1, Zenon DEF WatcherOf, out, err
  <2>3. ASSUME NEW s \in watching
        PROVE  fdOf'[s] \in Fds /\ endOf'[fdOf'[s]] = s /\ WatcherOf(s)' \in watchers'
    <3>1. fdOf[s] \in Fds /\ endOf[fdOf[s]] = s /\ WatcherOf(s) \in watchers
      BY DEF WatchedFds
    <3>2. fdOf[s] \notin {i, o, e}
      BY <1>4, <1>5, <1>6, <3>1
    <3>3. fdOf'[s] = fdOf[s] /\ idOf'[s] = idOf[s]
      <4>1. s # in
        BY <1>5 DEF in
      <4> QED BY <1>1, <1>2, <1>5, <4>1 DEF StreamTypeOK
    <3>4. endOf'[fdOf[s]] = s
      BY <1>1, <3>1, <3>2 DEF StreamTypeOK
    <3>5. WatcherOf(s)' \in watchers'
      <4>1. WatcherOf(s) \in watchers'
        BY <1>1, <3>1
      <4>2. WatcherOf(s)' = WatcherOf(s)
        BY <3>3 DEF WatcherOf
      <4> QED BY <4>1, <4>2
    <3> QED BY <3>1, <3>3, <3>4, <3>5
  <2>4. \A fd \in Fds : endOf'[fd] # NoPipe => fd \in open'
    BY <1>1 DEF StreamTypeOK, WatchedFds
  <2> QED BY <1>2, <1>3, <2>1, <2>2, <2>3, <2>4 DEF WatchedFds
<1>12. EndIsComplete'
  BY <1>2, <1>5 DEF EndIsComplete
<1> QED BY <1>7, <1>9, <1>10, <1>11, <1>12

\* Ending stdin closes the descriptor of no stream that is watched.
LEMMA StdinEnds ==
  ASSUME StreamInv, NEW p \in Pids, EndStdin(p) PROVE StreamInv'
<1> USE DEF StreamInv
<1>1. PICK fd \in open : endOf[fd] = <<p, "in">> /\ Closes(fd)
  BY DEF EndStdin
<1>2. open' = open \ {fd} /\ endOf' = [endOf EXCEPT ![fd] = NoPipe]
  BY <1>1 DEF Closes
<1>3. /\ UNCHANGED <<fdOf, idOf, watching, ended, fill, writing, proc, nextWatcherId>>
      /\ UNCHANGED <<watcherCbs, watchers, js, turn, current>>
  BY DEF EndStdin, control, native, tables, processes, pipeVars
<1>4. StreamTypeOK'
  BY <1>2, <1>3 DEF StreamTypeOK, Streams, Stdins, Outputs
<1>5. StreamIds' /\ ReaderIsWatched' /\ EndIsComplete'
  BY <1>3 DEF StreamIds, ReaderIsWatched, EndIsComplete, Streams, Outputs
<1>6. \A s \in watching : s # <<p, "in">>
  BY DEF StreamTypeOK, Streams, Outputs
<1>7. WatchedFds'
  BY <1>1, <1>2, <1>3, <1>6 DEF StreamTypeOK, WatchedFds, WatcherOf
<1> QED BY <1>4, <1>5, <1>7

\* The callback that reads is that of a watched stream.
LEMMA ReaderWatched ==
  ASSUME StreamInv, NEW s \in Streams, RunningStream(s), turn # "return"
  PROVE  s \in watching
BY DEF StreamInv, ReaderIsWatched, RunningStream

\* Only FireWatcher starts a watcher's callback, and only one in the table.
LEMMA StreamLoopStep ==
  ASSUME StreamInv, LoopSteps PROVE StreamInv'
<1> USE DEF StreamInv
<1>1. UNCHANGED <<fdOf, endOf, idOf, watching, ended, fill, writing>>
  BY DEF LoopSteps, streamVars, pipeVars
<1>2. js = "idle" /\ LoopStep
  BY DEF LoopSteps, LoopStep, DrainOne, DrainDone, Top, Select, CheckSigchld, ReapOne,
     ReapDone, Dispatch, FireWatcher, FireDone, RunTimer, TimersDone, FlushExit, At
<1>3. js' = "watcher" => current' \in watcherCbs
  BY <1>2 DEF LoopStep, DrainOne, DrainDone, Top, Select, SelectReturns, CheckSigchld,
     ReapOne, ReapDone, Dispatch, FireWatcher, HasCallback, FireDone, RunTimer,
     TimersDone, FlushExit
<1>4. UNCHANGED <<nextWatcherId, watcherCbs, open>>
  BY <1>2 DEF LoopStep, DrainOne, DrainDone, Top, Select, SelectReturns, CheckSigchld,
     ReapOne, ReapDone, Dispatch, FireWatcher, FireDone, RunTimer, TimersDone,
     FlushExit, native, tables, descriptors
<1>5. \A s \in Streams : js' = "watcher" /\ idOf[s] = current' => s \in watching
  BY <1>3 DEF ReaderIsWatched
<1>6. CASE Top
  <2>1. watchers' = Alive(watchers) /\ proc' = proc
    BY <1>6 DEF Top, processes
  <2>2. \A s \in Streams : WatcherOf(s)' = WatcherOf(s)
    BY <1>1 DEF WatcherOf
  <2>3. \A s \in watching : WatcherOf(s)' \in watchers'
    BY <2>1, <2>2 DEF WatchedFds, WatcherOf, Alive, StreamTypeOK
  <2>4. WatchedFds'
    BY <1>1, <1>4, <2>3 DEF WatchedFds
  <2> QED BY <1>1, <1>4, <1>5, <2>1, <2>4 DEF StreamTypeOK, StreamIds, ReaderIsWatched,
             EndIsComplete, Streams, Stdins, Outputs
<1>7. CASE \E p \in Pids : ReapOne(p)
  <2>1. PICK p \in Pids : ReapOne(p)
    BY <1>7
  <2>2. /\ watchers' = watchers /\ proc[p] = "zombie"
        /\ proc' = [proc EXCEPT ![p] = "reaped"]
    BY <2>1 DEF ReapOne
  <2>3. StreamTypeOK' /\ StreamIds'
    BY <1>1, <1>4, <2>2 DEF StreamTypeOK, StreamIds, Streams, Stdins, Outputs
  <2>4. WatchedFds'
    BY <1>1, <1>4, <2>2 DEF WatchedFds, WatcherOf
  <2> QED BY <1>1, <1>4, <1>5, <2>3, <2>4 DEF ReaderIsWatched, EndIsComplete
<1>8. CASE ~Top /\ ~\E p \in Pids : ReapOne(p)
  <2>1. watchers' = watchers /\ proc' = proc
    BY <1>2, <1>8 DEF LoopStep, DrainOne, DrainDone, Select, SelectReturns,
       CheckSigchld, ReapDone, Dispatch, FireWatcher, FireDone, RunTimer, TimersDone,
       FlushExit, native, processes
  <2> QED BY <1>1, <1>4, <1>5, <2>1, StreamUnchanged DEF streamState
<1> QED BY <1>6, <1>7, <1>8

LEMMA StreamStep ==
  ASSUME StreamInv, [ChildNext]_allVars PROVE StreamInv'
<1> USE DEF control, native, tables, processes, descriptors, streamVars, eventVars,
            pipeVars
<1>1. ASSUME NEW p \in Pids, ChildEnds(p) PROVE StreamInv'
  <2>1. /\ UNCHANGED <<fdOf, endOf, idOf, watching, ended, fill, writing, watchers>>
        /\ UNCHANGED <<nextWatcherId, watcherCbs, open, js, turn, current>>
        /\ proc[p] = "running" /\ proc' = [proc EXCEPT ![p] = "zombie"]
    BY <1>1 DEF ChildEnds, ChildExits, libVars
  <2>2. StreamTypeOK' /\ StreamIds'
    BY <2>1 DEF StreamInv, StreamTypeOK, StreamIds, Streams, Stdins, Outputs
  <2> QED BY <2>1, <2>2 DEF StreamInv, ReaderIsWatched, WatchedFds, WatcherOf,
             EndIsComplete
<1>2. ASSUME NEW s \in Streams, Destroy(s) PROVE StreamInv'
  <2>1. s \in watching /\ Unwatches(s) /\ Closes(fdOf[s])
        /\ (js = "watcher" => current # idOf[s])
    BY <1>2 DEF Destroy, RunningStream
  <2> QED BY <1>2, <2>1, StreamStops DEF Destroy
<1>3. ASSUME NEW s \in Streams, EndSeen(s) PROVE StreamInv'
  <2>1. s \in watching /\ Unwatches(s) /\ Closes(fdOf[s]) /\ turn' = "return"
    BY <1>3, ReaderWatched DEF EndSeen, UserRuns
  <2> QED BY <1>3, <2>1, StreamStops DEF EndSeen
<1>4. ASSUME NEW s \in Streams, ChildWrites(s) \/ ChildCloses(s) PROVE StreamInv'
  <2>1. /\ UNCHANGED <<fdOf, endOf, idOf, watching, ended, proc, watchers>>
        /\ UNCHANGED <<nextWatcherId, watcherCbs, open, js, turn, current>>
        /\ s \in writing /\ writing' \subseteq writing
        /\ fill' = fill \/ (fill' = [fill EXCEPT ![s] = @ + 1] /\ s \in writing)
    BY <1>4 DEF ChildWrites, ChildCloses
  <2>2. StreamTypeOK'
    BY <2>1 DEF StreamInv, StreamTypeOK, Streams, Stdins, Outputs
  <2>3. EndIsComplete'
    BY <2>1 DEF StreamInv, StreamTypeOK, EndIsComplete
  <2> QED BY <2>1, <2>2, <2>3 DEF StreamInv, StreamIds, ReaderIsWatched, WatchedFds,
             WatcherOf
<1>5. ASSUME NEW s \in Streams, ReadData(s) \/ ReadEnd(s) PROVE StreamInv'
  <2>1. /\ UNCHANGED <<fdOf, endOf, idOf, watching, writing, proc, watchers>>
        /\ UNCHANGED <<nextWatcherId, watcherCbs, open, js, current>>
        /\ RunningStream(s) /\ turn = "read"
        /\ \/ ended' = ended /\ fill' = [fill EXCEPT ![s] = 0]
           \/ fill' = fill /\ ended' = ended \cup {s} /\ AtEof(s)
    BY <1>5 DEF ReadData, ReadEnd, Reads, vars, loopVars
  <2>2. s \in watching
    BY <2>1, ReaderWatched
  <2>3. StreamTypeOK' /\ StreamIds'
    BY <2>1, <2>2 DEF StreamInv, StreamTypeOK, StreamIds, Streams, Stdins, Outputs
  <2>4. ReaderIsWatched' /\ WatchedFds'
    BY <2>1 DEF StreamInv, ReaderIsWatched, WatchedFds, WatcherOf
  <2>5. EndIsComplete'
    BY <2>1 DEF StreamInv, StreamTypeOK, EndIsComplete, AtEof
  <2> QED BY <2>3, <2>4, <2>5 DEF StreamInv
<1>6. ASSUME \E s \in Streams : DataSeen(s) PROVE StreamInv'
  BY <1>6, StreamUnchanged DEF DataSeen, UserRuns, streamState, StreamInv,
     ReaderIsWatched, vars, loopVars
<1>7. ASSUME ScheduleClose \/ CallbackReturns PROVE StreamInv'
  <2>1. UNCHANGED streamState /\ (js' # "watcher" \/ turn' = "return")
    BY <1>7 DEF ScheduleClose, CallbackReturns, JsReturn, streamState, loopVars
  <2> QED BY <2>1, StreamUnchanged
<1>8. ASSUME UserTimer \/ ChildRegisters \/ (Exited /\ UNCHANGED libVars)
             \/ UNCHANGED allVars
      PROVE  StreamInv'
  <2>1. UNCHANGED streamState /\ UNCHANGED <<js, turn, current>>
    BY <1>8 DEF UserTimer, ChildRegisters, ChildRegister, Exited, streamState, loopVars,
       libVars, allVars, vars
  <2> QED BY <2>1, StreamUnchanged DEF StreamInv, ReaderIsWatched
<1>9. CASE Library
  <2>1. ASSUME NEW s \in Streams, ReadData(s) \/ DataSeen(s) \/ ReadEnd(s) \/ EndSeen(s)
        PROVE  StreamInv'
    BY <1>3, <1>5, <1>6, <2>1
  <2>2. LoopSteps => StreamInv'
    BY StreamLoopStep
  <2>3. ChildRegisters => StreamInv'
    BY <1>8
  <2>4. ScheduleClose \/ CallbackReturns => StreamInv'
    BY <1>7
  <2> QED BY <1>9, <2>1, <2>2, <2>3, <2>4 DEF Library
<1>10. ASSUME NEW p \in Pids, Spawn(p) \/ EndStdin(p) \/ ChildEnds(p) PROVE StreamInv'
  BY <1>1, <1>10, StreamsStart, StdinEnds
<1>11. ASSUME NEW s \in Streams, Destroy(s) \/ ChildWrites(s) \/ ChildCloses(s)
       PROVE  StreamInv'
  BY <1>2, <1>4, <1>11
<1>12. UserTimer \/ (Exited /\ UNCHANGED libVars) \/ UNCHANGED allVars => StreamInv'
  BY <1>8
<1> QED BY <1>9, <1>10, <1>11, <1>12 DEF ChildNext

\* A watched stream's descriptor number still means its own pipe, and its watcher
\* is in g_watchers under its id, whatever is spawned, ended, destroyed and closed.
THEOREM StreamsOwn == ChildSpec => []StreamsOwnTheirFds
<1>1. StreamInv => StreamsOwnTheirFds
  <2>1. ASSUME StreamInv, NEW s \in watching
        PROVE  \E w \in Alive(watchers) : w.id = idOf[s] /\ w.fd = fdOf[s]
    <3>1. WatcherOf(s) \in Alive(watchers)
      BY <2>1 DEF StreamInv, WatchedFds, WatcherOf, Alive
    <3>2. WatcherOf(s).id = idOf[s] /\ WatcherOf(s).fd = fdOf[s]
      BY DEF WatcherOf
    <3> QED BY <3>1, <3>2
  <2> QED BY <2>1 DEF StreamInv, WatchedFds, StreamsOwnTheirFds
<1>2. StreamInv /\ [ChildNext]_allVars => StreamInv'
  BY StreamStep
<1> QED BY <1>1, <1>2, StreamInit, PTL DEF ChildSpec

\* Once a stream has emitted 'end' its pipe is empty and can never be filled again.
THEOREM EndAfterData == ChildSpec => []EndIsComplete
<1>1. StreamInv => EndIsComplete
  BY DEF StreamInv
<1>2. StreamInv /\ [ChildNext]_allVars => StreamInv'
  BY StreamStep
<1> QED BY <1>1, <1>2, StreamInit, PTL DEF ChildSpec

-----------------------------------------------------------------------------
(* What is left open at the end. *)

LEMMA LeakInit == ChildInit => LeakInv
<1> SUFFICES ASSUME ChildInit PROVE LeakInv
  OBVIOUS
<1> QED BY StreamInit DEF LeakInv, OpenFdsAreOwned, EndsUnwatched, ChildInit, Init, Alive

\* select() is given no closed descriptor.
LEMMA NoBadFd == ASSUME LeakInv PROVE ~BadFd
<1>1. \A s \in watching : fdOf[s] \in open
  <2>1. \A s \in watching : s \in Streams /\ fdOf[s] \in Fds /\ endOf[fdOf[s]] = s
    BY DEF LeakInv, StreamInv, StreamTypeOK, WatchedFds
  <2>2. \A s \in Streams : s # NoPipe
    BY LoopAssumption DEF Streams, NoPipe, NoPid
  <2> QED BY <2>1, <2>2 DEF LeakInv, StreamInv, WatchedFds
<1>2. \A w \in Alive(watchers) : \E s \in watching : w.fd = fdOf[s]
  BY DEF LeakInv, OpenFdsAreOwned, WatcherOf
<1> QED BY <1>1, <1>2 DEF BadFd

LEMMA OwnedUnchanged ==
  ASSUME OpenFdsAreOwned, UNCHANGED <<open, endOf, watching, fdOf, idOf>>,
         Alive(watchers)' \subseteq Alive(watchers)
  PROVE  OpenFdsAreOwned'
<1>1. \A s \in watching : WatcherOf(s)' = WatcherOf(s)
  BY DEF WatcherOf
<1>2. \A w \in Alive(watchers)' : \E s \in watching : w = WatcherOf(s)'
  BY <1>1 DEF OpenFdsAreOwned
<1> QED BY <1>2 DEF OpenFdsAreOwned, Stdins

\* A stream takes its descriptor and its watcher with it.
LEMMA OwnedStops ==
  ASSUME LeakInv, NEW s \in watching, Unwatches(s), Closes(fdOf[s]),
         UNCHANGED <<fdOf, idOf>>
  PROVE  OpenFdsAreOwned' /\ Alive(watchers)' \subseteq Alive(watchers)
<1>1. /\ watching' = watching \ {s}
      /\ open' = open \ {fdOf[s]}
      /\ endOf' = [endOf EXCEPT ![fdOf[s]] = NoPipe]
  BY DEF Unwatches, Closes
<1>2. /\ \A fd \in open : endOf[fd] \in Stdins
                          \/ (endOf[fd] \in watching /\ fdOf[endOf[fd]] = fd)
      /\ open \subseteq Fds
      /\ \A fd \in Fds : fd # fdOf[s] => endOf'[fd] = endOf[fd]
  BY <1>1 DEF LeakInv, OpenFdsAreOwned, StreamInv, StreamTypeOK
<1>3. \A fd \in open' : endOf'[fd] \in Stdins
                        \/ (endOf'[fd] \in watching' /\ fdOf[endOf'[fd]] = fd)
  BY <1>1, <1>2
<1>4. ASSUME NEW w \in Alive(watchers)'
      PROVE  w \in Alive(watchers) /\ w.id # idOf[s]
  <2>1. w \in watchers' /\ w.alive
    BY DEF Alive
  <2>2. PICK v \in watchers :
          w = IF s \in watching /\ v.id = idOf[s] THEN [v EXCEPT !.alive = FALSE] ELSE v
    BY <2>1 DEF Unwatches
  <2>3. v.id # idOf[s]
    BY <2>1, <2>2
  <2> QED BY <2>1, <2>2, <2>3 DEF Alive
<1>5. ASSUME NEW w \in Alive(watchers)'
      PROVE  \E t \in watching' : w = WatcherOf(t)'
  <2>1. PICK t \in watching : w = WatcherOf(t)
    BY <1>4, <1>5 DEF LeakInv, OpenFdsAreOwned
  <2>2. w.id = idOf[t]
    BY <2>1 DEF WatcherOf
  <2>3. t \in watching'
    BY <1>1, <1>4, <2>2
  <2>4. WatcherOf(t)' = WatcherOf(t)
    BY DEF WatcherOf
  <2> QED BY <2>1, <2>3, <2>4
<1> QED BY <1>1, <1>2, <1>3, <1>4, <1>5 DEF OpenFdsAreOwned, Stdins

\* A spawned child owns the three descriptors and the two watchers it brings.
LEMMA OwnedStarts ==
  ASSUME LeakInv, NEW p \in Pids, Spawn(p) PROVE OpenFdsAreOwned'
<1> DEFINE out == <<p, "out">>
           err == <<p, "err">>
           in == <<p, "in">>
           rec(id, fd) == [id |-> id, fd |-> fd, events |-> {"r"}, alive |-> TRUE]
<1>0. /\ in \in Stdins /\ out \in Streams /\ err \in Streams
      /\ out # err /\ out # in /\ err # in
      /\ \A s \in Streams : s[1] = p => s \in {out, err}
      /\ out[1] = p /\ err[1] = p /\ in \notin Streams
  BY DEF Streams, Stdins, Outputs
<1>1. PICK i, o, e \in Fds \ open :
        /\ i < o /\ o < e
        /\ open' = open \cup {i, o, e}
        /\ fdOf' = [fdOf EXCEPT ![in] = i, ![out] = o, ![err] = e]
        /\ endOf' = [endOf EXCEPT ![i] = in, ![o] = out, ![e] = err]
        /\ watchers' = watchers \cup {rec(nextWatcherId, o), rec(nextWatcherId + 1, e)}
  BY DEF Spawn
<1>2. /\ idOf' = [idOf EXCEPT ![out] = nextWatcherId, ![err] = nextWatcherId + 1]
      /\ watching' = watching \cup {out, err}
      /\ proc[p] = "none"
  BY DEF Spawn
<1> HIDE DEF in, out, err, rec
<1>3. i # o /\ i # e /\ o # e /\ i \in Fds /\ o \in Fds /\ e \in Fds
  BY <1>1, LoopAssumption
<1>t. /\ fdOf \in [Streams \cup Stdins -> Fds \cup {0}]
      /\ endOf \in [Fds -> Streams \cup Stdins \cup {NoPipe}]
      /\ idOf \in [Streams -> Nat]
  BY DEF LeakInv, StreamInv, StreamTypeOK
<1>4. \A s \in watching : s \in Streams /\ s # out /\ s # err /\ s # in
  BY <1>0, <1>2 DEF LeakInv, StreamInv, StreamTypeOK, StreamIds
<1>5. /\ fdOf'[out] = o /\ fdOf'[err] = e
      /\ endOf'[i] = in /\ endOf'[o] = out /\ endOf'[e] = err
      /\ idOf'[out] = nextWatcherId /\ idOf'[err] = nextWatcherId + 1
  BY <1>0, <1>1, <1>2, <1>3, <1>t
<1>6. \A s \in watching : fdOf'[s] = fdOf[s] /\ idOf'[s] = idOf[s]
  BY <1>1, <1>2, <1>4, <1>t
<1>7. ASSUME NEW fd \in open'
      PROVE  /\ fd \in Fds
             /\ endOf'[fd] \in Stdins \/ (endOf'[fd] \in watching' /\ fdOf'[endOf'[fd]] = fd)
  <2>1. CASE fd \in {i, o, e}
    BY <1>0, <1>2, <1>3, <1>5, <2>1
  <2>2. CASE fd \notin {i, o, e}
    <3>1. fd \in open
      BY <1>1, <2>2
    <3>2. fd \in Fds /\ (endOf[fd] \in Stdins
                          \/ (endOf[fd] \in watching /\ fdOf[endOf[fd]] = fd))
      BY <3>1 DEF LeakInv, OpenFdsAreOwned
    <3>3. endOf'[fd] = endOf[fd]
      BY <1>1, <1>t, <2>2, <3>2
    <3> QED BY <1>2, <1>6, <3>2, <3>3
  <2> QED BY <2>1, <2>2
<1>8. ASSUME NEW w \in Alive(watchers)'
      PROVE  \E s \in watching' : w = WatcherOf(s)'
  <2>1. w \in Alive(watchers) \/ w = rec(nextWatcherId, o) \/ w = rec(nextWatcherId + 1, e)
    BY <1>1 DEF Alive, rec
  <2>2. CASE w \in Alive(watchers)
    <3>1. PICK s \in watching : w = WatcherOf(s)
      BY <2>2 DEF LeakInv, OpenFdsAreOwned
    <3>2. WatcherOf(s)' = WatcherOf(s)
      BY <1>6 DEF WatcherOf
    <3> QED BY <1>2, <3>1, <3>2
  <2>3. CASE w = rec(nextWatcherId, o)
    <3>1. w = WatcherOf(out)' /\ out \in watching'
      BY <1>2, <1>5, <2>3, Zenon DEF WatcherOf, out, err, rec
    <3> QED BY <3>1, Zenon DEF out
  <2>4. CASE w = rec(nextWatcherId + 1, e)
    <3>1. w = WatcherOf(err)' /\ err \in watching'
      BY <1>2, <1>5, <2>4, Zenon DEF WatcherOf, out, err, rec
    <3> QED BY <3>1, Zenon DEF err
  <2> QED BY <2>1, <2>2, <2>3, <2>4
<1> QED BY <1>7, <1>8 DEF OpenFdsAreOwned, Stdins

\* A turn of the loop: it watches no more than before, and when it ends nothing.
LEMMA LeakLoopStep ==
  ASSUME LeakInv, LoopSteps PROVE OpenFdsAreOwned' /\ EndsUnwatched'
<1>1. LoopStep /\ UNCHANGED <<endOf, watching, fdOf, idOf>>
  BY DEF LoopSteps, streamVars
<1>i. /\ ret \in {"top", "dispatch", "fire"} /\ selected # "EBADF"
      /\ pc = "exited" => js = "idle" /\ Alive(watchers) = {}
      /\ ~BadFd
  BY NoBadFd DEF LeakInv, EndsUnwatched
<1>2. UNCHANGED open /\ (watchers' = watchers \/ watchers' = Alive(watchers))
  BY <1>1 DEF LoopStep, DrainOne, DrainDone, Top, Select, SelectReturns, CheckSigchld,
     ReapOne, ReapDone, Dispatch, FireWatcher, FireDone, RunTimer, TimersDone,
     FlushExit, native, descriptors
<1>3. Alive(watchers)' = Alive(watchers)
  BY <1>2 DEF Alive
<1>4. ret' \in {"top", "dispatch", "fire"} /\ selected' # "EBADF"
  BY <1>1, <1>i DEF LoopStep, DrainOne, DrainDone, Top, Select, SelectReturns,
     CheckSigchld, ReapOne, ReapDone, Dispatch, FireWatcher, FireDone, RunTimer,
     TimersDone, FlushExit, iteration, DrainThen
<1>5. pc' = "exited" => Top /\ NothingPending
  <2>1. pc # "exited" /\ (pc = "dispatch" => selected # "EBADF")
    BY <1>1, <1>i DEF LoopStep, DrainOne, DrainDone, Top, Select, CheckSigchld, ReapOne,
       ReapDone, Dispatch, FireWatcher, FireDone, RunTimer, TimersDone, FlushExit, At
  <2> QED BY <1>1, <1>i, <2>1 DEF LoopStep, DrainOne, DrainDone, Top, Select,
             SelectReturns, CheckSigchld, ReapOne, ReapDone, Dispatch, FireWatcher,
             FireDone, RunTimer, TimersDone, FlushExit, DrainThen
<1>6. pc' = "exited" => js' = "idle" /\ Alive(watchers)' = {}
  BY <1>3, <1>5 DEF Top, NothingPending, At
<1> QED BY <1>1, <1>2, <1>3, <1>4, <1>6, OwnedUnchanged DEF LeakInv, EndsUnwatched

\* All other steps; while JavaScript runs the loop has not ended.
LEMMA LeakStep ==
  ASSUME LeakInv, [ChildNext]_allVars PROVE LeakInv'
<1> USE DEF control, native, iteration, tables, processes, descriptors, streamVars,
            eventVars, pipeVars
<1>i. StreamInv' /\ OpenFdsAreOwned /\ EndsUnwatched
  BY StreamStep DEF LeakInv
<1> DEFINE owned == <<open, endOf, watching, fdOf, idOf>>
           where == <<pc, js, ret, selected>>
           Leak == OpenFdsAreOwned' /\ EndsUnwatched'
<1>1. ASSUME UNCHANGED <<owned, watchers, where>> PROVE Leak
  BY <1>i, <1>1, OwnedUnchanged DEF EndsUnwatched, Alive
<1>2. ASSUME NEW p \in Pids, Spawn(p) PROVE Leak
  <2>1. UNCHANGED where /\ js # "idle"
    BY <1>2 DEF Spawn, UserRuns, JsFree
  <2> QED BY <1>i, <1>2, <2>1, OwnedStarts DEF EndsUnwatched
<1>3. ASSUME NEW s \in Streams, Destroy(s) \/ EndSeen(s) PROVE Leak
  <2>1. /\ s \in watching /\ Unwatches(s) /\ Closes(fdOf[s])
        /\ UNCHANGED where /\ js # "idle" /\ UNCHANGED <<fdOf, idOf>>
    BY <1>3, ReaderWatched DEF Destroy, EndSeen, UserRuns, JsFree, LeakInv
  <2> QED BY <1>i, <2>1, OwnedStops DEF EndsUnwatched
<1>4. ASSUME NEW p \in Pids, EndStdin(p) PROVE Leak
  <2>1. PICK fd \in open : endOf[fd] = <<p, "in">> /\ Closes(fd)
    BY <1>4 DEF EndStdin
  <2>2. open' = open \ {fd} /\ endOf' = [endOf EXCEPT ![fd] = NoPipe]
    BY <2>1 DEF Closes
  <2>3. UNCHANGED <<where, watchers, watching, fdOf, idOf>>
    BY <1>4 DEF EndStdin
  <2>4. \A f \in open' : endOf'[f] = endOf[f]
    BY <2>2 DEF LeakInv, StreamInv, StreamTypeOK, OpenFdsAreOwned
  <2>5. \A s \in watching : WatcherOf(s)' = WatcherOf(s)
    BY <2>3 DEF WatcherOf
  <2>6. OpenFdsAreOwned'
    BY <1>i, <2>2, <2>3, <2>4, <2>5 DEF OpenFdsAreOwned, Alive, Stdins
  <2> QED BY <1>i, <2>3, <2>6 DEF EndsUnwatched, Alive
<1>5. ASSUME CallbackReturns PROVE Leak
  <2>1. UNCHANGED <<owned, watchers, selected>> /\ js # "idle" /\ pc # "exited"
    BY <1>5, <1>i DEF CallbackReturns, JsReturn, JsFree, EndsUnwatched
  <2>2. pc' # "exited" /\ ret' \in {"top", "dispatch", "fire"}
    BY <1>5, <1>i, <2>1 DEF CallbackReturns, JsReturn, ResumeAfter, DrainThen,
       EndsUnwatched
  <2> QED BY <1>i, <2>1, <2>2, OwnedUnchanged DEF EndsUnwatched, Alive
<1>6. ASSUME NEW s \in Streams,
             ReadData(s) \/ DataSeen(s) \/ ReadEnd(s) \/ ChildWrites(s) \/ ChildCloses(s)
      PROVE  Leak
  <2>1. UNCHANGED <<owned, watchers, where>>
    BY <1>6 DEF ReadData, DataSeen, ReadEnd, ChildWrites, ChildCloses, vars, loopVars
  <2> QED BY <1>1, <2>1
<1>7. ASSUME \/ \E p \in Pids : ChildEnds(p)
             \/ UserTimer
             \/ ChildRegisters
             \/ ScheduleClose
             \/ Exited /\ UNCHANGED libVars
             \/ UNCHANGED allVars
      PROVE  Leak
  <2>1. UNCHANGED <<owned, watchers, where>>
    BY <1>7 DEF ChildEnds, ChildExits, UserTimer, ChildRegisters, ChildRegister,
       ScheduleClose, Exited, libVars, allVars, vars, loopVars
  <2> QED BY <1>1, <2>1
<1> HIDE DEF Leak
<1>8. ASSUME Library PROVE Leak
  <2>1. LoopSteps => Leak
    BY LeakLoopStep DEF Leak
  <2>2. ASSUME NEW s \in Streams, ReadData(s) \/ DataSeen(s) \/ ReadEnd(s) \/ EndSeen(s)
        PROVE  Leak
    BY <1>3, <1>6, <2>2
  <2>3. ChildRegisters \/ ScheduleClose \/ CallbackReturns => Leak
    BY <1>5, <1>7
  <2> QED BY <1>8, <2>1, <2>2, <2>3 DEF Library
<1>9. ASSUME NEW p \in Pids, Spawn(p) \/ EndStdin(p) \/ ChildEnds(p) PROVE Leak
  BY <1>2, <1>4, <1>7, <1>9
<1>10. ASSUME NEW s \in Streams, Destroy(s) \/ ChildWrites(s) \/ ChildCloses(s) PROVE Leak
  BY <1>3, <1>6, <1>10
<1>11. UserTimer \/ (Exited /\ UNCHANGED libVars) \/ UNCHANGED allVars => Leak
  BY <1>7
<1>12. Leak
  BY <1>8, <1>9, <1>10, <1>11 DEF ChildNext
<1> QED BY <1>i, <1>12 DEF Leak, LeakInv

\* When the program ends every descriptor still open is a stdin nobody ended: all
\* streams have seen the end or been destroyed, and have closed theirs.
THEOREM NoStreamLeaks == ChildSpec => []OnlyStdinLeaks
<1>1. ASSUME LeakInv PROVE OnlyStdinLeaks
  <2>1. pc = "exited" => watching = {}
    <3>1. \A s \in watching : WatcherOf(s) \in Alive(watchers)
      BY <1>1 DEF LeakInv, StreamInv, WatchedFds, WatcherOf, Alive
    <3> QED BY <1>1, <3>1 DEF LeakInv, EndsUnwatched
  <2> QED BY <1>1, <2>1 DEF LeakInv, OpenFdsAreOwned, OnlyStdinLeaks
<1>2. LeakInv /\ [ChildNext]_allVars => LeakInv'
  BY LeakStep
<1> QED BY <1>1, <1>2, LeakInit, PTL DEF ChildSpec
==============================================================================
