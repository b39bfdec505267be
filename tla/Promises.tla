------------------------------ MODULE Promises ------------------------------
(***************************************************************************)
(* The Promise of globals.cpp (_IonPromise) and the microtask queue.       *)
(*                                                                         *)
(* The operators take and return a world: a record with the promises made  *)
(* so far (heap, a promise is its index) and the microtasks that wait      *)
(* (micro), and whatever else the code that runs changes.  An operator     *)
(* that also returns a promise returns [w, p].                             *)
(*                                                                         *)
(* A function given to then() is a record Code(do, s, n), its name and     *)
(* what it has captured; the module that EXTENDS this one says what the    *)
(* code does, and how it ends: with a value, with a promise or by throwing.*)
(***************************************************************************)
EXTENDS Integers, Sequences, SequencesExt

Undefined == 0

\* Op with one element of s after the other, from w.
InOrder(Op(_, _), w, s) ==
  LET after[i \in 0 .. Len(s)] == IF i = 0 THEN w ELSE Op(after[i - 1], s[i])
  IN after[Len(s)]

Code(do, s, n) == [do |-> do, s |-> s, n |-> n]
NoCode == Code("none", "", 0)
Noop == Code("noop", "", 0)
Into(settle, p) == Code(settle, "", p) \* the resolve or the reject function of p

Value(v) == [how |-> "value", v |-> v]
Promised(p) == [how |-> "promise", v |-> p]
Throws(e) == [how |-> "throw", v |-> e]

\* flagged: 'unhandledRejection' was emitted; heard (history): then() was called.
Pending == [state |-> "pending", value |-> Undefined, reactions |-> << >>,
            handled |-> FALSE, flagged |-> FALSE, heard |-> FALSE, tally |-> 0]

Made(w) == [w |-> [w EXCEPT !.heap = Append(@, Pending)], p |-> Len(w.heap) + 1]

Task(r, state, v) == [do |-> state, r |-> r, v |-> v]
Check(p) == [do |-> "check", r |-> [onF |-> NoCode, onR |-> NoCode, to |-> p], v |-> Undefined]

\* A promise settles once; its reactions wait in the microtask queue, in order.
\* Nobody listens when it is rejected: a look at it waits behind them.
HadHandlers_Always(q) == TRUE \* Mutant: no promise is looked at
HadHandlers(q) == q.reactions # << >>
Settled(w, p, state, v) ==
  LET q == w.heap[p]
      unseen == state = "rejected" /\ ~HadHandlers(q)
  IN IF q.state # "pending" THEN w
     ELSE [w EXCEPT
            !.heap[p] = [q EXCEPT !.state = state, !.value = v, !.reactions = << >>,
                                  !.handled = IF state = "rejected" THEN ~unseen ELSE @],
            !.micro = @ \o [i \in DOMAIN q.reactions |-> Task(q.reactions[i], state, v)]
                        \o (IF unseen THEN <<Check(p)>> ELSE << >>)]

\* then(): on a settled promise the handler waits in the microtask queue too.
\* A late reject handler takes 'unhandledRejection' back ('rejectionHandled').
Subscribed(w, p, onF, onR, to) ==
  LET r == [onF |-> onF, onR |-> onR, to |-> to]
      q == [w.heap[p] EXCEPT !.heard = TRUE, !.handled = @ \/ onR # NoCode,
                             !.flagged = @ /\ onR = NoCode]
  IN IF q.state = "pending"
     THEN [w EXCEPT !.heap[p] = [q EXCEPT !.reactions = Append(@, r)]]
     ELSE [w EXCEPT !.heap[p] = q, !.micro = Append(@, Task(r, q.state, q.value))]

\* Of a world and a promise, to the new one m.
ThenTo(m, p, onF, onR) == [w |-> Subscribed(m.w, p, onF, onR, m.p), p |-> m.p]
Then(w, p, onF, onR) == ThenTo(Made(w), p, onF, onR)
ThenOf(r, onF, onR) == Then(r.w, r.p, onF, onR)
Catch(w, p, onR) == Then(w, p, NoCode, onR)

\* resolve(): a thenable is followed (the promise its then() returns is dropped).
Resolved(w, p, a) ==
  IF a.how = "promise"
  THEN IF w.heap[p].state # "pending" THEN w
       ELSE Subscribed(w, a.v, Into("resolve", p), Into("reject", p), 0)
  ELSE Settled(w, p, IF a.how = "throw" THEN "rejected" ELSE "fulfilled", a.v)

\* Promise.resolve() returns a promise as it is; Promise.reject()
PromiseResolve(w, a) ==
  IF a.how = "promise" THEN [w |-> w, p |-> a.v]
  ELSE [w |-> Resolved(Made(w).w, Made(w).p, a), p |-> Made(w).p]
PromiseReject(w, e) == PromiseResolve(w, Throws(e))

-----------------------------------------------------------------------------
(* The combinators, on a sequence of promises.  all() and any() count in   *)
(* the promise they return.                                                *)

SubscribedAll(w, ps, onF, onR) ==
  InOrder(LAMBDA x, p : Then(x, p, onF, onR).w, w, ps)

Tallied(w, n) == LET m == Made(w) IN [m EXCEPT !.w = [@ EXCEPT !.heap[m.p].tally = n]]

PromiseAll(w, ps) ==
  LET m == Tallied(w, Len(ps))
  IN IF ps = << >> THEN [m EXCEPT !.w = Settled(m.w, m.p, "fulfilled", Undefined)]
     ELSE [m EXCEPT !.w = SubscribedAll(m.w, ps, Code("one", "", m.p), Into("reject", m.p))]

PromiseRace(w, ps) ==
  LET m == Made(w)
  IN [m EXCEPT !.w = SubscribedAll(m.w, ps, Into("resolve", m.p), Into("reject", m.p))]

\* all() of promises that never reject
PromiseAllSettled(w, ps) ==
  LET x == InOrder(LAMBDA y, p : LET t == Then(y.w, p, Noop, Noop)
                                 IN [w |-> t.w, ps |-> Append(y.ps, t.p)],
                   [w |-> w, ps |-> << >>], ps)
  IN PromiseAll(x.w, x.ps)

PromiseAny(w, ps) ==
  LET m == Tallied(w, Len(ps))
  IN IF ps = << >> THEN PromiseReject(w, Undefined)
     ELSE [m EXCEPT !.w = SubscribedAll(m.w, ps, Into("resolve", m.p), Code("failed", "", m.p))]

\* all() is done with the last result, any() rejects with the last error.
Count(w, p, state, v) ==
  LET x == [w EXCEPT !.heap[p].tally = @ - 1]
  IN IF x.heap[p].tally = 0 THEN Settled(x, p, state, v) ELSE x

-----------------------------------------------------------------------------
(* __drain_microtasks__ runs the first microtask: a look at a promise, or  *)
(* a handler with the value that its promise settled with.                 *)

HandlerOf(t) == IF t.do = "fulfilled" THEN t.r.onF ELSE t.r.onR

\* Without a handler the outcome is passed on.
PassedOn(w, t) ==
  [w |-> w, a |-> IF t.do = "fulfilled" THEN Value(t.v) ELSE Throws(t.v)]

\* The handlers that the library itself gives to then(): settling functions and counters.
Own == {"resolve", "reject", "one", "failed", "noop"}
CallsOwn(w, f, v) ==
  [w |-> CASE f.do = "resolve" -> Settled(w, f.n, "fulfilled", v)
           [] f.do = "reject" -> Settled(w, f.n, "rejected", v)
           [] f.do = "one" -> Count(w, f.n, "fulfilled", Undefined)
           [] f.do = "failed" -> Count(w, f.n, "rejected", v)
           [] f.do = "noop" -> w,
   a |-> Value(Undefined)]

\* handleF and handleR: the outcome c of the handler settles the promise then() made.
Handled(t, c) == IF t.r.to = 0 THEN c.w ELSE Resolved(c.w, t.r.to, c.a)

\* The look at a promise that was rejected with no handler.
Looked(w, p) == IF w.heap[p].handled THEN w ELSE [w EXCEPT !.heap[p].flagged = TRUE]
=============================================================================
