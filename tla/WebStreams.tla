----------------------------- MODULE WebStreams -----------------------------
(***************************************************************************)
(* The WHATWG streams of globals.cpp: ReadableStream, WritableStream,      *)
(* TransformStream, pipeTo(), pipeThrough() and tee(), on the promises of  *)
(* Promises.                                                               *)
(*                                                                         *)
(* One microtask is one action; the world outside (the source, the sink,   *)
(* the transformer, the script) acts when the microtask queue is empty, as *)
(* the event loop drains it after every callback.                          *)
(*                                                                         *)
(* The readable streams are "src" with a source, "out" of the transform,   *)
(* and "left" and "right" of a tee(); the writable ones "dst" with a sink  *)
(* and "in" of the transform.  Chunks are numbered as the source gives     *)
(* them; the result of read() is a chunk, or Done.                         *)
(***************************************************************************)
EXTENDS Promises, FiniteSets

CONSTANTS
  Chunks, \* bound: chunks of the source, and writes of the script
  Faults, \* bound: failures of source, sink and transformer
  Plans   \* what the script builds, and how source, sink and transform answer

ASSUME WebStreamsAssumption ==
  /\ Chunks \in Nat /\ Faults \in Nat
  /\ \A p \in Plans :
       /\ p.shape \in {"read", "pipe", "through", "tee", "write"}
       /\ p.source \in {"start", "push", "pull", "asyncPull"}
       /\ p.sink \in {"now", "later"} /\ p.transform \in {"now", "later"}
       /\ p.join \in {"none", "all", "race", "any", "allSettled"}
       /\ p.fails \in BOOLEAN /\ p.twice \in BOOLEAN

VARIABLES
  heap, micro, \* promises and microtasks
  rs,     \* the readable streams
  ws,     \* the writable streams
  owed,   \* answers the world outside still owes
  plan,   \* what this run does
  given,  \* chunks the source has given
  over,   \* history: src was closed by its source
  taken,  \* history: the chunks each consumer was given
  done,   \* history: consumers that were told of the end
  script, \* the script's promises: pipeTo()'s, its writes', and their join
  faults  \* failures of the world outside so far

vars == <<heap, micro, rs, ws, owed, plan, given, over, taken, done, script, faults>>

World == [heap |-> heap, micro |-> micro, rs |-> rs, ws |-> ws, owed |-> owed,
          plan |-> plan, given |-> given, over |-> over, taken |-> taken,
          done |-> done, script |-> script, faults |-> faults]

Becomes(w) ==
  /\ heap' = w.heap /\ micro' = w.micro /\ rs' = w.rs /\ ws' = w.ws /\ owed' = w.owed
  /\ plan' = w.plan /\ given' = w.given /\ over' = w.over /\ taken' = w.taken
  /\ done' = w.done /\ script' = w.script /\ faults' = w.faults

Readables == {"src", "out", "left", "right"}
Writables == {"in", "dst"}
Consumers == {"src", "left", "right", "dst"} \* the script's loops, and the sink

\* Results of read(), beside the chunks, and errors
Done == 0
Boom == -1
Aborted == -2
Released == -3
Closed == -4

NewReadable == [queue |-> << >>, waiters |-> << >>, closed |-> FALSE, cancelled |-> FALSE,
                errored |-> Undefined, pulling |-> FALSE, locked |-> FALSE,
                closedPromise |-> 0]
NewWritable == [closed |-> FALSE, errored |-> Undefined, locked |-> FALSE, writing |-> 0]
Over(s) == s.closed \/ s.errored # Undefined

\* A promise that somebody outside settles later.
Owes(w, who, n) ==
  LET m == Made(w)
  IN [w |-> [m.w EXCEPT !.owed = @ \cup {[who |-> who, p |-> m.p, n |-> n]}],
      a |-> Promised(m.p)]
Answered(r) == [w |-> r.w, a |-> Promised(r.p)]
Returns(w) == [w |-> w, a |-> Value(Undefined)]
OfWhom(who) == {o \in owed : o.who = who}

-----------------------------------------------------------------------------
(* ReadableStream *)

\* A chunk goes to the read that has waited longest, or into the queue.
ForWaiter_Newest(q) == Len(q) \* Mutant: to the read that came last
ForWaiter(q) == 1
Enqueue(w, s, c) ==
  LET r == w.rs[s]
      i == ForWaiter(r.waiters)
  IN IF Over(r) THEN w
     ELSE IF r.waiters = << >> THEN [w EXCEPT !.rs[s].queue = Append(@, c)]
     ELSE Settled([w EXCEPT !.rs[s].waiters = RemoveAt(@, i)], r.waiters[i], "fulfilled", c)

\* The end of a stream answers every read that waits.
AnswerWaiters_Not(w, s, state, v) == [w EXCEPT !.rs[s].waiters = << >>] \* Mutant: drops them
AnswerWaiters(w, s, state, v) ==
  InOrder(LAMBDA x, p : Settled(x, p, state, v),
          [w EXCEPT !.rs[s].waiters = << >>], w.rs[s].waiters)
CloseReadable(w, s) ==
  IF Over(w.rs[s]) THEN w
  ELSE AnswerWaiters([w EXCEPT !.rs[s].closed = TRUE], s, "fulfilled", Done)
ErrorReadable(w, s, e) ==
  IF Over(w.rs[s]) THEN w
  ELSE AnswerWaiters([w EXCEPT !.rs[s].errored = e], s, "rejected", e)

\* cancel() drops the queue; the sources here have a cancel() that returns nothing.
Cancel(w, s) ==
  IF w.rs[s].errored # Undefined THEN PromiseReject(w, w.rs[s].errored)
  ELSE IF w.rs[s].closed THEN PromiseResolve(w, Value(Undefined))
  ELSE LET x == AnswerWaiters([w EXCEPT !.rs[s].closed = TRUE, !.rs[s].cancelled = TRUE,
                                       !.rs[s].queue = << >>], s, "fulfilled", Done)
           c == PromiseResolve(x, Value(Undefined))
       IN ThenOf(c, Noop, NoCode)

\* _pullIfNeeded(): one pull() at a time; the source may pull again when it settled.
HasPull(w, s) ==
  \/ s \in {"left", "right"}
  \/ s = "src" /\ w.plan.source \in {"pull", "asyncPull"}
MayPull(w, s) == ~w.rs[s].pulling /\ ~Over(w.rs[s]) /\ HasPull(w, s)
Pulling(w, s) == [w EXCEPT !.rs[s].pulling = TRUE]
\* a is the answer of the pull() that was called then.
PullAnswers(s, a) ==
  IF a.a.how = "throw" THEN ErrorReadable([a.w EXCEPT !.rs[s].pulling = FALSE], s, a.a.v)
  ELSE ThenOf(PromiseResolve(a.w, a.a), Code("pulled", s, 0), Code("pullFailed", s, 0)).w

\* read(); queued chunks come before the end, but not before an error.
EndsRead(r) == r.closed /\ r.queue = << >>
\* pulls: the stream is asked for more before read() returns.
Ends(r) == [w |-> r.w, p |-> r.p, pulls |-> FALSE]
AsksForMore(r) == [w |-> r.w, p |-> r.p, pulls |-> TRUE]
ReadBegins(w, s) ==
  LET r == w.rs[s]
      m == Made(w)
      Told(state, v) == Settled(w, r.closedPromise, state, v)
  IN IF ~r.locked THEN Ends(PromiseReject(w, Released))
     ELSE IF r.errored # Undefined
     THEN Ends(PromiseReject(Told("rejected", r.errored), r.errored))
     ELSE IF EndsRead(r)
     THEN Ends(PromiseResolve(Told("fulfilled", Undefined), Value(Done)))
     ELSE IF r.queue # << >>
     THEN AsksForMore(PromiseResolve([w EXCEPT !.rs[s].queue = Tail(@)], Value(Head(r.queue))))
     ELSE AsksForMore([w |-> [m.w EXCEPT !.rs[s].waiters = Append(@, m.p)], p |-> m.p])

\* getReader() and releaseLock()
GetReader(w, s) ==
  LET m == Made(w)
  IN [Catch(m.w, m.p, Noop).w EXCEPT !.rs[s].locked = TRUE, !.rs[s].closedPromise = m.p]
ReleaseReader(w, s) == [w EXCEPT !.rs[s].locked = FALSE]

-----------------------------------------------------------------------------
(* Where the chunks come from: a source, which ends by failing if the plan *)
(* says so, or a branch of tee(), which reads the stream it shares.        *)

Gives(w) ==
  IF Over(w.rs["src"]) THEN w
  ELSE Enqueue([w EXCEPT !.given = @ + 1], "src", w.given + 1)
ClosesSource(w) ==
  CloseReadable([w EXCEPT !.over = @ \/ ~Over(w.rs["src"])], "src")

\* One chunk, and close() with the last; a source that fails does so on the next pull.
GivesNext(w) ==
  LET x == Gives(w)
  IN IF w.given < Chunks
     THEN Returns(IF x.given = Chunks /\ ~w.plan.fails THEN ClosesSource(x) ELSE x)
     ELSE IF w.plan.fails THEN [w |-> w, a |-> Throws(Boom)] ELSE Returns(ClosesSource(w))
SourcePull(w) == IF w.plan.source = "pull" THEN GivesNext(w) ELSE Owes(w, "source", 0)

\* _pullIfNeeded() of the source, and of a branch of tee(): its pull() reads the source.
PullSource(w) ==
  IF MayPull(w, "src") THEN PullAnswers("src", SourcePull(Pulling(w, "src"))) ELSE w
ReadSource(r) == IF r.pulls THEN [r EXCEPT !.w = PullSource(@)] ELSE r
TeePull(w) == Answered(ThenOf(ReadSource(ReadBegins(w, "src")), Code("teeRead", "", 0), NoCode))
PullIfNeeded(w, s) ==
  IF s = "src" THEN PullSource(w)
  ELSE IF MayPull(w, s) THEN PullAnswers(s, TeePull(Pulling(w, s))) ELSE w

ReadAfter(r, s) == IF r.pulls THEN [r EXCEPT !.w = PullIfNeeded(@, s)] ELSE r
Read(w, s) == ReadAfter(ReadBegins(w, s), s)

\* start() gives everything, or pushes later and returns a promise; pull sources have none.
GivesAll(w) == InOrder(LAMBDA x, i : Gives(x), w, [i \in 1 .. Chunks |-> i])
StartSource(w) ==
  LET a == Owes(w, "start", 0)
  IN CASE w.plan.source = "push" -> Catch(a.w, a.a.v, Code("startFailed", "", 0)).w
       [] w.plan.source = "start" -> IF w.plan.fails THEN ErrorReadable(GivesAll(w), "src", Boom)
                                     ELSE ClosesSource(GivesAll(w))
       [] OTHER -> w

-----------------------------------------------------------------------------
(* WritableStream: the sink's calls hang on one another. *)

Chained_Not(w, s, f) == Then(w, w.ws[s].writing, f, NoCode) \* Mutant: on the first only
Chained(w, s, f) ==
  LET t == Then(w, w.ws[s].writing, f, NoCode)
  IN [t EXCEPT !.w = [@ EXCEPT !.ws[s].writing = t.p]]

Write(w, s, c) ==
  IF ~w.ws[s].locked THEN PromiseReject(w, Released)
  ELSE IF w.ws[s].errored # Undefined THEN PromiseReject(w, w.ws[s].errored)
  ELSE IF w.ws[s].closed THEN PromiseReject(w, Closed)
  ELSE Chained(w, s, Code("sinkWrite", s, c))

CloseWritable(w, s) ==
  IF w.ws[s].closed THEN PromiseResolve(w, Value(Undefined))
  ELSE IF w.ws[s].errored # Undefined THEN PromiseReject(w, w.ws[s].errored)
  ELSE Chained([w EXCEPT !.ws[s].closed = TRUE], s, Code("sinkClose", s, 0))

\* The sink of a transform's writable side fails its readable side.
Abort(w, s) ==
  IF w.ws[s].closed THEN PromiseResolve(w, Value(Undefined))
  ELSE IF w.ws[s].errored # Undefined THEN PromiseReject(w, w.ws[s].errored)
  ELSE LET x == [w EXCEPT !.ws[s].errored = Aborted]
       IN PromiseResolve(IF s = "in" THEN ErrorReadable(x, "out", Aborted) ELSE x,
                         Value(Undefined))

\* write() and close() of the sinks.  transform() enqueues, at once or later.
SinkWrite(w, s, c) ==
  IF s = "in"
  THEN IF w.plan.transform = "now" THEN Returns(Enqueue(w, "out", c))
       ELSE Owes(w, "transform", c)
  ELSE LET x == [w EXCEPT !.taken["dst"] = Append(@, c)]
       IN IF w.plan.sink = "now" THEN Returns(x) ELSE Owes(x, "write", c)
SinkClose(w, s) ==
  IF s = "in"
  THEN IF w.plan.transform = "now" THEN Returns(CloseReadable(w, "out"))
       ELSE LET a == Owes(w, "flush", 0)
            IN Answered(Then(a.w, a.a.v, Code("flushed", "", 0), NoCode))
  ELSE LET x == [w EXCEPT !.done = @ \cup {"dst"}]
       IN IF w.plan.sink = "now" THEN Returns(x) ELSE Owes(x, "close", 0)

-----------------------------------------------------------------------------
(* pipeTo() and the script's reading loop *)

PipesInto(w, s) == IF s = "src" /\ w.plan.shape = "through" THEN "in" ELSE "dst"

PipeStep(w, s, p) == ThenOf(Read(w, s), Code("piped", s, p), Into("reject", p)).w

PipeTo(w, s) ==
  LET m == Made([GetReader(w, s) EXCEPT !.ws[PipesInto(w, s)].locked = TRUE])
  IN [m EXCEPT !.w = PipeStep(@, s, m.p)]

\* The next chunk is read when the last was written; then the writer is closed.
Piped(w, s, p, v) ==
  LET d == PipesInto(w, s)
  IN IF v = Done
     THEN ThenOf(CloseWritable(w, d), Code("pipeEnd", s, p), Into("reject", p)).w
     ELSE ThenOf(Write(w, d, v), Code("step", s, p), Into("reject", p)).w

Loop(w, s) == ThenOf(Read(w, s), Code("got", s, 0), Noop).w

PullOver(w, s) == [w EXCEPT !.rs[s].pulling = FALSE]

\* What the functions given to then() do.
Run(w, f, v) ==
  CASE f.do = "pulled" -> Returns(PullOver(w, f.s))
    [] f.do = "pullFailed" ->
         Returns(ErrorReadable([w EXCEPT !.rs[f.s].pulling = FALSE], f.s, v))
    [] f.do = "startFailed" -> Returns(ErrorReadable(w, "src", v))
    [] f.do = "teeRead" -> Returns(
         IF v = Done THEN CloseReadable(CloseReadable(w, "left"), "right")
         ELSE Enqueue(Enqueue(w, "left", v), "right", v))
    [] f.do = "sinkWrite" -> SinkWrite(w, f.s, f.n)
    [] f.do = "sinkClose" -> SinkClose(w, f.s)
    [] f.do = "flushed" -> Returns(CloseReadable(w, "out"))
    [] f.do = "piped" -> Returns(Piped(w, f.s, f.n, v))
    [] f.do = "step" -> Returns(PipeStep(w, f.s, f.n))
    [] f.do = "pipeEnd" -> Returns(Settled(
         [ReleaseReader(w, f.s) EXCEPT !.ws[PipesInto(w, f.s)].locked = FALSE],
         f.n, "fulfilled", Undefined))
    [] f.do = "got" -> Returns(
         IF v = Done THEN [w EXCEPT !.done = @ \cup {f.s}]
         ELSE Loop([w EXCEPT !.taken[f.s] = Append(@, v)], f.s))

-----------------------------------------------------------------------------
(* The world outside, and the script *)

NewSink(w) ==
  LET a == Owes(w, "sinkStart", 0)
      r == PromiseResolve(IF w.plan.sink = "later" THEN a.w ELSE w,
                          IF w.plan.sink = "later" THEN a.a ELSE Value(Undefined))
  IN [r.w EXCEPT !.ws["dst"].writing = r.p]
NewTransform(w) ==
  LET r == PromiseResolve(w, Value(Undefined)) IN [r.w EXCEPT !.ws["in"].writing = r.p]

\* pipeThrough() drops the promise of its pipeTo(), and its error.
Dropped(f) == [Catch(f.w, f.p, Noop).w EXCEPT !.script.first = f.p]
PipeThrough(w) == Dropped(PipeTo(NewTransform(w), "src"))
Kept(t) == [t.w EXCEPT !.script.pipe = t.p]
Pipes(w, s) == Kept(PipeTo(NewSink(w), s))
\* What the script locks, and its loops: read() may be called before an earlier one is answered.
Reads(w) ==
  IF w.plan.shape = "tee"
  THEN Loop(Loop(GetReader(GetReader(GetReader(w, "src"), "left"), "right"), "left"), "right")
  ELSE IF w.plan.twice THEN Loop(Loop(GetReader(w, "src"), "src"), "src")
       ELSE Loop(GetReader(w, "src"), "src")

Built(w) ==
  CASE w.plan.shape \in {"read", "tee"} -> Reads(w)
    [] w.plan.shape = "pipe" -> Pipes(w, "src")
    [] w.plan.shape = "through" -> Pipes(PipeThrough(w), "out")
    [] w.plan.shape = "write" -> [NewSink(w) EXCEPT !.ws["dst"].locked = TRUE]
Building(w) == Built(IF w.plan.shape = "write" THEN w ELSE StartSource(w))

NoPlan == [shape |-> "none"]

Init ==
  /\ heap = << >> /\ micro = << >> /\ owed = {} /\ plan = NoPlan
  /\ rs = [s \in Readables |-> NewReadable] /\ ws = [s \in Writables |-> NewWritable]
  /\ given = 0 /\ over = FALSE /\ done = {} /\ taken = [c \in Consumers |-> << >>]
  /\ script = [first |-> 0, pipe |-> 0, writes |-> << >>, join |-> 0, stopped |-> FALSE]
  /\ faults = 0

Build == plan = NoPlan /\ \E p \in Plans : Becomes(Building([World EXCEPT !.plan = p]))

Drained(w) ==
  LET t == Head(w.micro)
      x == [w EXCEPT !.micro = Tail(@)]
      f == HandlerOf(t)
  IN IF t.do = "check" THEN Looked(x, t.r.to)
     ELSE Handled(t, IF f = NoCode THEN PassedOn(x, t)
                     ELSE IF f.do \in Own THEN CallsOwn(x, f, t.v) ELSE Run(x, f, t.v))

Microtask == micro # << >> /\ Becomes(Drained(World))

Outside == micro = << >> /\ plan # NoPlan

\* A source that pushes has one promise, the one start() returned.
SourcePushes ==
  /\ Outside
  /\ \E o \in OfWhom("start") :
       LET n == GivesNext(World)
       IN Becomes(IF n.a.how = "throw" \/ Over(n.w.rs["src"])
                  THEN Resolved([n.w EXCEPT !.owed = @ \ {o}], o.p, n.a) ELSE n.w)

SourceAnswers ==
  /\ Outside
  /\ \E o \in OfWhom("source") :
       LET n == GivesNext(World) IN Becomes(Resolved([n.w EXCEPT !.owed = @ \ {o}], o.p, n.a))

SinkAnswers ==
  /\ Outside
  /\ \E o \in OfWhom("write") \cup OfWhom("close") \cup OfWhom("sinkStart") :
       Becomes(Resolved([World EXCEPT !.owed = @ \ {o}], o.p, Value(Undefined)))

TransformAnswers ==
  /\ Outside
  /\ \E o \in OfWhom("transform") \cup OfWhom("flush") :
       LET x == IF o.who = "transform" THEN Enqueue(World, "out", o.n) ELSE World
       IN Becomes(Resolved([x EXCEPT !.owed = @ \ {o}], o.p, Value(Undefined)))

\* A promise of the sink or of the transformer is rejected.
Fails ==
  /\ Outside /\ faults < Faults
  /\ \E o \in owed :
       /\ o.who \notin {"source", "start"}
       /\ Becomes(Resolved([World EXCEPT !.owed = @ \ {o}, !.faults = @ + 1], o.p, Throws(Boom)))

\* controller.error() of the sink
SinkErrors ==
  /\ Outside /\ faults < Faults /\ plan.shape \in {"pipe", "through", "write"}
  /\ Becomes([World EXCEPT !.ws["dst"].errored = Boom, !.faults = @ + 1])

UserCancels ==
  /\ Outside /\ plan.shape = "read" /\ ~script.stopped
  /\ Becomes(Cancel([World EXCEPT !.script.stopped = TRUE], "src").w)

UserAborts ==
  /\ Outside /\ ~script.stopped
  /\ \E s \in Writables :
       /\ ws[s].writing # 0
       /\ Becomes(Abort([World EXCEPT !.script.stopped = TRUE], s).w)

\* The script cancels or aborts once.  It writes without waiting, joins its writes, and closes.
UserWrites ==
  /\ Outside /\ plan.shape = "write" /\ Len(script.writes) < Chunks
  /\ LET c == Write(World, "dst", given + 1)
         accepted == ~Over(ws["dst"])
     IN Becomes([c.w EXCEPT !.script.writes = Append(@, c.p),
                            !.given = IF accepted THEN @ + 1 ELSE @])

UserJoins ==
  /\ Outside /\ plan.shape = "write" /\ script.join = 0 /\ Len(script.writes) = Chunks
  /\ LET j == CASE plan.join = "all" -> PromiseAll(World, script.writes)
                [] plan.join = "race" -> PromiseRace(World, script.writes)
                [] plan.join = "any" -> PromiseAny(World, script.writes)
                [] OTHER -> PromiseAllSettled(World, script.writes)
     IN Becomes([j.w EXCEPT !.script.join = j.p])

UserCloses ==
  /\ Outside /\ plan.shape = "write" /\ ~Over(ws["dst"])
  /\ Becomes([CloseWritable(World, "dst").w EXCEPT !.over = TRUE])

Next ==
  \/ Build \/ Microtask
  \/ SourcePushes \/ SourceAnswers \/ SinkAnswers \/ TransformAnswers
  \/ Fails \/ SinkErrors
  \/ UserCancels \/ UserAborts \/ UserWrites \/ UserJoins \/ UserCloses

\* The loop drains the microtasks; source, sink and transformer answer in the end.
\* (WF of these actions, said without ENABLED: nothing else empties micro and owed.)
Fairness == []<>(micro = << >>) /\ []<>(owed = {})
Spec == Init /\ [][Next]_vars /\ Fairness

-----------------------------------------------------------------------------
(* Properties *)

\* Whoever reads, the sink behind any pipeline included, is given the chunks once and
\* in order, and told of the end after the last; a cancelled stream is cut short
\* (globals.cpp:3895-3911, 4003-4017, 3952-3992, 4089-4102).
ConsumersInOrder ==
  \A c \in Consumers :
    /\ taken[c] = [i \in 1 .. Len(taken[c]) |-> i] /\ Len(taken[c]) <= given
    /\ c \in done => rs["src"].cancelled \/ (over /\ Len(taken[c]) = given)

\* The sink is not called while its start() or an earlier write() is under way (globals.cpp
\* 4046-4051, 4074, 4096; "writes are serialized through a per-stream promise chain", 3864).
SinkOneAtATime ==
  Cardinality(OfWhom("write") \cup OfWhom("close") \cup OfWhom("sinkStart")) <= 1

\* Once the microtasks are drained, a rejected promise was listened to, or
\* 'unhandledRejection' was emitted for it (globals.cpp:5193-5209).
RejectionsAreSeen ==
  (micro = << >>) =>
    \A p \in DOMAIN heap :
      heap[p].state = "rejected" => (heap[p].heard \/ heap[p].flagged)

\* pipeTo() settles, with the sink's error or the source's; behind a transform it does
\* unless the error stays in the pipe before it (globals.cpp:3952-3970).
PipesSettle ==
  LET Settles(p) == p # 0 /\ heap[p].state # "pending"
      FailsBefore(p) == p # 0 /\ heap[p].state = "rejected"
  IN (script.pipe # 0) ~> (Settles(script.pipe) \/ FailsBefore(script.first))
=============================================================================
