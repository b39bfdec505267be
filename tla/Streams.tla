------------------------------- MODULE Streams -------------------------------
(***************************************************************************)
(* The stream classes of globals.cpp: a Readable "src", a Transform "mid"  *)
(* and a Writable "dst", joined by pipe() when the script asks for it.     *)
(*                                                                         *)
(* 'data' and 'end' are emitted in the middle of push(), read() and        *)
(* resume(), and a listener calls the streams again, so the call stack is  *)
(* a variable: frames, innermost first, each the rest of a library         *)
(* function or code of the script.  The chunks are numbered in the order   *)
(* in which the source hands them over.                                    *)
(*                                                                         *)
(* Listeners do not throw; the only error is a write after end(), which is *)
(* dropped and reported to a listener.  Streams have no _flush or _final.  *)
(***************************************************************************)
EXTENDS Integers, Sequences, FiniteSets, SequencesExt

CONSTANTS
  Chunks,        \* bound: chunks the source has
  MaxOps,        \* bound: calls of the script
  HighWaterMark, \* in chunks (objectMode)
  EmptyPushes    \* when the source may answer _read() with push('')

ASSUME StreamsAssumption ==
  /\ Chunks \in Nat /\ MaxOps \in Nat /\ HighWaterMark \in Nat \ {0}
  /\ EmptyPushes \subseteq {"paused", "flowing"}

VARIABLES
  stack,     \* what runs now, and whom it returns to
  ticks,     \* process.nextTick callbacks, in order
  later,     \* setImmediate callbacks and answers of sources that are under way
  rd,        \* _readableState of src and mid
  wr,        \* _writableState of mid and dst
  piped,     \* the readable streams with a pipe to the next one
  heard,     \* the script's listeners on each readable stream
  destroyed, \* streams with _destroyed
  source,    \* chunks handed over, and whether its last push was empty, and the end decided
  ops,       \* calls the script has made
  in,        \* history: the chunks pushed into each readable stream
  out,       \* history: the chunks that left it, by 'data' or read()
  ends,      \* history: 'end' events of each readable stream
  written,   \* history: the chunks _write of dst was given
  intact,    \* history: every chunk that left a stream went down its pipe
  late       \* history: end() came while an asynchronous _transform() was pending

states == <<rd, wr, piped, heard, destroyed, source>>
history == <<in, out, ends, written, intact, late>>
vars == <<stack, ticks, later, states, ops, history>>

Readables == {"src", "mid"}
Writables == {"mid", "dst"}
Dest(s) == IF s = "src" THEN "mid" ELSE "dst"

Null == 0   \* push(null)
Empty == -1 \* push('')

Frame(f, s) == [f |-> f, s |-> s, c |-> Null]
Chunk(f, s, c) == [f |-> f, s |-> s, c |-> c]
User == Frame("user", "src")

StreamsInit ==
  /\ stack = <<User>> /\ ticks = << >> /\ later = {}
  /\ rd = [s \in Readables |->
             [buffer |-> << >>, ended |-> FALSE, endEmitted |-> FALSE, flowing |-> "null",
              reading |-> FALSE, flowingNow |-> FALSE, readingMore |-> FALSE,
              readableScheduled |-> FALSE, endPending |-> FALSE]]
  /\ wr = [s \in Writables |-> [ended |-> FALSE, finished |-> FALSE]]
  /\ piped = {} /\ heard = [s \in Readables |-> {}] /\ destroyed = {}
  /\ source = [given |-> 0, silent |-> FALSE, over |-> FALSE]
  /\ ops = 0
  /\ in = [s \in Readables |-> << >>] /\ out = [s \in Readables |-> << >>]
  /\ ends = [s \in Readables |-> 0]
  /\ written = << >> /\ intact = TRUE /\ late = FALSE

-----------------------------------------------------------------------------
(* Parts of the library's functions *)

Running(f) == stack # << >> /\ Head(stack).f = f
Me == Head(stack).s
Then(frames) == stack' = frames \o Tail(stack)

Set(s, r) == rd' = [rd EXCEPT ![s] = r]
Flows(r) == r.flowing = "yes"
HasEndListener(s) == s \in piped \/ "end" \in heard[s]

\* _emitFlow(): its loop is not entered twice.
FlowFrames(s, r) == IF r.flowingNow THEN << >> ELSE <<Frame("loop", s)>>
InFlow(r) == [r EXCEPT !.flowingNow = TRUE]

\* Whether there is room to ask for, and an 'end' to emit.
MayAsk(r) == ~r.reading /\ ~r.ended /\ Len(r.buffer) < HighWaterMark
Over_Undrained(r) == r.ended /\ ~r.endEmitted \* Mutant: with chunks in the buffer
Over(r) == r.ended /\ r.buffer = << >> /\ ~r.endEmitted

\* push() acknowledges the _read().
Acknowledged(r) == [r EXCEPT !.reading = FALSE]

\* _maybeReadMore() and _scheduleReadable() put one callback each into the ticks.
ReadsMore(s, r) == IF r.readingMore THEN << >> ELSE <<Frame("more", s)>>
SchedulesReadable(s, r) ==
  IF r.readableScheduled \/ "readable" \notin heard[s] THEN << >> ELSE <<Frame("readable", s)>>

-----------------------------------------------------------------------------
(* push() *)

\* push(null) in flowing mode
EndFrames_AtOnce(s, r) == <<Frame("end", s)>> \* Mutant: 'end' whatever the buffer holds
EndFrames(s, r) == FlowFrames(s, r)

PushEnd ==
  /\ Running("push") /\ Head(stack).c = Null
  /\ LET s == Me
         r == Acknowledged([rd[s] EXCEPT !.ended = TRUE])
     IN IF Flows(r)
        THEN /\ Set(s, InFlow(r)) /\ Then(EndFrames(s, r)) /\ UNCHANGED ticks
        ELSE LET t == SchedulesReadable(s, r)
             IN /\ Set(s, [r EXCEPT !.readableScheduled = @ \/ t # << >>])
                /\ ticks' = ticks \o t /\ Then(<< >>)
  /\ UNCHANGED <<later, wr, piped, heard, destroyed, source, ops, history>>

\* push('') acknowledges the _read() and buffers nothing.
PushEmpty ==
  /\ Running("push") /\ Head(stack).c = Empty
  /\ LET s == Me
         r == Acknowledged(rd[s])
         t == IF Flows(r) THEN << >> ELSE ReadsMore(s, r)
     IN /\ Set(s, [r EXCEPT !.readingMore = @ \/ t # << >>])
        /\ ticks' = ticks \o t
  /\ Then(<< >>)
  /\ UNCHANGED <<later, wr, piped, heard, destroyed, source, ops, history>>

\* push(chunk); _maybeReadMore() follows _emitFlow().
PushChunk ==
  /\ Running("push") /\ Head(stack).c > 0
  /\ LET s == Me
         r == Acknowledged([rd[s] EXCEPT !.buffer = Append(@, Head(stack).c)])
         t == SchedulesReadable(s, r)
     IN /\ IF Flows(r)
           THEN /\ Set(s, InFlow(r)) /\ UNCHANGED ticks
                /\ Then(FlowFrames(s, r) \o <<Frame("refill", s)>>)
           ELSE /\ Set(s, [r EXCEPT !.readableScheduled = @ \/ t # << >>])
                /\ ticks' = ticks \o t
                /\ Then(<<Frame("refill", s)>>)
        /\ in' = [in EXCEPT ![s] = Append(@, Head(stack).c)]
  /\ UNCHANGED <<later, wr, piped, heard, destroyed, source, ops, out, ends, written, intact, late>>

Refill ==
  /\ Running("refill")
  /\ ticks' = ticks \o ReadsMore(Me, rd[Me])
  /\ Set(Me, [rd[Me] EXCEPT !.readingMore = TRUE])
  /\ Then(<< >>)
  /\ UNCHANGED <<later, wr, piped, heard, destroyed, source, ops, history>>

-----------------------------------------------------------------------------
(* _emitFlow(): deliver, and ask for more when nothing is left *)

Loop ==
  /\ Running("loop")
  /\ LET s == Me
         r == rd[s]
     IN IF ~Flows(r) \/ (r.buffer = << >> /\ (r.ended \/ r.reading))
        THEN Then(<<Frame("leave", s)>>) /\ UNCHANGED rd
        ELSE IF r.buffer = << >>
        THEN /\ Set(s, [r EXCEPT !.reading = TRUE])
             /\ Then(<<Frame("pull", s), Frame("take", s)>>)
        ELSE Then(<<Frame("take", s)>>) /\ UNCHANGED rd
  /\ UNCHANGED <<ticks, later, wr, piped, heard, destroyed, source, ops, history>>

\* The listeners of 'data' in the order they were added, which may be either.
Listeners(s, c) ==
  LET toPipe == IF s \in piped THEN <<Chunk("write", Dest(s), c)>> ELSE << >>
      toUser == IF "data" \in heard[s] THEN <<User>> ELSE << >>
  IN {toPipe \o toUser, toUser \o toPipe}

Take ==
  /\ Running("take")
  /\ LET s == Me
         r == rd[s]
     IN IF r.buffer = << >>
        THEN /\ Then(<<Frame("leave", s)>>) /\ UNCHANGED <<rd, out, intact>>
        ELSE /\ Set(s, [r EXCEPT !.buffer = Tail(@)])
             /\ \E called \in Listeners(s, Head(r.buffer)) :
                  Then(called \o <<Frame("loop", s)>>)
             /\ out' = [out EXCEPT ![s] = Append(@, Head(r.buffer))]
             /\ intact' = (intact /\ s \in piped)
  /\ UNCHANGED <<ticks, later, wr, piped, heard, destroyed, source, ops, in, ends, written, late>>

\* After the loop: 'end', at once if somebody listens for it.
Leave ==
  /\ Running("leave")
  /\ LET s == Me
         r == [rd[s] EXCEPT !.flowingNow = FALSE]
         over == Over(r)
     IN /\ Set(s, IF ~over THEN r
                  ELSE IF HasEndListener(s) THEN [r EXCEPT !.endEmitted = TRUE]
                  ELSE [r EXCEPT !.endPending = TRUE])
        /\ Then(IF over /\ HasEndListener(s) THEN <<Frame("end", s)>> ELSE << >>)
  /\ UNCHANGED <<ticks, later, wr, piped, heard, destroyed, source, ops, history>>

\* emit('end'): onend of the pipe ends the destination, then takes the pipe down.
EmitEnd ==
  /\ Running("end")
  /\ ends' = [ends EXCEPT ![Me] = @ + 1]
  /\ LET toPipe == IF Me \in piped
                   THEN <<Frame("close", Dest(Me)), Frame("unpipe", Me)>> ELSE << >>
         toUser == IF "end" \in heard[Me] THEN <<User>> ELSE << >>
     IN Then(toPipe \o toUser) \/ Then(toUser \o toPipe)
  /\ UNCHANGED <<ticks, later, states, ops, in, out, written, intact, late>>

Unpiped ==
  /\ Running("unpipe")
  /\ piped' = piped \ {Me}
  /\ Then(<< >>)
  /\ UNCHANGED <<ticks, later, rd, wr, heard, destroyed, source, ops, history>>

-----------------------------------------------------------------------------
(* write(), end() and _read() *)

\* _Writable.write() and _write() of the transform, which answers now or later.
\* After end() the chunk is dropped with an error.
WriteMid ==
  /\ Running("write") /\ Me = "mid"
  /\ IF wr["mid"].ended THEN Then(<< >>) /\ UNCHANGED later
     ELSE \/ Then(<<Chunk("push", "mid", Head(stack).c)>>) /\ UNCHANGED later
          \/ Then(<< >>) /\ later' = later \cup {Chunk("push", "mid", Head(stack).c)}
  /\ UNCHANGED <<ticks, states, ops, history>>

WriteDst ==
  /\ Running("write") /\ Me = "dst"
  /\ Then(<< >>)
  /\ written' = IF wr["dst"].ended THEN written ELSE Append(written, Head(stack).c)
  /\ UNCHANGED <<ticks, later, states, ops, in, out, ends, intact, late>>

Ends(s) == wr' = [wr EXCEPT ![s].ended = TRUE]

\* Transform.end() marks the writable side ended, then ends the readable side.
CloseMid ==
  /\ Running("close") /\ Me = "mid"
  /\ IF wr["mid"].finished THEN Then(<< >>) /\ UNCHANGED <<wr, late>>
     ELSE /\ Ends("mid")
          /\ Then(<<Frame("push", "mid"), Frame("finish", "mid")>>)
          /\ late' = (late \/ \E t \in later : t.f = "push")
  /\ UNCHANGED <<ticks, later, rd, piped, heard, destroyed, source, ops,
                 in, out, ends, written, intact>>

CloseDst ==
  /\ Running("close") /\ Me = "dst"
  /\ Ends("dst")
  /\ Then(IF wr["dst"].ended THEN << >> ELSE <<Frame("finish", "dst")>>)
  /\ UNCHANGED <<ticks, later, rd, piped, heard, destroyed, source, ops, history>>

Finish ==
  /\ Running("finish")
  /\ wr' = [wr EXCEPT ![Me].finished = TRUE]
  /\ Then(<< >>)
  /\ UNCHANGED <<ticks, later, rd, piped, heard, destroyed, source, ops, history>>

\* What a source may answer to one _read().  Once it has decided on the end, which it
\* may push in the same answer as a chunk, it answers nothing.
Answers == IF source.over THEN {<< >>} ELSE
  {<<Frame("push", "src")>>} \cup
  (IF source.given = Chunks THEN {}
   ELSE LET next == Chunk("push", "src", source.given + 1)
        IN {<<next>>, <<next, Frame("push", "src")>>}) \cup
  (IF ~source.silent
         /\ (IF Flows(rd["src"]) THEN "flowing" ELSE "paused") \in EmptyPushes
   THEN {<<Chunk("push", "src", Empty)>>} ELSE {})

Answered(frames) ==
  IF frames = << >> THEN UNCHANGED source
  ELSE LET c == Head(frames).c
       IN source' = [given |-> IF c > 0 THEN c ELSE source.given, silent |-> c = Empty,
                     over |-> Last(frames).c = Null]

\* _read() of the source: it pushes now, or from a later callback.
PullSrc ==
  /\ Running("pull") /\ Me = "src"
  /\ \/ \E frames \in Answers :
          Answered(frames) /\ Then(frames) /\ UNCHANGED later
     \/ ~source.over /\ later' = later \cup {Frame("pull", "src")} /\ Then(<< >>) /\ UNCHANGED source
  /\ UNCHANGED <<ticks, rd, wr, piped, heard, destroyed, ops, history>>

\* A transform has no _read() of its own.
PullMid ==
  /\ Running("pull") /\ Me = "mid"
  /\ Then(<< >>)
  /\ UNCHANGED <<ticks, later, states, ops, history>>

-----------------------------------------------------------------------------
(* Callbacks *)

Idle == stack = << >> /\ ticks = << >>

\* The next process.nextTick callback.  "first" is the _read() that on('readable')
\* asks for.
Tick ==
  /\ stack = << >> /\ ticks # << >>
  /\ ticks' = Tail(ticks)
  /\ LET t == Head(ticks)
         r == rd[t.s]
     IN \/ /\ t.f = "more"
           /\ Set(t.s, [r EXCEPT !.readingMore = FALSE]) /\ stack' = <<Frame("fill", t.s)>>
        \/ /\ t.f = "readable"
           /\ Set(t.s, [r EXCEPT !.readableScheduled = FALSE])
           /\ stack' = IF ~Flows(r) /\ (r.buffer # << >> \/ r.ended) THEN <<User>> ELSE << >>
        \/ t.f = "end" /\ stack' = <<t>> /\ UNCHANGED rd
        \/ /\ t.f = "first"
           /\ IF r.reading \/ r.ended \/ r.buffer # << >> THEN UNCHANGED <<rd, stack>>
              ELSE Set(t.s, [r EXCEPT !.reading = TRUE]) /\ stack' = <<Frame("pull", t.s)>>
  /\ UNCHANGED <<later, wr, piped, heard, destroyed, source, ops, history>>

\* The loop of _maybeReadMore().
Fill ==
  /\ \/ Running("fill")
     \/ Running("filled") /\ Len(rd[Me].buffer) # Head(stack).c
  /\ LET s == Me
         r == rd[s]
     IN IF MayAsk(r)
        THEN /\ Set(s, [r EXCEPT !.reading = TRUE])
             /\ Then(<<Frame("pull", s), Chunk("filled", s, Len(r.buffer))>>)
        ELSE IF Flows(r) THEN Set(s, InFlow(r)) /\ Then(FlowFrames(s, r))
        ELSE Then(<< >>) /\ UNCHANGED rd
  /\ UNCHANGED <<ticks, later, wr, piped, heard, destroyed, source, ops, history>>

FillEnds ==
  /\ Running("filled") /\ Len(rd[Me].buffer) = Head(stack).c
  /\ IF Flows(rd[Me]) THEN Set(Me, InFlow(rd[Me])) /\ Then(FlowFrames(Me, rd[Me]))
     ELSE Then(<< >>) /\ UNCHANGED rd
  /\ UNCHANGED <<ticks, later, wr, piped, heard, destroyed, source, ops, history>>

\* A deferred answer of the source or of _transform(), or a deferred 'end'.
Later ==
  /\ Idle
  /\ \E t \in later :
       /\ later' = later \ {t}
       /\ IF t.f = "pull"
          THEN \E frames \in Answers : Answered(frames) /\ stack' = frames
          ELSE stack' = <<t>> /\ UNCHANGED source
  /\ UNCHANGED <<ticks, rd, wr, piped, heard, destroyed, ops, history>>

Return ==
  /\ Running("user")
  /\ Then(<< >>)
  /\ UNCHANGED <<ticks, later, states, ops, history>>

-----------------------------------------------------------------------------
(* Calls of the script *)

\* The script calls from a listener, or from a callback of its own.
Calls == (Running("user") \/ Idle) /\ ops < MaxOps /\ ops' = ops + 1
ThenScript(frames) == stack' = frames \o (IF stack = << >> THEN <<User>> ELSE stack)

\* What resume() does to the stream, and what it runs before it returns.
Resumed(r) == IF Flows(r) THEN r ELSE InFlow([r EXCEPT !.flowing = "yes"])
ResumeFrames(s, r) == IF Flows(r) THEN << >> ELSE FlowFrames(s, r)

\* on('end') delivers an end that found no listener.
Hooked(r) == IF r.endPending /\ ~r.endEmitted
             THEN [r EXCEPT !.endPending = FALSE, !.endEmitted = TRUE] ELSE r
HookLater_None(s, r) == {} \* Mutant: marked as emitted, never emitted
HookLater(s, r) == IF r.endPending /\ ~r.endEmitted THEN {Frame("end", s)} ELSE {}

OnData(s) ==
  /\ Calls /\ "data" \notin heard[s]
  /\ heard' = [heard EXCEPT ![s] = @ \cup {"data"}]
  /\ IF rd[s].flowing = "null"
     THEN Set(s, Resumed(rd[s])) /\ ThenScript(ResumeFrames(s, rd[s]))
     ELSE UNCHANGED rd /\ ThenScript(<< >>)
  /\ UNCHANGED <<ticks, later, wr, piped, destroyed, source, history>>

OnEnd(s) ==
  /\ Calls /\ "end" \notin heard[s]
  /\ heard' = [heard EXCEPT ![s] = @ \cup {"end"}]
  /\ Set(s, Hooked(rd[s]))
  /\ later' = later \cup HookLater(s, rd[s])
  /\ ThenScript(<< >>)
  /\ UNCHANGED <<ticks, wr, piped, destroyed, source, history>>

OnReadable(s) ==
  /\ Calls /\ "readable" \notin heard[s]
  /\ heard' = [heard EXCEPT ![s] = @ \cup {"readable"}]
  /\ LET r == rd[s]
     IN IF r.endEmitted THEN UNCHANGED <<rd, ticks>>
        ELSE IF r.buffer # << >> \/ r.ended
        THEN /\ Set(s, [r EXCEPT !.readableScheduled = TRUE])
             /\ ticks' = IF r.readableScheduled THEN ticks ELSE Append(ticks, Frame("readable", s))
        ELSE /\ ticks' = IF r.reading THEN ticks ELSE Append(ticks, Frame("first", s))
             /\ UNCHANGED rd
  /\ ThenScript(<< >>)
  /\ UNCHANGED <<later, wr, piped, destroyed, source, history>>

Resume(s) ==
  /\ Calls /\ ~Flows(rd[s])
  /\ Set(s, Resumed(rd[s])) /\ ThenScript(ResumeFrames(s, rd[s]))
  /\ UNCHANGED <<ticks, later, wr, piped, heard, destroyed, source, history>>

Pause(s) ==
  /\ Calls
  /\ Set(s, [rd[s] EXCEPT !.flowing = "no"])
  /\ ThenScript(<< >>)
  /\ UNCHANGED <<ticks, later, wr, piped, heard, destroyed, source, history>>

\* read() asks for more when there is room, then takes one chunk.
Read(s) ==
  /\ Calls
  /\ LET r == rd[s]
         asks == MayAsk(r)
     IN /\ Set(s, [r EXCEPT !.reading = @ \/ asks])
        /\ ThenScript((IF asks THEN <<Frame("pull", s)>> ELSE << >>) \o <<Frame("readRest", s)>>)
  /\ UNCHANGED <<ticks, later, wr, piped, heard, destroyed, source, history>>

ReadRest ==
  /\ Running("readRest")
  /\ LET s == Me
         r == rd[s]
         left == [r EXCEPT !.buffer = IF @ = << >> THEN @ ELSE Tail(@)]
         over == Over(left)
     IN /\ Set(s, [left EXCEPT !.endEmitted = @ \/ (over /\ HasEndListener(s)),
                               !.endPending = @ \/ (over /\ ~HasEndListener(s))])
        /\ ticks' = IF over /\ HasEndListener(s) THEN Append(ticks, Frame("end", s)) ELSE ticks
        /\ out' = [out EXCEPT ![s] = IF r.buffer = << >> THEN @ ELSE Append(@, Head(r.buffer))]
        /\ intact' = (intact /\ r.buffer = << >>)
        /\ Then(<< >>)
  /\ UNCHANGED <<later, wr, piped, heard, destroyed, source, ops, in, ends, written, late>>

\* pipe() attaches 'end' before 'data', then resumes.
Pipe(s) ==
  /\ Calls /\ s \notin piped
  /\ piped' = piped \cup {s}
  /\ later' = later \cup HookLater(s, rd[s])
  /\ Set(s, Resumed(Hooked(rd[s]))) /\ ThenScript(ResumeFrames(s, rd[s]))
  /\ UNCHANGED <<ticks, wr, heard, destroyed, source, history>>

Unpipe(s) ==
  /\ Calls /\ s \in piped
  /\ piped' = piped \ {s}
  /\ ThenScript(<< >>)
  /\ UNCHANGED <<ticks, later, rd, wr, heard, destroyed, source, history>>

\* destroy() of a stream destroys what it is piped to, by 'close', and takes the pipes
\* at it down.  It stops neither the source nor the flow.
Destroy(s) ==
  /\ Calls /\ s \notin destroyed
  /\ LET down == {s} \cup (IF s \in piped THEN {Dest(s)} ELSE {})
                     \cup (IF s = "src" /\ piped = Readables THEN {"dst"} ELSE {})
         closed == down \ destroyed
     IN /\ destroyed' = destroyed \cup down
        /\ piped' = {p \in piped : p \notin closed /\ Dest(p) \notin closed}
  /\ ThenScript(<< >>)
  /\ UNCHANGED <<ticks, later, rd, wr, heard, source, history>>

-----------------------------------------------------------------------------
Script ==
  \E s \in Readables :
       \/ OnData(s) \/ OnEnd(s) \/ OnReadable(s) \/ Resume(s) \/ Pause(s)
       \/ Read(s) \/ Pipe(s) \/ Unpipe(s) \/ Destroy(s)

Library ==
  \/ PushEnd \/ PushEmpty \/ PushChunk \/ Refill
  \/ Loop \/ Take \/ Leave \/ EmitEnd \/ Unpiped
  \/ WriteMid \/ WriteDst \/ CloseMid \/ CloseDst \/ Finish
  \/ PullSrc \/ PullMid \/ Tick \/ Fill \/ FillEnds \/ Later \/ ReadRest \/ Return

\* The library's code runs to its end, timers and immediates run, and a source that
\* was asked answers.  The script owes nothing.
StreamsSpec == StreamsInit /\ [][Script \/ Library]_vars /\ WF_vars(Library)

-----------------------------------------------------------------------------
(* Properties *)

\* The source is a channel to whoever reads it, by 'data', by read() or by a pipe:
\* whatever calls the listeners make from inside an event, chunks keep their order,
\* none is lost or doubled, and 'end' comes once, after them.
Source == INSTANCE Channel WITH put <- in["src"], got <- out["src"],
                                closed <- rd["src"].ended, ended <- ends["src"] > 0
SourceIsChannel == Source!ChannelSpec

\* When the writable at the end of two pipes finishes, it has got every chunk of the
\* source, in the order in which the transform answered: no chunk overtakes end().
FinishIsComplete ==
  wr["dst"].finished /\ intact /\ ~late =>
    written = in["mid"] /\ Range(written) = Range(in["src"]) /\ rd["src"].ended

\* The end of the source reaches the writable through both pipes, if nobody pauses a
\* stream, takes a pipe down or took the 'end' before the pipe was there.
Joined ==
  /\ "src" \in piped \/ wr["mid"].ended
  /\ "mid" \in piped
  /\ ends["src"] = 0 \/ wr["mid"].ended
  /\ ends["mid"] = 0
  /\ \A s \in Readables : rd[s].flowing = "yes"
PipelineFinishes == Joined ~> wr["dst"].finished \/ ~Joined

-----------------------------------------------------------------------------
(* What makes SourceIsChannel inductive. *)
Frames ==
  [f : {"user", "push", "refill", "loop", "take", "leave", "end", "unpipe", "pull", "fill",
        "filled", "first", "more", "readable", "readRest"}, s : Readables, c : Int]
  \cup [f : {"write", "close", "finish"}, s : Writables, c : Int]
ReadState ==
  [buffer : Seq(Int), flowing : {"null", "yes", "no"}, ended : BOOLEAN, endEmitted : BOOLEAN,
   endPending : BOOLEAN, reading : BOOLEAN, flowingNow : BOOLEAN, readingMore : BOOLEAN,
   readableScheduled : BOOLEAN]
StreamsTypes ==
  /\ stack \in Seq(Frames) /\ ticks \in Seq(Frames) /\ later \subseteq Frames
  /\ rd \in [Readables -> ReadState]
  /\ source \in [given : Nat, silent : BOOLEAN, over : BOOLEAN]
  /\ in \in [Readables -> Seq(Int)] /\ out \in [Readables -> Seq(Int)] /\ ends \in [Readables -> Nat]

Gives(t) == t.f = "push" /\ t.s = "src"
Tells(t) == t.f = "end" /\ t.s = "src"

\* A chunk of the source is pushed before anything else runs; null, at most once,
\* after nothing that pushes.
GivesInv ==
  /\ \A i \in DOMAIN stack : Gives(stack[i]) =>
       /\ ~rd["src"].ended
       /\ IF stack[i].c = Null THEN source.over ELSE i = 1
  /\ \A i, j \in DOMAIN stack :
       Gives(stack[i]) /\ stack[i].c = Null /\ Gives(stack[j]) /\ stack[j].c = Null => i = j
  /\ rd["src"].ended => source.over
  /\ \A t \in later \cup Range(ticks) : ~Gives(t)

\* Who knows of the end knows it when everything was read.
Spent == rd["src"].ended /\ rd["src"].buffer = << >>
TellsInv ==
  /\ \A t \in Range(stack) \cup Range(ticks) \cup later : Tells(t) => Spent
  /\ ends["src"] > 0 \/ rd["src"].endEmitted \/ rd["src"].endPending => Spent

SourceInv ==
  /\ StreamsTypes /\ GivesInv /\ TellsInv
  /\ in["src"] = out["src"] \o rd["src"].buffer

-----------------------------------------------------------------------------
(* What makes FinishIsComplete inductive. *)
Flowing(s, t) == t.f \in {"loop", "take", "leave"} /\ t.s = s
Writing(s, t) == t.f = "write" /\ t.s = Dest(s)
Ending(s, t) == t.f = "end" /\ t.s = s
\* An answer of the transform.
Carries(t) == t.f = "push" /\ t.s = "mid" /\ t.c > 0

\* What a frame never runs above: an answer; a chunk on its way down the pipe of the
\* stream whose loop or end it is; and another loop of that stream.
Above(a, b) ==
  /\ ~Carries(b)
  /\ \A s \in Readables :
       /\ Writing(s, b) => ~Flowing(s, a) /\ ~Writing(s, a) /\ ~Ending(s, a)
       /\ Flowing(s, b) => ~Flowing(s, a)
Stacked(q) == \A i, j \in DOMAIN q : i < j => Above(q[i], q[j])

\* What each frame or callback knows.
MidSpent == rd["mid"].ended /\ rd["mid"].buffer = << >>
Sure(t) ==
  /\ \A s \in Readables :
       /\ Flowing(s, t) \/ Writing(s, t) => rd[s].flowingNow
       /\ Writing(s, t) => t.c > 0
       /\ Writing(s, t) /\ ~late => ends[s] = 0
       /\ t.f = "close" /\ t.s = Dest(s) => ends[s] > 0
  /\ t.f = "finish" /\ t.s = "dst" => wr["dst"].ended
  /\ t.f = "push" /\ t.s = "mid" /\ t.c = Null => wr["mid"].ended
  /\ ~late => /\ Ending("mid", t) => MidSpent
              /\ wr["mid"].ended => ~Carries(t)
FramesInv ==
  /\ Stacked(stack) /\ \A t \in Range(stack) \cup later : Sure(t)
  /\ \A t \in later : Carries(t) \/ t.f \in {"pull", "end"}
  /\ ~late => \A t \in Range(ticks) : Ending("mid", t) => MidSpent

\* The writable side ends after the readable side it is piped from.
WritesInv ==
  /\ wr \in [Writables -> [ended : BOOLEAN, finished : BOOLEAN]]
  /\ \A s \in Readables : wr[Dest(s)].ended => ends[s] > 0
  /\ wr["dst"].finished => wr["dst"].ended
  /\ rd["mid"].ended => wr["mid"].ended
  /\ ~late /\ (ends["mid"] > 0 \/ rd["mid"].endEmitted \/ rd["mid"].endPending) => MidSpent

\* Where a chunk is that left a stream.
Held(t) == Writing("src", t) \/ Carries(t)
ChunksInv ==
  /\ \A s \in Readables : \A c \in Range(rd[s].buffer) : c > 0
  /\ in["mid"] = out["mid"] \o rd["mid"].buffer
  /\ intact /\ ~late =>
       /\ Range(out["src"]) = Range(in["mid"]) \cup {t.c : t \in {u \in Range(stack) \cup later : Held(u)}}
       /\ \A t \in Range(stack) : Writing("mid", t) => out["mid"] = Append(written, t.c)
       /\ (\A t \in Range(stack) : ~Writing("mid", t)) => out["mid"] = written
FinishInv == SourceInv /\ FramesInv /\ WritesInv /\ ChunksInv
=============================================================================
