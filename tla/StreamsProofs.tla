---------------------------- MODULE StreamsProofs ----------------------------
(* A Readable is proved to be a channel to whoever reads it, and the writable at *)
(* the end of two pipes to finish with every chunk, for any number of chunks,    *)
(* any calls the listeners make from inside the events, and any buffer.          *)
EXTENDS Streams, TLAPS

----------------------------------------------------------------------------
(* Sequences *)
LEMMA AppendMoves ==
  ASSUME NEW a \in Seq(Int), NEW b \in Seq(Int), NEW c \in Int
  PROVE  Append(a \o b, c) = a \o Append(b, c)
<1>1. Len(a) \in Nat /\ Len(b) \in Nat
  OBVIOUS
<1> DEFINE x == Append(a \o b, c)
           y == a \o Append(b, c)
<1>2. x \in Seq(Int) /\ Len(x) = Len(a) + Len(b) + 1 /\ y \in Seq(Int) /\ Len(y) = Len(a) + Len(b) + 1
  OBVIOUS
<1>3. \A i \in 1..(Len(a) + Len(b) + 1) : x[i] = y[i]
  BY <1>1
<1> HIDE DEF x, y
<1>4. x = y
  BY <1>1, <1>2, <1>3
<1> QED
  BY <1>4 DEF x, y

LEMMA HeadMoves ==
  ASSUME NEW S, NEW a \in Seq(S), NEW b \in Seq(S), b # << >>
  PROVE  a \o b = Append(a, Head(b)) \o Tail(b)
<1>1. Len(a) \in Nat /\ Len(b) \in Nat /\ Len(b) > 0 /\ Head(b) \in S /\ Tail(b) \in Seq(S)
  OBVIOUS
<1> DEFINE x == a \o b
           y == Append(a, Head(b)) \o Tail(b)
<1>2. x \in Seq(S) /\ Len(x) = Len(a) + Len(b)
  OBVIOUS
<1>3. y \in Seq(S) /\ Len(y) = Len(a) + Len(b)
  BY <1>1
<1>4. \A i \in 1..(Len(a) + Len(b)) : x[i] = y[i]
  BY <1>1
<1> HIDE DEF x, y
<1>5. x = y
  BY <1>1, <1>2, <1>3, <1>4
<1> QED
  BY <1>5 DEF x, y

LEMMA PrefixOfConcat ==
  ASSUME NEW S, NEW a \in Seq(S), NEW b \in Seq(S)
  PROVE  IsPrefix(a, a \o b)
<1> DEFINE x == a \o b
<1>1. Len(a) \in Nat /\ Len(b) \in Nat /\ x \in Seq(S) /\ Len(x) = Len(a) + Len(b)
  OBVIOUS
<1>2. \A i \in 1..Len(a) : x[i] = a[i]
  BY <1>1
<1> HIDE DEF x
<1>3. SubSeq(x, 1, Len(a)) = a /\ SubSeq(a, 1, Len(a)) = a
  BY <1>1, <1>2
<1> QED
  BY <1>1, <1>3 DEF IsPrefix, x

LEMMA PrefixOfAppend ==
  ASSUME NEW S, NEW a \in Seq(S), NEW c \in S
  PROVE  IsPrefix(a, Append(a, c)) /\ Append(a, c) # a
<1>1. Append(a, c) = a \o <<c>> /\ <<c>> \in Seq(S)
  OBVIOUS
<1>2. Len(Append(a, c)) = Len(a) + 1 /\ Len(a) \in Nat
  OBVIOUS
<1>3. IsPrefix(a, a \o <<c>>)
  BY <1>1, PrefixOfConcat
<1>4. Append(a, c) # a
  BY <1>2
<1> QED
  BY <1>1, <1>3, <1>4

----------------------------------------------------------------------------
(* Steps *)
Src == rd["src"]
States == [given : Nat, silent : BOOLEAN, over : BOOLEAN]

\* What a step may put on the stack, into the ticks or among the later callbacks
\* without giving a chunk.
Plain == {t \in Frames : ~Gives(t) /\ ~Tells(t)}
Allowed == {t \in Frames : ~Gives(t) /\ (Tells(t) => Spent)}

\* The frames that stay on the stack beneath those of the step.
OkRest(q, r, so) ==
  /\ q \in Seq(Frames)
  /\ \A i \in DOMAIN q : Gives(q[i]) => q[i].c = Null /\ ~r.ended /\ so.over
  /\ \A i, j \in DOMAIN q : Gives(q[i]) /\ Gives(q[j]) => i = j
  /\ \A i \in DOMAIN q : Tells(q[i]) => r.ended /\ r.buffer = << >>

\* The step of the channel.
ChannelStep ==
  \/ Source!Put \/ Source!Close \/ Source!Deliver \/ Source!End
  \/ UNCHANGED <<in["src"], out["src"], rd["src"].ended, ends["src"] > 0>>

LEMMA Typed ==
  ASSUME SourceInv
  PROVE  /\ Src \in ReadState /\ \A s \in Readables : rd[s] \in ReadState
         /\ in["src"] \in Seq(Int) /\ out["src"] \in Seq(Int) /\ ends["src"] \in Nat
         /\ source \in States
BY DEF SourceInv, StreamsTypes, Src, Readables, States

LEMMA StackIs ==
  ASSUME SourceInv, stack # << >>
  PROVE  /\ Head(stack) \in Frames
         /\ OkRest(Tail(stack), Src, source)
         /\ ~Gives(Head(stack)) => OkRest(stack, Src, source)
         /\ Tells(Head(stack)) => Spent
         /\ Gives(Head(stack)) => /\ ~Src.ended
                                  /\ Head(stack).c = Null =>
                                       source.over /\ \A i \in DOMAIN Tail(stack) : ~Gives(Tail(stack)[i])
<1>1. stack \in Seq(Frames) /\ Len(stack) \in Nat /\ Len(stack) > 0
  BY DEF SourceInv, StreamsTypes
<1>2. /\ Tail(stack) \in Seq(Frames) /\ DOMAIN Tail(stack) = 1..(Len(stack) - 1)
      /\ \A i \in DOMAIN Tail(stack) : Tail(stack)[i] = stack[i + 1] /\ i + 1 \in DOMAIN stack /\ i + 1 # 1
      /\ Head(stack) = stack[1] /\ 1 \in DOMAIN stack /\ Head(stack) \in Frames
  BY <1>1
<1>3. \A i \in DOMAIN stack : Tells(stack[i]) => Spent
  BY DEF SourceInv, TellsInv, Range
<1>4. /\ \A i \in DOMAIN stack : Gives(stack[i]) =>
           ~rd["src"].ended /\ IF stack[i].c = Null THEN source.over ELSE i = 1
      /\ \A i, j \in DOMAIN stack :
           Gives(stack[i]) /\ stack[i].c = Null /\ Gives(stack[j]) /\ stack[j].c = Null => i = j
  BY DEF SourceInv, GivesInv
<1>5. OkRest(Tail(stack), Src, source)
  <2>1. \A i \in DOMAIN Tail(stack) : Gives(Tail(stack)[i]) =>
          Tail(stack)[i].c = Null /\ ~Src.ended /\ source.over
    BY <1>2, <1>4 DEF Src
  <2>2. \A i, j \in DOMAIN Tail(stack) : Gives(Tail(stack)[i]) /\ Gives(Tail(stack)[j]) => i = j
    <3> SUFFICES ASSUME NEW i \in DOMAIN Tail(stack), NEW j \in DOMAIN Tail(stack),
                        Gives(Tail(stack)[i]), Gives(Tail(stack)[j])
                 PROVE  i = j
      OBVIOUS
    <3>1. i + 1 = j + 1
      BY <1>2, <1>4, <2>1
    <3> QED
      BY <1>2, <3>1
  <2> QED
    BY <1>2, <1>3, <2>1, <2>2 DEF OkRest, Spent, Src
<1>6. ~Gives(Head(stack)) => OkRest(stack, Src, source)
  BY <1>1, <1>2, <1>3, <1>4 DEF OkRest, Spent, Src
<1>7. Gives(Head(stack)) /\ Head(stack).c = Null =>
        source.over /\ \A i \in DOMAIN Tail(stack) : ~Gives(Tail(stack)[i])
  BY <1>2, <1>4, <1>5 DEF OkRest
<1> QED
  BY <1>2, <1>3, <1>4, <1>5, <1>6, <1>7 DEF Src

LEMMA RestMoves ==
  ASSUME NEW q, NEW r, NEW so, OkRest(q, r, so), NEW r2, NEW so2, r2.ended = r.ended,
         r.ended /\ r.buffer = << >> => r2.buffer = << >>, so2.over = so.over
  PROVE  OkRest(q, r2, so2)
BY DEF OkRest

\* Steps that give no chunk.
LEMMA CalmKeeps ==
  ASSUME SourceInv,
         NEW s \in Readables, NEW q \in ReadState, rd' = [rd EXCEPT ![s] = q],
         Src'.endEmitted \/ Src'.endPending \/ ends'["src"] > 0 => Spent',
         Spent => Spent', Src'.ended => source'.over,
         in' \in [Readables -> Seq(Int)], out' \in [Readables -> Seq(Int)],
         ends' \in [Readables -> Nat], source' \in States,
         in'["src"] = out'["src"] \o Src'.buffer,
         NEW frames \in Seq(Allowed'), NEW rest, OkRest(rest, Src', source'), stack' = frames \o rest,
         ticks' \in Seq(Frames), \A t \in Range(ticks') : t \in Range(ticks) \cup Allowed',
         later' \subseteq later \cup Allowed'
  PROVE  SourceInv'
<1>1. rest \in Seq(Frames) /\ frames \in Seq(Frames) /\ Len(frames) \in Nat /\ Len(rest) \in Nat
  BY DEF OkRest, Allowed
<1>2. stack' \in Seq(Frames)
  BY <1>1
<1>3. later' \subseteq Frames
  BY DEF SourceInv, StreamsTypes, Allowed
<1>4. StreamsTypes'
  BY <1>2, <1>3 DEF SourceInv, StreamsTypes, States
<1>5. DOMAIN stack' = 1..(Len(frames) + Len(rest))
  BY <1>1
<1>6. \A i \in DOMAIN stack' :
        \/ i \in 1..Len(frames) /\ stack'[i] = frames[i] /\ stack'[i] \in Allowed'
        \/ i - Len(frames) \in DOMAIN rest /\ stack'[i] = rest[i - Len(frames)]
  BY <1>1, <1>5
<1>7. \A i \in DOMAIN stack' : Gives(stack'[i]) =>
        /\ i - Len(frames) \in DOMAIN rest /\ stack'[i] = rest[i - Len(frames)]
        /\ Gives(rest[i - Len(frames)])
  BY <1>6 DEF Allowed
<1>8. \A i \in DOMAIN stack' : Tells(stack'[i]) => Spent'
  <2>1. \A t \in Allowed' : Tells(t) => Spent'
    BY DEF Allowed
  <2>2. \A i \in DOMAIN rest : Tells(rest[i]) => Spent'
    BY DEF OkRest, Spent, Src
  <2> QED
    BY <1>6, <2>1, <2>2
<1>9. \A i \in DOMAIN stack' : Gives(stack'[i]) =>
        ~rd'["src"].ended /\ stack'[i].c = Null /\ source'.over
  <2>1. \A i \in DOMAIN rest : Gives(rest[i]) => rest[i].c = Null /\ ~Src'.ended /\ source'.over
    BY DEF OkRest
  <2>2. \A i \in DOMAIN stack' : Gives(stack'[i]) => stack'[i].c = Null /\ ~Src'.ended /\ source'.over
    BY <1>7, <2>1
  <2> QED
    BY <2>2 DEF Src
<1>10. \A i, j \in DOMAIN stack' : Gives(stack'[i]) /\ Gives(stack'[j]) => i = j
  <2> SUFFICES ASSUME NEW i \in DOMAIN stack', NEW j \in DOMAIN stack', Gives(stack'[i]), Gives(stack'[j])
               PROVE  i = j
    OBVIOUS
  <2>1. i - Len(frames) = j - Len(frames)
    BY <1>7 DEF OkRest
  <2> QED
    BY <1>1, <1>5, <2>1
<1>11. \A t \in (later \cup Range(ticks))' : ~Gives(t) /\ (Tells(t) => Spent')
  BY DEF SourceInv, GivesInv, TellsInv, Allowed
<1>12. GivesInv'
  BY <1>9, <1>10, <1>11 DEF GivesInv, Src
<1>13. \A t \in Range(stack)' : Tells(t) => Spent'
  BY <1>8 DEF Range
<1>14. TellsInv'
  BY <1>11, <1>13 DEF TellsInv, Src
<1> QED
  BY <1>4, <1>12, <1>14 DEF SourceInv, Src

----------------------------------------------------------------------------
(* Parts of steps *)
LEMMA PlainIsAllowed == Plain \subseteq Allowed /\ Plain' = Plain /\ Plain \subseteq Allowed'
BY DEF Plain, Allowed

LEMMA PlainFrames ==
  /\ \A s \in Readables :
       /\ Frame("user", s) \in Plain /\ Frame("refill", s) \in Plain /\ Frame("loop", s) \in Plain
       /\ Frame("take", s) \in Plain /\ Frame("leave", s) \in Plain /\ Frame("unpipe", s) \in Plain
       /\ Frame("pull", s) \in Plain /\ Frame("fill", s) \in Plain /\ Frame("first", s) \in Plain
       /\ Frame("more", s) \in Plain /\ Frame("readable", s) \in Plain
       /\ Frame("readRest", s) \in Plain
       /\ \A c \in Int : Chunk("filled", s, c) \in Plain
       /\ Frame("end", s) \in Frames /\ (s # "src" => Frame("end", s) \in Plain)
  /\ \A s \in Writables :
       /\ Frame("close", s) \in Plain /\ Frame("finish", s) \in Plain
       /\ \A c \in Int : Chunk("write", s, c) \in Plain
  /\ Frame("push", "mid") \in Plain /\ \A c \in Int : Chunk("push", "mid", c) \in Plain
  /\ User \in Plain
<1> USE DEF Plain, Frames, Frame, Chunk, Null
<1>1. \A s \in Readables :
        /\ Frame("user", s) \in Plain /\ Frame("refill", s) \in Plain /\ Frame("loop", s) \in Plain
        /\ Frame("take", s) \in Plain /\ Frame("leave", s) \in Plain /\ Frame("unpipe", s) \in Plain
  BY DEF Gives, Tells
<1>2. \A s \in Readables :
        /\ Frame("pull", s) \in Plain /\ Frame("fill", s) \in Plain /\ Frame("first", s) \in Plain
        /\ Frame("more", s) \in Plain /\ Frame("readable", s) \in Plain
        /\ Frame("readRest", s) \in Plain
  BY DEF Gives, Tells
<1>3. \A s \in Readables :
        /\ \A c \in Int : Chunk("filled", s, c) \in Plain
        /\ Frame("end", s) \in Frames /\ (s # "src" => Frame("end", s) \in Plain)
  BY DEF Gives, Tells
<1>4. \A s \in Writables :
        /\ Frame("close", s) \in Plain /\ Frame("finish", s) \in Plain
        /\ \A c \in Int : Chunk("write", s, c) \in Plain
  BY DEF Gives, Tells
<1>5. Frame("push", "mid") \in Plain /\ \A c \in Int : Chunk("push", "mid", c) \in Plain
  BY DEF Gives, Tells, Readables
<1>6. User \in Plain
  BY <1>1 DEF User, Readables
<1> HIDE DEF Plain, Frames, Frame, Chunk, Null
<1> QED
  BY <1>1, <1>2, <1>3, <1>4, <1>5, <1>6

LEMMA PartFrames ==
  ASSUME NEW s \in Readables, NEW r
  PROVE  FlowFrames(s, r) \in Seq(Plain) /\ EndFrames(s, r) \in Seq(Plain)
         /\ ReadsMore(s, r) \in Seq(Plain) /\ SchedulesReadable(s, r) \in Seq(Plain)
         /\ ResumeFrames(s, r) \in Seq(Plain)
<1>1. Frame("loop", s) \in Plain /\ Frame("more", s) \in Plain /\ Frame("readable", s) \in Plain
  BY PlainFrames
<1> QED
  BY <1>1 DEF FlowFrames, EndFrames, ReadsMore, SchedulesReadable, ResumeFrames

\* What a step that is quiet about the chunks leaves alone.
Same(q, r) ==
  /\ q \in ReadState
  /\ q.buffer = r.buffer /\ q.ended = r.ended
  /\ q.endEmitted = r.endEmitted /\ q.endPending = r.endPending

LEMMA FlagsAreSame ==
  ASSUME NEW r \in ReadState, NEW b \in BOOLEAN
  PROVE  /\ Same(r, r) /\ Same(InFlow(r), r) /\ Same(Resumed(r), r) /\ Same(Acknowledged(r), r)
         /\ Same([r EXCEPT !.reading = b], r) /\ Same([r EXCEPT !.flowingNow = b], r)
         /\ Same([r EXCEPT !.readingMore = b], r) /\ Same([r EXCEPT !.readableScheduled = b], r)
         /\ Same([r EXCEPT !.flowing = "no"], r)
<1>1. Same(r, r) /\ Same(InFlow(r), r)
  BY DEF Same, ReadState, InFlow
<1>2. Same(Acknowledged(r), r) /\ Same([r EXCEPT !.reading = b], r)
  BY DEF Same, ReadState, Acknowledged
<1>3. Same([r EXCEPT !.flowingNow = b], r) /\ Same([r EXCEPT !.readingMore = b], r)
  BY DEF Same, ReadState
<1>4. Same([r EXCEPT !.readableScheduled = b], r) /\ Same([r EXCEPT !.flowing = "no"], r)
  BY DEF Same, ReadState
<1>5. Same(Resumed(r), r)
  <2>1. Same(InFlow([r EXCEPT !.flowing = "yes"]), r)
    BY DEF Same, ReadState, InFlow
  <2> QED
    BY <1>1, <2>1 DEF Resumed
<1> QED
  BY <1>1, <1>2, <1>3, <1>4, <1>5

LEMMA SameIsTransitive ==
  ASSUME NEW p, NEW q, NEW r, Same(p, q), Same(q, r)
  PROVE  Same(p, r)
BY DEF Same

\* A step that leaves the chunks of the source where they are.
LEMMA QuietKeeps ==
  ASSUME SourceInv,
         NEW s \in Readables, NEW q \in ReadState, Set(s, q),
         s = "src" => q.buffer = Src.buffer /\ q.ended = Src.ended
                      /\ (q.endEmitted \/ q.endPending => Spent),
         in' \in [Readables -> Seq(Int)], out' \in [Readables -> Seq(Int)],
         ends' \in [Readables -> Nat], source' = source,
         in'["src"] = in["src"], out'["src"] = out["src"], ends'["src"] = ends["src"],
         NEW frames \in Seq(Allowed), NEW rest, OkRest(rest, Src, source), stack' = frames \o rest,
         ticks' \in Seq(Frames), \A t \in Range(ticks') : t \in Range(ticks) \cup Allowed,
         later' \subseteq later \cup Allowed
  PROVE  SourceInv' /\ ChannelStep
<1>1. rd \in [Readables -> ReadState] /\ "src" \in Readables
  BY Typed DEF SourceInv, StreamsTypes, Readables
<1>2. rd' = [rd EXCEPT ![s] = q] /\ Src' = IF s = "src" THEN q ELSE Src
  BY <1>1 DEF Set, Src
<1>3. Src'.buffer = Src.buffer /\ Src'.ended = Src.ended
  BY <1>2
<1>4. Spent' = Spent
  BY <1>3 DEF Spent, Src
<1>5. Allowed' = Allowed
  BY <1>4 DEF Allowed
<1>6. Src'.endEmitted \/ Src'.endPending \/ ends'["src"] > 0 => Spent'
  BY <1>2, <1>4 DEF SourceInv, TellsInv, Src
<1>7. Src'.ended => source'.over
  BY <1>3 DEF SourceInv, GivesInv, Src
<1>8. in'["src"] = out'["src"] \o Src'.buffer
  BY <1>3 DEF SourceInv, Src
<1>9. OkRest(rest, Src', source')
  BY <1>3 DEF OkRest
<1>10. source' \in States
  BY Typed
<1>11. SourceInv'
  BY <1>2, <1>4, <1>5, <1>6, <1>7, <1>8, <1>9, <1>10, CalmKeeps
<1>12. UNCHANGED <<in["src"], out["src"], rd["src"].ended, ends["src"] > 0>>
  BY <1>3 DEF Src
<1> QED
  BY <1>11, <1>12 DEF ChannelStep

LEMMA TicksGrow ==
  ASSUME SourceInv, NEW S, S \subseteq Frames, NEW t \in Seq(S)
  PROVE  /\ ticks \o t \in Seq(Frames)
         /\ \A x \in Range(ticks \o t) : x \in Range(ticks) \cup S
<1>1. ticks \in Seq(Frames) /\ Len(ticks) \in Nat /\ Len(t) \in Nat
  BY DEF SourceInv, StreamsTypes
<1>2. t \in Seq(Frames)
  OBVIOUS
<1>3. ticks \o t \in Seq(Frames) /\ Len(ticks \o t) = Len(ticks) + Len(t)
  BY <1>1, <1>2
<1>4. \A i \in 1..(Len(ticks) + Len(t)) :
        \/ i \in DOMAIN ticks /\ (ticks \o t)[i] = ticks[i]
        \/ (ticks \o t)[i] \in S
  BY <1>1, <1>2
<1>5. \A i \in DOMAIN (ticks \o t) : (ticks \o t)[i] \in Range(ticks) \cup S
  BY <1>3, <1>4 DEF Range
<1> QED
  BY <1>3, <1>5 DEF Range

LEMMA TicksDrop ==
  ASSUME SourceInv, ticks # << >>
  PROVE  /\ Tail(ticks) \in Seq(Frames) /\ \A x \in Range(Tail(ticks)) : x \in Range(ticks)
         /\ Head(ticks) \in Frames /\ Head(ticks) \in Range(ticks)
<1>1. ticks \in Seq(Frames) /\ Len(ticks) \in Nat /\ Len(ticks) > 0
  BY DEF SourceInv, StreamsTypes
<1>2. \A i \in DOMAIN Tail(ticks) : i + 1 \in DOMAIN ticks /\ Tail(ticks)[i] = ticks[i + 1]
  BY <1>1
<1>3. Head(ticks) = ticks[1] /\ 1 \in DOMAIN ticks
  BY <1>1
<1> QED
  BY <1>1, <1>2, <1>3 DEF Range

\* The library's steps that only set flags.
LEMMA FlagsThen ==
  ASSUME SourceInv, stack # << >>,
         NEW s \in Readables, NEW q, Same(q, rd[s]), Set(s, q),
         NEW frames \in Seq(Allowed), Then(frames),
         NEW t \in Seq(Allowed), ticks' = ticks \o t,
         later' \subseteq later \cup Allowed, UNCHANGED <<source, in, out, ends>>
  PROVE  SourceInv' /\ ChannelStep
<1>1. OkRest(Tail(stack), Src, source)
  BY StackIs
<1>2. ticks' \in Seq(Frames) /\ \A x \in Range(ticks') : x \in Range(ticks) \cup Allowed
  <2>1. Allowed \subseteq Frames
    BY DEF Allowed
  <2> QED
    BY <2>1, TicksGrow
<1>3. s = "src" => q.buffer = Src.buffer /\ q.ended = Src.ended
                   /\ (q.endEmitted \/ q.endPending => Spent)
  BY DEF Same, SourceInv, TellsInv, Src
<1>4. q \in ReadState
  BY DEF Same
<1>5. /\ in' \in [Readables -> Seq(Int)] /\ out' \in [Readables -> Seq(Int)]
      /\ ends' \in [Readables -> Nat]
  BY DEF SourceInv, StreamsTypes
<1> QED
  BY <1>1, <1>2, <1>3, <1>4, <1>5, QuietKeeps DEF Then

\* The script's calls that only set flags.
LEMMA ScriptRest ==
  ASSUME SourceInv, Calls
  PROVE  OkRest(IF stack = << >> THEN <<User>> ELSE stack, Src, source)
<1>1. stack # << >> => ~Gives(Head(stack))
  BY DEF Calls, Running, Idle, Gives
<1>2. User \in Frames /\ ~Gives(User) /\ ~Tells(User)
  BY PlainFrames DEF Plain
<1>3. OkRest(<<User>>, Src, source)
  BY <1>2 DEF OkRest
<1> QED
  BY <1>1, <1>3, StackIs

LEMMA FlagsScript ==
  ASSUME SourceInv, Calls,
         NEW s \in Readables, NEW q \in ReadState, Set(s, q),
         q.buffer = rd[s].buffer, q.ended = rd[s].ended,
         s = "src" /\ (q.endEmitted \/ q.endPending) => Spent,
         NEW frames \in Seq(Allowed), ThenScript(frames),
         NEW t \in Seq(Allowed), ticks' = ticks \o t,
         later' \subseteq later \cup Allowed, UNCHANGED <<source, in, out, ends>>
  PROVE  SourceInv' /\ ChannelStep
<1>1. OkRest(IF stack = << >> THEN <<User>> ELSE stack, Src, source)
  BY ScriptRest
<1>2. ticks' \in Seq(Frames) /\ \A x \in Range(ticks') : x \in Range(ticks) \cup Allowed
  <2>1. Allowed \subseteq Frames
    BY DEF Allowed
  <2> QED
    BY <2>1, TicksGrow
<1>3. s = "src" => q.buffer = Src.buffer /\ q.ended = Src.ended
                   /\ (q.endEmitted \/ q.endPending => Spent)
  BY DEF Src
<1>4. /\ in' \in [Readables -> Seq(Int)] /\ out' \in [Readables -> Seq(Int)]
      /\ ends' \in [Readables -> Nat]
  BY DEF SourceInv, StreamsTypes
<1> QED
  BY <1>1, <1>2, <1>3, <1>4, QuietKeeps DEF ThenScript

LEMMA Unmoved ==
  ASSUME SourceInv
  PROVE  /\ UNCHANGED rd => \A s \in Readables : Set(s, rd[s])
         /\ ticks = ticks \o << >>
         /\ << >> \in Seq(Allowed) /\ << >> \in Seq(Plain)
         /\ \A t \in Seq(Plain) : t \in Seq(Allowed)
<1>1. rd \in [Readables -> ReadState] /\ ticks \in Seq(Frames)
  BY DEF SourceInv, StreamsTypes
<1>2. \A t \in Seq(Plain) : t \in Seq(Allowed)
  BY PlainIsAllowed
<1>3. ticks = ticks \o << >>
  BY <1>1
<1> QED
  BY <1>1, <1>2, <1>3 DEF Set

----------------------------------------------------------------------------
(* The library's actions that are quiet about the source's chunks *)

\* Who runs, on which stream.
LEMMA RunsOn ==
  ASSUME SourceInv, stack # << >>
  PROVE  /\ Head(stack) \in Frames /\ Head(stack).c \in Int
         /\ Head(stack).f \notin {"write", "close", "finish"} =>
              Me \in Readables /\ rd[Me] \in ReadState
         /\ Head(stack).f \in {"write", "close", "finish"} => Me \in Writables
<1>1. Head(stack) \in Frames
  BY StackIs
<1>2. \A t \in Frames : /\ t.c \in Int
                        /\ t.f \notin {"write", "close", "finish"} => t.s \in Readables
                        /\ t.f \in {"write", "close", "finish"} => t.s \in Writables
  BY DEF Frames
<1> QED
  BY <1>1, <1>2, Typed DEF Me

\* A step that leaves the readable streams alone.
LEMMA ThenKeeps ==
  ASSUME SourceInv, stack # << >>, NEW frames \in Seq(Plain), Then(frames),
         later' \subseteq later \cup Plain, UNCHANGED <<rd, ticks, source, in, out, ends>>
  PROVE  SourceInv' /\ ChannelStep
<1>1. "src" \in Readables /\ rd["src"] \in ReadState
  BY Typed DEF Readables
<1>2. Same(rd["src"], rd["src"]) /\ Set("src", rd["src"])
  BY <1>1, FlagsAreSame, Unmoved
<1>3. later' \subseteq later \cup Allowed
  BY PlainIsAllowed
<1> QED
  BY <1>1, <1>2, <1>3, FlagsThen, Unmoved

LEMMA PushEmptyKeeps ==
  ASSUME SourceInv, PushEmpty
  PROVE  SourceInv' /\ ChannelStep
<1> DEFINE s == Me
           r == Acknowledged(rd[s])
           t == IF Flows(r) THEN << >> ELSE ReadsMore(s, r)
           q == [r EXCEPT !.readingMore = @ \/ t # << >>]
<1>1. /\ stack # << >> /\ Head(stack).f = "push" /\ Set(s, q) /\ ticks' = ticks \o t /\ Then(<< >>)
      /\ UNCHANGED <<later, source, in, out, ends>>
  BY DEF PushEmpty, Running, history
<1>2. s \in Readables /\ rd[s] \in ReadState
  BY <1>1, RunsOn
<1>3. Same(r, rd[s]) /\ r \in ReadState
  BY <1>2, FlagsAreSame DEF Same
<1>4. r.readingMore \in BOOLEAN /\ q = [r EXCEPT !.readingMore = r.readingMore \/ t # << >>]
  BY <1>3 DEF ReadState
<1>5. t \in Seq(Plain)
  BY <1>2, PartFrames, Unmoved
<1> HIDE DEF r, t, q
<1>6. Same(q, r)
  BY <1>3, <1>4, FlagsAreSame
<1>7. Same(q, rd[s])
  BY <1>3, <1>6, SameIsTransitive
<1> HIDE DEF s
<1> QED
  BY <1>1, <1>2, <1>5, <1>7, FlagsThen, Unmoved

LEMMA RefillKeeps ==
  ASSUME SourceInv, Refill
  PROVE  SourceInv' /\ ChannelStep
<1> DEFINE s == Me
           q == [rd[s] EXCEPT !.readingMore = TRUE]
           t == ReadsMore(s, rd[s])
<1>1. /\ stack # << >> /\ Head(stack).f = "refill" /\ Set(s, q) /\ ticks' = ticks \o t /\ Then(<< >>)
      /\ UNCHANGED <<later, source, in, out, ends>>
  BY DEF Refill, Running, history
<1>2. s \in Readables /\ rd[s] \in ReadState
  BY <1>1, RunsOn
<1>3. Same(q, rd[s]) /\ t \in Seq(Plain)
  BY <1>2, FlagsAreSame, PartFrames
<1> HIDE DEF s, q, t
<1> QED
  BY <1>1, <1>2, <1>3, FlagsThen, Unmoved

LEMMA LoopKeeps ==
  ASSUME SourceInv, Loop
  PROVE  SourceInv' /\ ChannelStep
<1> DEFINE s == Me
<1>1. /\ stack # << >> /\ Head(stack).f = "loop"
      /\ UNCHANGED <<ticks, later, source, in, out, ends>>
      /\ \/ Then(<<Frame("leave", s)>>) /\ UNCHANGED rd
         \/ Set(s, [rd[s] EXCEPT !.reading = TRUE]) /\ Then(<<Frame("pull", s), Frame("take", s)>>)
         \/ Then(<<Frame("take", s)>>) /\ UNCHANGED rd
  BY DEF Loop, Running, history
<1>2. s \in Readables /\ rd[s] \in ReadState
  BY <1>1, RunsOn
<1>3. /\ <<Frame("leave", s)>> \in Seq(Plain) /\ <<Frame("take", s)>> \in Seq(Plain)
      /\ <<Frame("pull", s), Frame("take", s)>> \in Seq(Plain)
  BY <1>2, PlainFrames
<1>4. CASE UNCHANGED rd
  BY <1>1, <1>3, <1>4, ThenKeeps, <1>2, FlagsAreSame, FlagsThen, Unmoved
<1>5. CASE Set(s, [rd[s] EXCEPT !.reading = TRUE]) /\ Then(<<Frame("pull", s), Frame("take", s)>>)
  BY <1>1, <1>2, <1>3, <1>5, FlagsAreSame, FlagsThen, Unmoved
<1> QED
  BY <1>1, <1>4, <1>5

LEMMA FillFlows ==
  ASSUME SourceInv, stack # << >>, Me \in Readables,
         UNCHANGED <<ticks, later, source, in, out, ends>>,
         \/ Set(Me, InFlow(rd[Me])) /\ Then(FlowFrames(Me, rd[Me]))
         \/ Then(<< >>) /\ UNCHANGED rd
  PROVE  SourceInv' /\ ChannelStep
<1>1. rd[Me] \in ReadState
  BY Typed
<1>2. CASE Set(Me, InFlow(rd[Me])) /\ Then(FlowFrames(Me, rd[Me]))
  BY <1>1, <1>2, FlagsAreSame, PartFrames, FlagsThen, Unmoved
<1>3. CASE Then(<< >>) /\ UNCHANGED rd
  BY <1>3, ThenKeeps, Unmoved
<1> QED
  BY <1>2, <1>3

LEMMA FillKeeps ==
  ASSUME SourceInv, Fill
  PROVE  SourceInv' /\ ChannelStep
<1> DEFINE s == Me
           frames == <<Frame("pull", s), Chunk("filled", s, Len(rd[s].buffer))>>
<1>1. /\ stack # << >> /\ Head(stack).f \in {"fill", "filled"}
      /\ UNCHANGED <<ticks, later, source, in, out, ends>>
      /\ \/ Set(s, [rd[s] EXCEPT !.reading = TRUE]) /\ Then(frames)
         \/ Set(s, InFlow(rd[s])) /\ Then(FlowFrames(s, rd[s]))
         \/ Then(<< >>) /\ UNCHANGED rd
  BY DEF Fill, Running, history
<1>2. s \in Readables /\ rd[s] \in ReadState
  BY <1>1, RunsOn
<1>3. CASE Set(s, [rd[s] EXCEPT !.reading = TRUE]) /\ Then(frames)
  <2>1. Len(rd[s].buffer) \in Int
    BY <1>2 DEF ReadState
  <2>2. frames \in Seq(Plain)
    BY <1>2, <2>1, PlainFrames
  <2> HIDE DEF frames
  <2> QED
    BY <1>1, <1>2, <1>3, <2>2, FlagsAreSame, FlagsThen, Unmoved
<1> QED
  BY <1>1, <1>2, <1>3, FillFlows

LEMMA FillEndsKeeps ==
  ASSUME SourceInv, FillEnds
  PROVE  SourceInv' /\ ChannelStep
<1>1. /\ stack # << >> /\ Head(stack).f = "filled"
      /\ UNCHANGED <<ticks, later, source, in, out, ends>>
      /\ \/ Set(Me, InFlow(rd[Me])) /\ Then(FlowFrames(Me, rd[Me]))
         \/ Then(<< >>) /\ UNCHANGED rd
  BY DEF FillEnds, Running, history
<1>2. Me \in Readables
  BY <1>1, RunsOn
<1> QED
  BY <1>1, <1>2, FillFlows

LEMMA UnpipedKeeps ==
  ASSUME SourceInv, Unpiped
  PROVE  SourceInv' /\ ChannelStep
<1>1. stack # << >> /\ Then(<< >>) /\ UNCHANGED <<rd, ticks, later, source, in, out, ends>>
  BY DEF Unpiped, Running, history
<1> QED
  BY <1>1, ThenKeeps, Unmoved

LEMMA ReturnKeeps ==
  ASSUME SourceInv, Return
  PROVE  SourceInv' /\ ChannelStep
<1>1. stack # << >> /\ Then(<< >>) /\ UNCHANGED <<rd, ticks, later, source, in, out, ends>>
  BY DEF Return, Running, states, history
<1> QED
  BY <1>1, ThenKeeps, Unmoved

LEMMA WritableKeeps ==
  ASSUME SourceInv, WriteMid \/ WriteDst \/ CloseMid \/ CloseDst \/ Finish \/ PullMid
  PROVE  SourceInv' /\ ChannelStep
<1>1. CASE WriteMid
  <2> DEFINE t == Chunk("push", "mid", Head(stack).c)
  <2>1. /\ stack # << >> /\ (Then(<< >>) \/ Then(<<t>>))
        /\ later' \subseteq later \cup {t} /\ UNCHANGED <<rd, ticks, source, in, out, ends>>
    BY <1>1 DEF WriteMid, Running, states, history
  <2>2. t \in Plain
    BY <2>1, RunsOn, PlainFrames
  <2> HIDE DEF t
  <2>3. later' \subseteq later \cup Plain /\ <<t>> \in Seq(Plain)
    BY <2>1, <2>2
  <2> QED
    BY <2>1, <2>3, ThenKeeps, Unmoved
<1>2. CASE WriteDst
  <2>1. stack # << >> /\ Then(<< >>) /\ UNCHANGED <<rd, ticks, later, source, in, out, ends>>
    BY <1>2 DEF WriteDst, Running, states
  <2> QED
    BY <2>1, ThenKeeps, Unmoved
<1>3. CASE CloseMid
  <2> DEFINE frames == <<Frame("push", "mid"), Frame("finish", "mid")>>
  <2>1. /\ stack # << >> /\ (Then(<< >>) \/ Then(frames))
        /\ UNCHANGED <<rd, ticks, later, source, in, out, ends>>
    BY <1>3 DEF CloseMid, Running
  <2>2. frames \in Seq(Plain)
    BY PlainFrames DEF Writables
  <2> HIDE DEF frames
  <2> QED
    BY <2>1, <2>2, ThenKeeps, Unmoved
<1>4. CASE CloseDst
  <2> DEFINE frames == <<Frame("finish", "dst")>>
  <2>1. /\ stack # << >> /\ (Then(<< >>) \/ Then(frames))
        /\ UNCHANGED <<rd, ticks, later, source, in, out, ends>>
    BY <1>4 DEF CloseDst, Running, history
  <2>2. frames \in Seq(Plain)
    BY PlainFrames DEF Writables
  <2> HIDE DEF frames
  <2> QED
    BY <2>1, <2>2, ThenKeeps, Unmoved
<1>5. CASE Finish
  <2>1. stack # << >> /\ Then(<< >>) /\ UNCHANGED <<rd, ticks, later, source, in, out, ends>>
    BY <1>5 DEF Finish, Running, history
  <2> QED
    BY <2>1, ThenKeeps, Unmoved
<1>6. CASE PullMid
  <2>1. stack # << >> /\ Then(<< >>) /\ UNCHANGED <<rd, ticks, later, source, in, out, ends>>
    BY <1>6 DEF PullMid, Running, states, history
  <2> QED
    BY <2>1, ThenKeeps, Unmoved
<1> QED
  BY <1>1, <1>2, <1>3, <1>4, <1>5, <1>6

----------------------------------------------------------------------------
(* Callbacks, and calls of the script *)
LEMMA TickKeeps ==
  ASSUME SourceInv, Tick
  PROVE  SourceInv' /\ ChannelStep
<1> DEFINE t == Head(ticks)
           r == rd[t.s]
           woken == IF ~Flows(r) /\ (r.buffer # << >> \/ r.ended) THEN <<User>> ELSE << >>
<1>1. /\ stack = << >> /\ ticks # << >> /\ ticks' = Tail(ticks)
      /\ UNCHANGED <<later, source, in, out, ends>>
      /\ \/ /\ t.f = "more"
            /\ Set(t.s, [r EXCEPT !.readingMore = FALSE]) /\ stack' = <<Frame("fill", t.s)>>
         \/ t.f = "readable" /\ Set(t.s, [r EXCEPT !.readableScheduled = FALSE]) /\ stack' = woken
         \/ t.f = "end" /\ stack' = <<t>> /\ UNCHANGED rd
         \/ t.f = "first" /\ UNCHANGED <<rd, stack>>
         \/ /\ t.f = "first"
            /\ Set(t.s, [r EXCEPT !.reading = TRUE]) /\ stack' = <<Frame("pull", t.s)>>
  BY DEF Tick, history
<1>2. t \in Frames /\ t \in Range(ticks) /\ ticks' \in Seq(Frames)
      /\ \A x \in Range(ticks') : x \in Range(ticks) \cup Allowed
  BY <1>1, TicksDrop
<1>3. t.s \in Readables
  <2>1. \A x \in Frames : x.f \notin {"write", "close", "finish"} => x.s \in Readables
    BY DEF Frames
  <2>2. t.f \notin {"write", "close", "finish"}
    BY <1>1
  <2> HIDE DEF t
  <2> QED
    BY <1>2, <2>1, <2>2
<1>4. t \in Allowed
  BY <1>2 DEF SourceInv, GivesInv, TellsInv, Allowed
<1>5. OkRest(<< >>, Src, source)
  BY DEF OkRest
<1>6. r \in ReadState
  BY <1>3, Typed
<1>7. <<Frame("fill", t.s)>> \in Seq(Allowed) /\ <<Frame("pull", t.s)>> \in Seq(Allowed)
  BY <1>3, PlainFrames, PlainIsAllowed
<1>8. woken \in Seq(Allowed)
  BY PlainFrames, PlainIsAllowed
<1>9. <<t>> \in Seq(Allowed)
  BY <1>4
<1>10. \E q, frames : Same(q, r) /\ Set(t.s, q) /\ frames \in Seq(Allowed) /\ stack' = frames
  <2> HIDE DEF t, woken
  <2>1. CASE stack' = <<Frame("fill", t.s)>> /\ Set(t.s, [r EXCEPT !.readingMore = FALSE])
    BY <1>6, <1>7, <2>1, FlagsAreSame
  <2>2. CASE stack' = woken /\ Set(t.s, [r EXCEPT !.readableScheduled = FALSE])
    BY <1>6, <1>8, <2>2, FlagsAreSame
  <2>3. CASE stack' = <<t>> /\ UNCHANGED rd
    BY <1>3, <1>6, <1>9, <2>3, FlagsAreSame, Unmoved
  <2>4. CASE UNCHANGED <<rd, stack>>
    BY <1>1, <1>3, <1>6, <2>4, FlagsAreSame, Unmoved
  <2>5. CASE stack' = <<Frame("pull", t.s)>> /\ Set(t.s, [r EXCEPT !.reading = TRUE])
    BY <1>6, <1>7, <2>5, FlagsAreSame
  <2> QED
    BY <1>1, <2>1, <2>2, <2>3, <2>4, <2>5
<1>11. PICK q, frames : Same(q, r) /\ Set(t.s, q) /\ frames \in Seq(Allowed) /\ stack' = frames
  BY <1>10
<1>12. t.s = "src" => q.buffer = Src.buffer /\ q.ended = Src.ended
                      /\ (q.endEmitted \/ q.endPending => Spent)
  BY <1>11 DEF Same, SourceInv, TellsInv, Src
<1>13. q \in ReadState
  BY <1>11 DEF Same
<1>14. /\ in' \in [Readables -> Seq(Int)] /\ out' \in [Readables -> Seq(Int)]
       /\ ends' \in [Readables -> Nat]
  BY <1>1 DEF SourceInv, StreamsTypes
<1>15. stack' = frames \o << >>
  BY <1>11
<1> HIDE DEF t, r
<1> QED
  BY <1>1, <1>2, <1>3, <1>5, <1>11, <1>12, <1>13, <1>14, <1>15, QuietKeeps

\* Calls that leave the readable streams alone, or set flags of one.
LEMMA SameScript ==
  ASSUME SourceInv, Calls, NEW s \in Readables, NEW q, Same(q, rd[s]), Set(s, q),
         NEW frames \in Seq(Plain), ThenScript(frames),
         NEW t \in Seq(Plain), ticks' = ticks \o t,
         UNCHANGED <<later, source, in, out, ends>>
  PROVE  SourceInv' /\ ChannelStep
<1>1. q \in ReadState /\ q.buffer = rd[s].buffer /\ q.ended = rd[s].ended
      /\ (s = "src" /\ (q.endEmitted \/ q.endPending) => Spent)
  BY DEF Same, SourceInv, TellsInv
<1>2. frames \in Seq(Allowed) /\ t \in Seq(Allowed)
  BY Unmoved
<1> QED
  BY <1>1, <1>2, FlagsScript

LEMMA OnDataKeeps ==
  ASSUME SourceInv, NEW s \in Readables, OnData(s)
  PROVE  SourceInv' /\ ChannelStep
<1>1. /\ Calls /\ UNCHANGED <<ticks, later, source, in, out, ends>>
      /\ \/ Set(s, Resumed(rd[s])) /\ ThenScript(ResumeFrames(s, rd[s]))
         \/ UNCHANGED rd /\ ThenScript(<< >>)
  BY DEF OnData, history
<1>2. rd[s] \in ReadState
  BY Typed
<1>3. Same(rd[s], rd[s]) /\ Same(Resumed(rd[s]), rd[s]) /\ ResumeFrames(s, rd[s]) \in Seq(Plain)
  BY <1>2, FlagsAreSame, PartFrames
<1> QED
  BY <1>1, <1>3, SameScript, Unmoved

LEMMA ResumeKeeps ==
  ASSUME SourceInv, NEW s \in Readables, Resume(s)
  PROVE  SourceInv' /\ ChannelStep
<1>1. /\ Calls /\ UNCHANGED <<ticks, later, source, in, out, ends>>
      /\ Set(s, Resumed(rd[s])) /\ ThenScript(ResumeFrames(s, rd[s]))
  BY DEF Resume, history
<1>2. rd[s] \in ReadState
  BY Typed
<1>3. Same(Resumed(rd[s]), rd[s]) /\ ResumeFrames(s, rd[s]) \in Seq(Plain)
  BY <1>2, FlagsAreSame, PartFrames
<1> QED
  BY <1>1, <1>3, SameScript, Unmoved

LEMMA PauseKeeps ==
  ASSUME SourceInv, NEW s \in Readables, Pause(s)
  PROVE  SourceInv' /\ ChannelStep
<1> DEFINE q == [rd[s] EXCEPT !.flowing = "no"]
<1>1. Calls /\ Set(s, q) /\ ThenScript(<< >>) /\ UNCHANGED <<ticks, later, source, in, out, ends>>
  BY DEF Pause, history
<1>2. rd[s] \in ReadState
  BY Typed
<1>3. Same(q, rd[s])
  BY <1>2, FlagsAreSame
<1> HIDE DEF q
<1> QED
  BY <1>1, <1>3, SameScript, Unmoved

LEMMA PipesKeep ==
  ASSUME SourceInv, NEW s \in Readables, Unpipe(s) \/ Destroy(s)
  PROVE  SourceInv' /\ ChannelStep
<1>1. Calls /\ ThenScript(<< >>) /\ UNCHANGED <<rd, ticks, later, source, in, out, ends>>
  BY DEF Unpipe, Destroy, history
<1>2. Same(rd[s], rd[s])
  BY Typed, FlagsAreSame
<1> QED
  BY <1>1, <1>2, SameScript, Unmoved

LEMMA OnReadableKeeps ==
  ASSUME SourceInv, NEW s \in Readables, OnReadable(s)
  PROVE  SourceInv' /\ ChannelStep
<1> DEFINE q == [rd[s] EXCEPT !.readableScheduled = TRUE]
<1>1. /\ Calls /\ ThenScript(<< >>) /\ UNCHANGED <<later, source, in, out, ends>>
      /\ UNCHANGED rd \/ Set(s, q)
      /\ \/ UNCHANGED ticks
         \/ ticks' = Append(ticks, Frame("readable", s))
         \/ ticks' = Append(ticks, Frame("first", s))
  BY DEF OnReadable, history
<1>2. Same(rd[s], rd[s]) /\ Same(q, rd[s])
  BY Typed, FlagsAreSame
<1>3. UNCHANGED rd => Set(s, rd[s])
  BY Unmoved
<1>4. \E t \in Seq(Plain) : ticks' = ticks \o t
  <2>1. ticks \in Seq(Frames) /\ Frame("readable", s) \in Frames /\ Frame("first", s) \in Frames
    BY PlainFrames DEF SourceInv, StreamsTypes, Plain
  <2>2. /\ Append(ticks, Frame("readable", s)) = ticks \o <<Frame("readable", s)>>
        /\ Append(ticks, Frame("first", s)) = ticks \o <<Frame("first", s)>>
    BY <2>1
  <2>3. <<Frame("readable", s)>> \in Seq(Plain) /\ <<Frame("first", s)>> \in Seq(Plain)
    BY PlainFrames
  <2> QED
    BY <1>1, <2>2, <2>3, Unmoved
<1>5. PICK t \in Seq(Plain) : ticks' = ticks \o t
  BY <1>4
<1> HIDE DEF q
<1> QED
  BY <1>1, <1>2, <1>3, <1>5, SameScript, Unmoved

LEMMA ReadKeeps ==
  ASSUME SourceInv, NEW s \in Readables, Read(s)
  PROVE  SourceInv' /\ ChannelStep
<1> DEFINE asks == MayAsk(rd[s])
           q == [rd[s] EXCEPT !.reading = @ \/ asks]
           frames == (IF asks THEN <<Frame("pull", s)>> ELSE << >>) \o <<Frame("readRest", s)>>
<1>1. Calls /\ Set(s, q) /\ ThenScript(frames) /\ UNCHANGED <<ticks, later, source, in, out, ends>>
  BY DEF Read, history
<1>2. rd[s] \in ReadState
  BY Typed
<1>3. q = [rd[s] EXCEPT !.reading = rd[s].reading \/ asks] /\ rd[s].reading \in BOOLEAN
  BY <1>2 DEF ReadState
<1>4. frames \in Seq(Plain)
  BY PlainFrames
<1> HIDE DEF asks, frames
<1>5. Same(q, rd[s])
  <2>1. (rd[s].reading \/ asks) \in BOOLEAN
    OBVIOUS
  <2> QED
    BY <1>2, <1>3, <2>1, FlagsAreSame
<1> HIDE DEF q
<1> QED
  BY <1>1, <1>4, <1>5, SameScript, Unmoved

LEMMA HookedIs ==
  ASSUME SourceInv, NEW s \in Readables
  PROVE  /\ Hooked(rd[s]) \in ReadState
         /\ Hooked(rd[s]).buffer = rd[s].buffer /\ Hooked(rd[s]).ended = rd[s].ended
         /\ s = "src" /\ (Hooked(rd[s]).endEmitted \/ Hooked(rd[s]).endPending) => Spent
         /\ HookLater(s, rd[s]) \subseteq Allowed
<1> DEFINE r == rd[s]
           q == [r EXCEPT !.endPending = FALSE, !.endEmitted = TRUE]
<1>1. r \in ReadState
  BY Typed
<1>2. s = "src" /\ (r.endEmitted \/ r.endPending) => Spent
  BY DEF SourceInv, TellsInv
<1>3. Frame("end", s) \in Frames /\ (s # "src" => Frame("end", s) \in Allowed)
  BY PlainFrames, PlainIsAllowed
<1>4. r.endPending => Frame("end", s) \in Allowed
  <2>1. ~Gives(Frame("end", s))
    BY DEF Gives, Frame
  <2> QED
    BY <1>2, <1>3, <2>1 DEF Allowed
<1> HIDE DEF r
<1>5. q \in ReadState /\ q.buffer = r.buffer /\ q.ended = r.ended
  BY <1>1 DEF ReadState
<1> HIDE DEF q
<1>6. (Hooked(r) = q /\ r.endPending) \/ Hooked(r) = r
  BY DEF Hooked, q
<1>7. HookLater(s, r) \subseteq Allowed
  BY <1>4 DEF HookLater
<1> QED
  BY <1>1, <1>2, <1>5, <1>6, <1>7 DEF r

LEMMA OnEndKeeps ==
  ASSUME SourceInv, NEW s \in Readables, OnEnd(s)
  PROVE  SourceInv' /\ ChannelStep
<1>1. /\ Calls /\ Set(s, Hooked(rd[s])) /\ later' = later \cup HookLater(s, rd[s])
      /\ ThenScript(<< >>) /\ UNCHANGED <<ticks, source, in, out, ends>>
  BY DEF OnEnd, history
<1>2. later' \subseteq later \cup Allowed
  BY <1>1, HookedIs
<1> QED
  BY <1>1, <1>2, HookedIs, FlagsScript, Unmoved

LEMMA PipeKeeps ==
  ASSUME SourceInv, NEW s \in Readables, Pipe(s)
  PROVE  SourceInv' /\ ChannelStep
<1> DEFINE h == Hooked(rd[s])
           q == Resumed(h)
           frames == ResumeFrames(s, rd[s])
<1>1. /\ Calls /\ Set(s, q) /\ later' = later \cup HookLater(s, rd[s])
      /\ ThenScript(frames) /\ UNCHANGED <<ticks, source, in, out, ends>>
  BY DEF Pipe, history
<1>2. later' \subseteq later \cup Allowed
  BY <1>1, HookedIs
<1>3. frames \in Seq(Allowed)
  BY PartFrames, Unmoved
<1>4. /\ h \in ReadState /\ h.buffer = rd[s].buffer /\ h.ended = rd[s].ended
      /\ s = "src" /\ (h.endEmitted \/ h.endPending) => Spent
  BY HookedIs
<1> HIDE DEF h, frames
<1>5. Same(q, h)
  BY <1>4, FlagsAreSame
<1> HIDE DEF q
<1>6. q \in ReadState /\ q.buffer = rd[s].buffer /\ q.ended = rd[s].ended
      /\ (s = "src" /\ (q.endEmitted \/ q.endPending) => Spent)
  BY <1>4, <1>5 DEF Same
<1> QED
  BY <1>1, <1>2, <1>3, <1>6, FlagsScript, Unmoved

LEMMA ScriptKeeps ==
  ASSUME SourceInv, Script
  PROVE  SourceInv' /\ ChannelStep
<1> SUFFICES ASSUME NEW s \in Readables,
                    \/ OnData(s) \/ OnEnd(s) \/ OnReadable(s) \/ Resume(s) \/ Pause(s)
                    \/ Read(s) \/ Pipe(s) \/ Unpipe(s) \/ Destroy(s)
             PROVE  SourceInv' /\ ChannelStep
  BY DEF Script
<1> QED
  BY OnDataKeeps, OnEndKeeps, OnReadableKeeps, ResumeKeeps, PauseKeeps, ReadKeeps, PipeKeeps, PipesKeep

----------------------------------------------------------------------------
(* The source hands over *)
LEMMA SourcePrefix ==
  ASSUME NEW a, NEW b
  PROVE  Source!IsPrefix(a, b) <=> IsPrefix(a, b)
BY DEF Source!IsPrefix, IsPrefix

LEMMA PushEndKeeps ==
  ASSUME SourceInv, PushEnd
  PROVE  SourceInv' /\ ChannelStep
<1> DEFINE s == Me
           r1 == [rd[s] EXCEPT !.ended = TRUE]
           r == Acknowledged(r1)
           t == SchedulesReadable(s, r)
           q2 == [r EXCEPT !.readableScheduled = @ \/ t # << >>]
<1>1. /\ stack # << >> /\ Head(stack).f = "push" /\ Head(stack).c = Null
      /\ \/ Set(s, InFlow(r)) /\ Then(EndFrames(s, r)) /\ UNCHANGED ticks
         \/ Set(s, q2) /\ ticks' = ticks \o t /\ Then(<< >>)
      /\ UNCHANGED <<later, source, in, out, ends>>
  BY DEF PushEnd, Running, history
<1>2. s \in Readables /\ rd[s] \in ReadState
  BY <1>1, RunsOn
<1>3. /\ r1 \in ReadState /\ r1.buffer = rd[s].buffer /\ r1.ended
      /\ r1.endEmitted = rd[s].endEmitted /\ r1.endPending = rd[s].endPending
  BY <1>2 DEF ReadState
<1>4. EndFrames(s, r) \in Seq(Plain) /\ t \in Seq(Plain)
  BY <1>2, PartFrames
<1>5. << >> \in Seq(Plain) /\ ticks = ticks \o << >>
  BY Unmoved
<1> HIDE DEF r1
<1>6. Same(r, r1)
  BY <1>3, FlagsAreSame
<1> HIDE DEF r, t
<1>7. r \in ReadState /\ r.readableScheduled \in BOOLEAN
  BY <1>6 DEF Same, ReadState
<1>8. Same(InFlow(r), r) /\ Same(q2, r)
  <2>1. q2 = [r EXCEPT !.readableScheduled = r.readableScheduled \/ t # << >>]
    BY <1>7 DEF ReadState
  <2> HIDE DEF q2
  <2> QED
    BY <1>7, <2>1, FlagsAreSame
<1>9. Same(InFlow(r), r1) /\ Same(q2, r1)
  BY <1>6, <1>8, SameIsTransitive
<1> HIDE DEF q2
<1>10. \E q, frames, x : /\ Same(q, r1) /\ Set(s, q) /\ frames \in Seq(Plain) /\ Then(frames)
                         /\ x \in Seq(Plain) /\ ticks' = ticks \o x
  BY <1>1, <1>4, <1>5, <1>9
<1>11. PICK q, frames, x : /\ Same(q, r1) /\ Set(s, q) /\ frames \in Seq(Plain) /\ Then(frames)
                           /\ x \in Seq(Plain) /\ ticks' = ticks \o x
  BY <1>10
<1>12. /\ q \in ReadState /\ q.buffer = rd[s].buffer /\ q.ended
       /\ q.endEmitted = rd[s].endEmitted /\ q.endPending = rd[s].endPending
  BY <1>3, <1>11 DEF Same
<1>13. ticks' \in Seq(Frames) /\ \A y \in Range(ticks') : y \in Range(ticks) \cup Plain
  <2>1. Plain \subseteq Frames
    BY DEF Plain
  <2> QED
    BY <1>11, <2>1, TicksGrow
<1>14. /\ in' \in [Readables -> Seq(Int)] /\ out' \in [Readables -> Seq(Int)]
       /\ ends' \in [Readables -> Nat] /\ source' \in States
  BY <1>1, Typed DEF SourceInv, StreamsTypes
<1>15. frames \in Seq(Allowed) /\ stack' = frames \o Tail(stack)
  BY <1>11, Unmoved DEF Then
<1>16. CASE s # "src"
  <2>1. \A y \in Range(ticks') : y \in Range(ticks) \cup Allowed
    BY <1>13, PlainIsAllowed
  <2> HIDE DEF s
  <2> QED
    BY <1>1, <1>2, <1>11, <1>12, <1>13, <1>14, <1>15, <1>16, <2>1, StackIs, QuietKeeps
<1>17. CASE s = "src"
  <2>1. /\ ~Src.ended /\ source.over
        /\ \A i \in DOMAIN Tail(stack) : ~Gives(Tail(stack)[i])
        /\ OkRest(Tail(stack), Src, source)
    BY <1>1, <1>17, StackIs DEF Gives, Me
  <2>2. rd' = [rd EXCEPT !["src"] = q] /\ Src' = q
    BY <1>11, <1>17, <1>2 DEF Set, Src, SourceInv, StreamsTypes
  <2>3. OkRest(Tail(stack), Src', source')
    BY <2>1 DEF OkRest
  <2>4. ~Spent /\ ~Src.endEmitted /\ ~Src.endPending /\ ~(ends["src"] > 0)
    BY <2>1 DEF Spent, Src, SourceInv, TellsInv
  <2>5. ~Src'.endEmitted /\ ~Src'.endPending /\ ~(ends'["src"] > 0)
    BY <1>1, <1>12, <1>17, <2>2, <2>4 DEF Src
  <2>6. in'["src"] = out'["src"] \o Src'.buffer
    BY <1>1, <1>12, <1>17, <2>2 DEF SourceInv, Src
  <2>7. frames \in Seq(Allowed') /\ \A y \in Range(ticks') : y \in Range(ticks) \cup Allowed'
    BY <1>11, <1>13, PlainIsAllowed
  <2>8. source'.over
    BY <1>1, <2>1
  <2>9. SourceInv'
    BY <1>1, <1>2, <1>12, <1>13, <1>14, <1>15, <1>17, <2>2, <2>3, <2>4, <2>5, <2>6, <2>7, <2>8, CalmKeeps
  <2>10. Source!Close
    BY <1>1, <1>12, <2>1, <2>2 DEF Source!Close, Src
  <2> QED
    BY <2>9, <2>10 DEF ChannelStep
<1> QED
  BY <1>16, <1>17

LEMMA PushChunkKeeps ==
  ASSUME SourceInv, PushChunk
  PROVE  SourceInv' /\ ChannelStep
<1> DEFINE s == Me
           c == Head(stack).c
           r1 == [rd[s] EXCEPT !.buffer = Append(@, c)]
           r == Acknowledged(r1)
           t == SchedulesReadable(s, r)
           q2 == [r EXCEPT !.readableScheduled = @ \/ t # << >>]
<1>1. /\ stack # << >> /\ Head(stack).f = "push" /\ c > 0
      /\ \/ Set(s, InFlow(r)) /\ UNCHANGED ticks /\ Then(FlowFrames(s, r) \o <<Frame("refill", s)>>)
         \/ Set(s, q2) /\ ticks' = ticks \o t /\ Then(<<Frame("refill", s)>>)
      /\ in' = [in EXCEPT ![s] = Append(@, c)]
      /\ UNCHANGED <<later, source, out, ends>>
  BY DEF PushChunk, Running
<1>2. s \in Readables /\ rd[s] \in ReadState /\ c \in Int
  BY <1>1, RunsOn
<1>3. /\ r1 \in ReadState /\ r1.buffer = Append(rd[s].buffer, c) /\ r1.ended = rd[s].ended
      /\ r1.endEmitted = rd[s].endEmitted /\ r1.endPending = rd[s].endPending
  <2> DEFINE b == Append(rd[s].buffer, c)
  <2>1. b \in Seq(Int) /\ r1 = [rd[s] EXCEPT !.buffer = b]
    BY <1>2 DEF ReadState
  <2> HIDE DEF b, r1
  <2>2. /\ r1 \in ReadState /\ r1.buffer = b /\ r1.ended = rd[s].ended
        /\ r1.endEmitted = rd[s].endEmitted /\ r1.endPending = rd[s].endPending
    BY <1>2, <2>1 DEF ReadState
  <2> QED
    BY <2>2 DEF b
<1>4. /\ t \in Seq(Plain) /\ <<Frame("refill", s)>> \in Seq(Plain)
      /\ FlowFrames(s, r) \o <<Frame("refill", s)>> \in Seq(Plain)
  <2>1. FlowFrames(s, r) \in Seq(Plain) /\ t \in Seq(Plain)
    BY <1>2, PartFrames
  <2>2. <<Frame("refill", s)>> \in Seq(Plain)
    BY <1>2, PlainFrames
  <2> QED
    BY <2>1, <2>2
<1>5. << >> \in Seq(Plain) /\ ticks = ticks \o << >>
  BY Unmoved
<1> HIDE DEF r1
<1>6. Same(r, r1)
  BY <1>3, FlagsAreSame
<1> HIDE DEF r, t
<1>7. r \in ReadState /\ r.readableScheduled \in BOOLEAN
  BY <1>6 DEF Same, ReadState
<1>8. Same(InFlow(r), r) /\ Same(q2, r)
  <2>1. q2 = [r EXCEPT !.readableScheduled = r.readableScheduled \/ t # << >>]
    BY <1>7 DEF ReadState
  <2> HIDE DEF q2
  <2> QED
    BY <1>7, <2>1, FlagsAreSame
<1>9. Same(InFlow(r), r1) /\ Same(q2, r1)
  BY <1>6, <1>8, SameIsTransitive
<1> HIDE DEF q2
<1>10. \E q, frames, x : /\ Same(q, r1) /\ Set(s, q) /\ frames \in Seq(Plain) /\ Then(frames)
                         /\ x \in Seq(Plain) /\ ticks' = ticks \o x
  BY <1>1, <1>4, <1>5, <1>9
<1>11. PICK q, frames, x : /\ Same(q, r1) /\ Set(s, q) /\ frames \in Seq(Plain) /\ Then(frames)
                           /\ x \in Seq(Plain) /\ ticks' = ticks \o x
  BY <1>10
<1>12. /\ q \in ReadState /\ q.buffer = Append(rd[s].buffer, c) /\ q.ended = rd[s].ended
       /\ q.endEmitted = rd[s].endEmitted /\ q.endPending = rd[s].endPending
  BY <1>3, <1>11 DEF Same
<1>13. ticks' \in Seq(Frames) /\ \A y \in Range(ticks') : y \in Range(ticks) \cup Plain
  <2>1. Plain \subseteq Frames
    BY DEF Plain
  <2> QED
    BY <1>11, <2>1, TicksGrow
<1>14. /\ in' \in [Readables -> Seq(Int)] /\ out' \in [Readables -> Seq(Int)]
       /\ ends' \in [Readables -> Nat] /\ source' \in States
       /\ in'[s] = Append(in[s], c) /\ (s # "src" => in'["src"] = in["src"])
  BY <1>1, <1>2, Typed DEF SourceInv, StreamsTypes, Readables
<1>15. frames \in Seq(Allowed) /\ stack' = frames \o Tail(stack)
  BY <1>11, Unmoved DEF Then
<1>16. CASE s # "src"
  <2>1. \A y \in Range(ticks') : y \in Range(ticks) \cup Allowed
    BY <1>13, PlainIsAllowed
  <2> HIDE DEF s, c
  <2> QED
    BY <1>1, <1>2, <1>11, <1>12, <1>13, <1>14, <1>15, <1>16, <2>1, StackIs, QuietKeeps
<1>17. CASE s = "src"
  <2>1. ~Src.ended /\ OkRest(Tail(stack), Src, source)
    BY <1>1, <1>17, StackIs DEF Gives, Me
  <2>2. rd' = [rd EXCEPT !["src"] = q] /\ Src' = q
    BY <1>11, <1>17, <1>2 DEF Set, Src, SourceInv, StreamsTypes
  <2>3. Src'.buffer = Append(Src.buffer, c) /\ ~Src'.ended
    BY <1>12, <1>17, <2>1, <2>2 DEF Src
  <2>4. OkRest(Tail(stack), Src', source')
    BY <1>1, <2>1, <2>3 DEF OkRest
  <2>5. ~Spent /\ ~Src.endEmitted /\ ~Src.endPending /\ ~(ends["src"] > 0)
    BY <2>1 DEF Spent, Src, SourceInv, TellsInv
  <2>6. ~Src'.endEmitted /\ ~Src'.endPending /\ ~(ends'["src"] > 0)
    BY <1>1, <1>12, <1>17, <2>2, <2>5 DEF Src
  <2>7. in'["src"] = out'["src"] \o Src'.buffer
    <3>1. in["src"] = out["src"] \o Src.buffer /\ Src.buffer \in Seq(Int) /\ out["src"] \in Seq(Int)
      BY Typed DEF SourceInv, Src, ReadState
    <3> DEFINE a == out["src"]
               b == Src.buffer
    <3> HIDE DEF c, s, Src
    <3>3. a \in Seq(Int) /\ b \in Seq(Int) /\ c \in Int
      BY <1>2, <3>1
    <3> HIDE DEF a, b
    <3>4. Append(a \o b, c) = a \o Append(b, c)
      BY <3>3, AppendMoves
    <3>2. Append(out["src"] \o Src.buffer, c) = out["src"] \o Append(Src.buffer, c)
      BY <3>4 DEF a, b
    <3> QED
      BY <1>1, <1>14, <1>17, <2>3, <3>1, <3>2
  <2>8. frames \in Seq(Allowed') /\ \A y \in Range(ticks') : y \in Range(ticks) \cup Allowed'
    BY <1>11, <1>13, PlainIsAllowed
  <2>9. SourceInv'
    BY <1>1, <1>2, <1>12, <1>13, <1>14, <1>15, <1>17, <2>2, <2>3, <2>4, <2>5, <2>6, <2>7, <2>8, CalmKeeps
  <2>10. Source!Put
    <3>1. in["src"] \in Seq(Int) /\ in'["src"] = Append(in["src"], c)
      BY <1>14, <1>17, Typed
    <3> HIDE DEF c
    <3>2. IsPrefix(in["src"], in'["src"]) /\ in'["src"] # in["src"]
      BY <1>2, <3>1, PrefixOfAppend
    <3>3. ~rd["src"].ended /\ ~rd'["src"].ended /\ rd'["src"].ended \in BOOLEAN
      BY <1>12, <1>17, <2>1, <2>2 DEF Src, ReadState
    <3>4. UNCHANGED <<out["src"], ends["src"] > 0>>
      BY <1>1
    <3> QED
      BY <3>2, <3>3, <3>4, SourcePrefix DEF Source!Put
  <2> QED
    BY <2>9, <2>10 DEF ChannelStep
<1> QED
  BY <1>16, <1>17

----------------------------------------------------------------------------
(* The reader takes *)

\* One chunk leaves the source.
LEMMA LeavesInOrder ==
  ASSUME SourceInv, Src.buffer # << >>, Src'.buffer = Tail(Src.buffer),
         out'["src"] = Append(out["src"], Head(Src.buffer)),
         UNCHANGED <<in, ends>>, Src'.ended = Src.ended
  PROVE  in'["src"] = out'["src"] \o Src'.buffer /\ Source!Deliver
<1>1. /\ Src.buffer \in Seq(Int) /\ out["src"] \in Seq(Int) /\ in["src"] \in Seq(Int)
      /\ in["src"] = out["src"] \o Src.buffer
  BY Typed DEF SourceInv, Src, ReadState
<1>2. ~(ends["src"] > 0)
  BY DEF SourceInv, TellsInv, Spent, Src
<1>3. rd'["src"].ended = rd["src"].ended
  BY DEF Src
<1> HIDE DEF Src
<1>4. in["src"] = out'["src"] \o Tail(Src.buffer)
  <2>1. out["src"] \o Src.buffer = Append(out["src"], Head(Src.buffer)) \o Tail(Src.buffer)
    BY <1>1, HeadMoves, Zenon
  <2> QED
    BY <1>1, <2>1
<1>5. Head(Src.buffer) \in Int /\ Tail(Src.buffer) \in Seq(Int)
  BY <1>1
<1>6. IsPrefix(out["src"], out'["src"]) /\ out'["src"] # out["src"] /\ out'["src"] \in Seq(Int)
  BY <1>1, <1>5, PrefixOfAppend
<1>7. IsPrefix(out'["src"], in["src"])
  BY <1>4, <1>5, <1>6, PrefixOfConcat
<1>8. Source!Deliver
  BY <1>2, <1>3, <1>6, <1>7, SourcePrefix DEF Source!Deliver
<1> QED
  BY <1>4, <1>8

LEMMA TakeKeeps ==
  ASSUME SourceInv, Take
  PROVE  SourceInv' /\ ChannelStep
<1> DEFINE s == Me
           q == [rd[s] EXCEPT !.buffer = Tail(@)]
           c == Head(rd[s].buffer)
<1>1. /\ stack # << >> /\ Head(stack).f = "take" /\ UNCHANGED <<ticks, later, source, in, ends>>
      /\ \/ Then(<<Frame("leave", s)>>) /\ UNCHANGED <<rd, out>>
         \/ /\ rd[s].buffer # << >> /\ Set(s, q) /\ out' = [out EXCEPT ![s] = Append(@, c)]
            /\ \E called \in Listeners(s, c) : Then(called \o <<Frame("loop", s)>>)
  BY DEF Take, Running
<1>2. s \in Readables /\ rd[s] \in ReadState
  BY <1>1, RunsOn
<1>3. CASE Then(<<Frame("leave", s)>>) /\ UNCHANGED <<rd, out>>
  <2>1. <<Frame("leave", s)>> \in Seq(Plain)
    BY <1>2, PlainFrames
  <2> QED
    BY <1>1, <1>3, <2>1, ThenKeeps
<1>4. CASE /\ rd[s].buffer # << >> /\ Set(s, q) /\ out' = [out EXCEPT ![s] = Append(@, c)]
           /\ \E called \in Listeners(s, c) : Then(called \o <<Frame("loop", s)>>)
  <2>1. c \in Int /\ Tail(rd[s].buffer) \in Seq(Int)
    BY <1>2, <1>4 DEF ReadState
  <2>2. /\ q \in ReadState /\ q.buffer = Tail(rd[s].buffer) /\ q.ended = rd[s].ended
        /\ q.endEmitted = rd[s].endEmitted /\ q.endPending = rd[s].endPending
    BY <1>2, <2>1 DEF ReadState
  <2>3. \A called \in Listeners(s, c) : called \o <<Frame("loop", s)>> \in Seq(Plain)
    <3>1. Dest(s) \in Writables
      BY DEF Dest, Writables
    <3>2. Chunk("write", Dest(s), c) \in Plain /\ User \in Plain /\ Frame("loop", s) \in Plain
      BY <1>2, <2>1, <3>1, PlainFrames
    <3> HIDE DEF s, c
    <3> QED
      BY <3>2 DEF Listeners
  <2>4. PICK called \in Listeners(s, c) : Then(called \o <<Frame("loop", s)>>)
    BY <1>4
  <2> DEFINE frames == called \o <<Frame("loop", s)>>
  <2>5. frames \in Seq(Plain) /\ stack' = frames \o Tail(stack)
    BY <2>3, <2>4 DEF Then
  <2>6. frames \in Seq(Allowed) /\ frames \in Seq(Allowed')
    BY <2>5, PlainIsAllowed
  <2> HIDE DEF frames, q
  <2>7. ticks' \in Seq(Frames) /\ \A y \in Range(ticks') : y \in Range(ticks)
    BY <1>1 DEF SourceInv, StreamsTypes
  <2>8. /\ in' \in [Readables -> Seq(Int)] /\ out' \in [Readables -> Seq(Int)]
        /\ ends' \in [Readables -> Nat] /\ source' \in States
        /\ out'[s] = Append(out[s], c) /\ (s # "src" => out'["src"] = out["src"])
    <3>1. out \in [Readables -> Seq(Int)] /\ in \in [Readables -> Seq(Int)]
          /\ ends \in [Readables -> Nat] /\ source \in States
      BY Typed DEF SourceInv, StreamsTypes
    <3>2. out' = [out EXCEPT ![s] = Append(@, c)]
      BY <1>4
    <3> HIDE DEF s, c
    <3>3. Append(out[s], c) \in Seq(Int)
      BY <1>2, <2>1, <3>1
    <3>4. out' \in [Readables -> Seq(Int)] /\ out'[s] = Append(out[s], c)
          /\ (s # "src" => out'["src"] = out["src"])
      BY <1>2, <3>1, <3>2, <3>3 DEF Readables
    <3> QED
      BY <1>1, <3>1, <3>4
  <2>9. OkRest(Tail(stack), Src, source)
    BY <1>1, StackIs
  <2>10. CASE s # "src"
    BY <1>1, <1>2, <1>4, <2>2, <2>5, <2>6, <2>7, <2>8, <2>9, <2>10, QuietKeeps
  <2>11. CASE s = "src"
    <3>1. rd' = [rd EXCEPT !["src"] = q] /\ Src' = q
      BY <1>2, <1>4, <2>11 DEF Set, Src, SourceInv, StreamsTypes
    <3>2. /\ Src.buffer # << >> /\ Src'.buffer = Tail(Src.buffer) /\ Src'.ended = Src.ended
          /\ Src'.endEmitted = Src.endEmitted /\ Src'.endPending = Src.endPending
          /\ out'["src"] = Append(out["src"], Head(Src.buffer))
      BY <1>4, <2>2, <2>8, <2>11, <3>1 DEF Src
    <3>3. ~Spent /\ ~Src.endEmitted /\ ~Src.endPending /\ ~(ends["src"] > 0)
      BY <3>2 DEF Spent, Src, SourceInv, TellsInv
    <3>4. in'["src"] = out'["src"] \o Src'.buffer /\ Source!Deliver
      BY <1>1, <3>2, LeavesInOrder
    <3>5. ~Src'.endEmitted /\ ~Src'.endPending /\ ~(ends'["src"] > 0)
      BY <1>1, <3>2, <3>3
    <3>6. OkRest(Tail(stack), Src', source')
      BY <1>1, <2>9, <3>2 DEF OkRest
    <3>7. Src'.ended => source'.over
      BY <1>1, <3>2 DEF Src, SourceInv, GivesInv
    <3>8. SourceInv'
      BY <1>1, <1>2, <2>2, <2>5, <2>6, <2>7, <2>8, <2>11, <3>1, <3>3, <3>4, <3>5, <3>6, <3>7, CalmKeeps
    <3> QED
      BY <3>4, <3>8 DEF ChannelStep
  <2> QED
    BY <2>10, <2>11
<1> QED
  BY <1>1, <1>3, <1>4

LEMMA ReadRestKeeps ==
  ASSUME SourceInv, ReadRest
  PROVE  SourceInv' /\ ChannelStep
<1> DEFINE s == Me
           r == rd[s]
           b == IF r.buffer = << >> THEN r.buffer ELSE Tail(r.buffer)
           left == [r EXCEPT !.buffer = b]
           over == Over(left)
           heardOf == HasEndListener(s)
           q == [left EXCEPT !.endEmitted = @ \/ (over /\ heardOf),
                             !.endPending = @ \/ (over /\ ~heardOf)]
           c == Head(r.buffer)
<1>1. /\ stack # << >> /\ Head(stack).f = "readRest" /\ Set(s, q) /\ Then(<< >>)
      /\ ticks' = IF over /\ heardOf THEN Append(ticks, Frame("end", s)) ELSE ticks
      /\ out' = [out EXCEPT ![s] = IF r.buffer = << >> THEN @ ELSE Append(@, c)]
      /\ UNCHANGED <<later, source, in, ends>>
  BY DEF ReadRest, Running
<1>2. s \in Readables /\ r \in ReadState
  BY <1>1, RunsOn
<1>3. b \in Seq(Int) /\ r.buffer \in Seq(Int) /\ (r.buffer # << >> => c \in Int /\ b = Tail(r.buffer))
      /\ (r.buffer = << >> => b = << >>)
  BY <1>2 DEF ReadState
<1>4. /\ out' \in [Readables -> Seq(Int)] /\ (s # "src" => out'["src"] = out["src"])
      /\ out'[s] = IF r.buffer = << >> THEN out[s] ELSE Append(out[s], c)
  <2>1. out \in [Readables -> Seq(Int)]
    BY DEF SourceInv, StreamsTypes
  <2>2. out' = [out EXCEPT ![s] = IF r.buffer = << >> THEN out[s] ELSE Append(out[s], c)]
    BY <1>1
  <2> HIDE DEF s, r, c, b
  <2>3. (IF r.buffer = << >> THEN out[s] ELSE Append(out[s], c)) \in Seq(Int)
    BY <1>2, <1>3, <2>1
  <2> QED
    BY <1>2, <2>1, <2>2, <2>3 DEF Readables
<1> HIDE DEF b
<1>5. /\ left \in ReadState /\ left.buffer = b /\ left.ended = r.ended
      /\ left.endEmitted = r.endEmitted /\ left.endPending = r.endPending
  BY <1>2, <1>3 DEF ReadState
<1> HIDE DEF left, heardOf
<1>6. over \in BOOLEAN /\ (over => left.ended /\ left.buffer = << >>)
  BY DEF Over
<1> HIDE DEF over
<1>7. /\ q \in ReadState /\ q.buffer = b /\ q.ended = r.ended
      /\ q.endEmitted \/ q.endPending => r.endEmitted \/ r.endPending \/ over
  BY <1>5 DEF ReadState
<1> HIDE DEF q
<1>8. over => q.ended /\ q.buffer = << >>
  BY <1>5, <1>6, <1>7
<1>9. rd' = [rd EXCEPT ![s] = q] /\ Src' = IF s = "src" THEN q ELSE Src
  BY <1>1, <1>2 DEF Set, Src, SourceInv, StreamsTypes
<1>10. s = "src" /\ over => Spent'
  BY <1>8, <1>9 DEF Spent, Src
<1>11. ticks' \in Seq(Frames) /\ \A y \in Range(ticks') : y \in Range(ticks) \cup Allowed'
  <2>1. Frame("end", s) \in Frames /\ ~Gives(Frame("end", s))
        /\ (s # "src" => Frame("end", s) \in Plain)
    BY <1>2, PlainFrames DEF Gives, Frame
  <2>2. CASE over /\ heardOf
    <3>1. Frame("end", s) \in Allowed'
      BY <1>10, <2>1, <2>2, PlainIsAllowed DEF Allowed
    <3> DEFINE S == {Frame("end", s)}
    <3>2. S \subseteq Frames /\ <<Frame("end", s)>> \in Seq(S)
      BY <2>1
    <3>3. Append(ticks, Frame("end", s)) = ticks \o <<Frame("end", s)>>
      BY <2>1 DEF SourceInv, StreamsTypes
    <3> HIDE DEF S
    <3>4. ticks' = ticks \o <<Frame("end", s)>>
      BY <1>1, <2>2, <3>3
    <3>5. ticks' \in Seq(Frames) /\ \A y \in Range(ticks') : y \in Range(ticks) \cup S
      BY <3>2, <3>4, TicksGrow
    <3> QED
      BY <3>1, <3>5 DEF S
  <2>3. CASE ~(over /\ heardOf)
    <3>1. UNCHANGED ticks
      BY <1>1, <2>3
    <3> QED
      BY <3>1 DEF SourceInv, StreamsTypes
  <2> QED
    BY <2>2, <2>3
<1>12. stack' = << >> \o Tail(stack) /\ OkRest(Tail(stack), Src, source)
  BY <1>1, StackIs DEF Then
<1>13. /\ in' \in [Readables -> Seq(Int)] /\ ends' \in [Readables -> Nat] /\ source' \in States
  BY <1>1, Typed DEF SourceInv, StreamsTypes
<1>14. << >> \in Seq(Allowed')
  OBVIOUS
<1>15. Src \in ReadState /\ (Src.endEmitted \/ Src.endPending \/ ends["src"] > 0 => Spent)
  BY Typed DEF SourceInv, TellsInv, Src
<1>16. Src.ended => source.over
  BY DEF SourceInv, GivesInv, Src
<1>17. in["src"] = out["src"] \o Src.buffer
  BY DEF SourceInv, Src
<1>18. CASE s # "src"
  <2>1. Src' = Src /\ Spent' = Spent
    BY <1>9, <1>18 DEF Spent, Src
  <2>2. SourceInv'
    BY <1>1, <1>2, <1>4, <1>7, <1>9, <1>11, <1>12, <1>13, <1>14, <1>15, <1>16, <1>17, <1>18, <2>1, CalmKeeps
  <2>3. UNCHANGED <<in["src"], out["src"], rd["src"].ended, ends["src"] > 0>>
    BY <1>1, <1>4, <1>18, <2>1 DEF Src
  <2> QED
    BY <2>2, <2>3 DEF ChannelStep
<1>19. CASE s = "src"
  <2>1. r = Src /\ Src' = q
    BY <1>9, <1>19 DEF Src
  <2> HIDE DEF s, r
  <2>2. Src'.ended = Src.ended /\ Src'.buffer = b /\ (Src.buffer = << >> => b = << >>)
    BY <1>3, <1>7, <2>1
  <2>3. Spent => Spent'
    BY <2>2 DEF Spent, Src
  <2>4. Src'.endEmitted \/ Src'.endPending \/ ends'["src"] > 0 => Spent'
    BY <1>1, <1>7, <1>10, <1>15, <1>19, <2>1, <2>3
  <2>5. OkRest(Tail(stack), Src', source')
    BY <1>1, <1>12, <2>2 DEF OkRest
  <2>6. Src'.ended => source'.over
    BY <1>1, <1>16, <2>2
  <2>7. in'["src"] = out'["src"] \o Src'.buffer /\ ChannelStep
    <3>1. CASE Src.buffer = << >>
      <4>1. Src'.buffer = Src.buffer /\ UNCHANGED out["src"]
        BY <1>4, <1>19, <2>1, <2>2, <3>1
      <4>2. UNCHANGED <<in["src"], out["src"], rd["src"].ended, ends["src"] > 0>>
        BY <1>1, <2>2, <4>1 DEF Src
      <4> QED
        BY <1>1, <1>17, <4>1, <4>2 DEF ChannelStep
    <3>2. CASE Src.buffer # << >>
      <4>1. Src'.buffer = Tail(Src.buffer) /\ out'["src"] = Append(out["src"], Head(Src.buffer))
        BY <1>3, <1>4, <1>19, <2>1, <2>2, <3>2
      <4> QED
        BY <1>1, <2>2, <3>2, <4>1, LeavesInOrder DEF ChannelStep
    <3> QED
      BY <3>1, <3>2
  <2>8. SourceInv'
    BY <1>1, <1>2, <1>4, <1>7, <1>9, <1>11, <1>12, <1>13, <1>14, <2>3, <2>4, <2>5, <2>6, <2>7, CalmKeeps
  <2> QED
    BY <2>7, <2>8
<1> QED
  BY <1>18, <1>19

----------------------------------------------------------------------------
(* The end is told *)
LEMMA LeaveKeeps ==
  ASSUME SourceInv, Leave
  PROVE  SourceInv' /\ ChannelStep
<1> DEFINE s == Me
           r == [rd[s] EXCEPT !.flowingNow = FALSE]
           over == Over(r)
           q1 == [r EXCEPT !.endEmitted = TRUE]
           q2 == [r EXCEPT !.endPending = TRUE]
           q == IF ~over THEN r ELSE IF HasEndListener(s) THEN q1 ELSE q2
           frames == IF over /\ HasEndListener(s) THEN <<Frame("end", s)>> ELSE << >>
<1>1. /\ stack # << >> /\ Head(stack).f = "leave" /\ Set(s, q) /\ Then(frames)
      /\ UNCHANGED <<ticks, later, source, in, out, ends>>
  BY DEF Leave, Running, history
<1>2. s \in Readables /\ rd[s] \in ReadState
  BY <1>1, RunsOn
<1>3. Same(r, rd[s])
  BY <1>2, FlagsAreSame
<1>4. Frame("end", s) \in Frames /\ ~Gives(Frame("end", s)) /\ (s # "src" => Frame("end", s) \in Plain)
  BY <1>2, PlainFrames DEF Gives, Frame
<1> HIDE DEF r
<1>5. over => r.ended /\ r.buffer = << >>
  BY DEF Over
<1>6. s = "src" /\ over => Spent
  BY <1>3, <1>5 DEF Same, Spent
<1> HIDE DEF over
<1>7. q1 \in ReadState /\ q1.buffer = r.buffer /\ q1.ended = r.ended
  BY <1>3 DEF Same, ReadState
<1>8. q2 \in ReadState /\ q2.buffer = r.buffer /\ q2.ended = r.ended
  BY <1>3 DEF Same, ReadState
<1> HIDE DEF q1, q2
<1>9. q \in ReadState /\ q.buffer = r.buffer /\ q.ended = r.ended
  BY <1>3, <1>7, <1>8 DEF Same
<1>10. s = "src" /\ (r.endEmitted \/ r.endPending) => Spent
  BY <1>3 DEF Same, SourceInv, TellsInv
<1>11. s = "src" => q.buffer = Src.buffer /\ q.ended = Src.ended /\ (q.endEmitted \/ q.endPending => Spent)
  BY <1>3, <1>6, <1>9, <1>10 DEF Same, Src
<1>12. frames \in Seq(Allowed)
  <2>1. over => Frame("end", s) \in Allowed
    BY <1>4, <1>6, PlainIsAllowed DEF Allowed
  <2> HIDE DEF s
  <2> QED
    BY <2>1
<1> HIDE DEF q, frames, s
<1>13. /\ in' \in [Readables -> Seq(Int)] /\ out' \in [Readables -> Seq(Int)]
       /\ ends' \in [Readables -> Nat] /\ ticks' \in Seq(Frames)
  BY <1>1 DEF SourceInv, StreamsTypes
<1> QED
  BY <1>1, <1>2, <1>9, <1>11, <1>12, <1>13, StackIs, QuietKeeps DEF Then

LEMMA EmitEndKeeps ==
  ASSUME SourceInv, EmitEnd
  PROVE  SourceInv' /\ ChannelStep
<1> DEFINE s == Me
           toPipe == IF s \in piped
                     THEN <<Frame("close", Dest(s)), Frame("unpipe", s)>> ELSE << >>
           toUser == IF "end" \in heard[s] THEN <<User>> ELSE << >>
<1>1. /\ stack # << >> /\ Head(stack).f = "end" /\ ends' = [ends EXCEPT ![s] = @ + 1]
      /\ Then(toPipe \o toUser) \/ Then(toUser \o toPipe)
      /\ UNCHANGED <<rd, ticks, later, source, in, out>>
  BY DEF EmitEnd, Running, states
<1>2. s \in Readables
  BY <1>1, RunsOn
<1>3. toPipe \in Seq(Plain) /\ toUser \in Seq(Plain)
  <2>1. Dest(s) \in Writables
    BY DEF Dest, Writables
  <2>2. Frame("close", Dest(s)) \in Plain /\ Frame("unpipe", s) \in Plain /\ User \in Plain
    BY <1>2, <2>1, PlainFrames
  <2> HIDE DEF s
  <2> QED
    BY <2>2
<1>4. s = "src" => Spent
  BY <1>1, StackIs DEF Tells, Me
<1> HIDE DEF toPipe, toUser
<1>19. toPipe \o toUser \in Seq(Plain) /\ toUser \o toPipe \in Seq(Plain)
  BY <1>3
<1>5. PICK frames \in Seq(Plain) : stack' = frames \o Tail(stack)
  BY <1>1, <1>19, Zenon DEF Then
<1>6. ends \in [Readables -> Nat] /\ ends' \in [Readables -> Nat] /\ (s # "src" => ends'["src"] = ends["src"])
  BY <1>1, <1>2 DEF SourceInv, StreamsTypes, Readables
<1>7. Src' = Src /\ Spent' = Spent
  BY <1>1 DEF Src, Spent
<1>8. "src" \in Readables /\ Set("src", Src) /\ Src \in ReadState
  BY <1>1, Typed, Unmoved DEF Readables, Src
<1>9. Src.endEmitted \/ Src.endPending \/ ends["src"] > 0 => Spent
  BY DEF SourceInv, TellsInv, Src
<1>10. /\ in' \in [Readables -> Seq(Int)] /\ out' \in [Readables -> Seq(Int)]
       /\ ticks' \in Seq(Frames) /\ source' \in States
  BY <1>1, Typed DEF SourceInv, StreamsTypes
<1>11. OkRest(Tail(stack), Src, source) /\ OkRest(Tail(stack), Src', source')
  BY <1>1, <1>7, StackIs
<1>12. frames \in Seq(Allowed')
  BY <1>5, PlainIsAllowed
<1>13. Src.ended => source.over
  BY DEF SourceInv, GivesInv, Src
<1>14. in["src"] = out["src"] \o Src.buffer
  BY DEF SourceInv, Src
<1>15. rd' = [rd EXCEPT !["src"] = Src]
  BY <1>8 DEF Set
<1>16. Src'.endEmitted \/ Src'.endPending \/ ends'["src"] > 0 => Spent'
  BY <1>4, <1>6, <1>7, <1>9
<1>17. SourceInv'
  BY <1>1, <1>5, <1>6, <1>7, <1>8, <1>10, <1>11, <1>12, <1>13, <1>14, <1>15, <1>16, CalmKeeps
<1>18. ChannelStep
  <2>1. CASE s # "src" \/ ends["src"] > 0
    <3>1. UNCHANGED <<in["src"], out["src"], rd["src"].ended, ends["src"] > 0>>
      BY <1>1, <1>2, <1>6, <2>1
    <3> QED
      BY <3>1 DEF ChannelStep
  <2>2. CASE s = "src" /\ ~(ends["src"] > 0)
    <3>1. ends'["src"] > 0
      BY <1>1, <1>2, <1>6, <2>2
    <3>2. in["src"] = out["src"] /\ rd["src"].ended
      <4>1. Src.buffer = << >> /\ rd["src"].ended
        BY <1>4, <2>2 DEF Spent, Src
      <4>2. in["src"] = out["src"] \o << >> /\ out["src"] \in Seq(Int)
        BY <1>14, <4>1, Typed
      <4> QED
        BY <4>1, <4>2
    <3>3. Source!End
      BY <1>1, <2>2, <3>1, <3>2 DEF Source!End
    <3> QED
      BY <3>3 DEF ChannelStep
  <2> QED
    BY <2>1, <2>2
<1> QED
  BY <1>17, <1>18

----------------------------------------------------------------------------
(* The source answers *)

\* An answer is a chunk, an end, or both.
LEMMA AnswersAre ==
  ASSUME SourceInv, ~source.over, NEW frames \in Answers, Answered(frames)
  PROVE  /\ frames \in Seq(Frames) /\ Len(frames) \in {1, 2}
         /\ \A i \in DOMAIN frames : Gives(frames[i]) /\ ~Tells(frames[i])
         /\ \A i \in DOMAIN frames : frames[i].c = Null => source'.over /\ i = Len(frames)
         /\ \A i \in DOMAIN frames : frames[i].c # Null => i = 1
         /\ source' \in States
<1> DEFINE null == Frame("push", "src")
           next == Chunk("push", "src", source.given + 1)
           none == Chunk("push", "src", Empty)
<1>1. /\ source \in States /\ source.given \in Nat
  BY Typed DEF States
<1>2. /\ null \in Frames /\ Gives(null) /\ ~Tells(null) /\ null.c = 0
      /\ next \in Frames /\ Gives(next) /\ ~Tells(next) /\ next.c = source.given + 1
      /\ none \in Frames /\ Gives(none) /\ ~Tells(none) /\ none.c = -1
  BY <1>1 DEF Frames, Frame, Chunk, Gives, Tells, Readables, Null, Empty
<1>3. frames = <<null>> \/ frames = <<next>> \/ frames = <<next, null>> \/ frames = <<none>>
  BY DEF Answers
<1>4. frames # << >>
  BY <1>3
<1>5. source' = [given |-> IF Head(frames).c > 0 THEN Head(frames).c ELSE source.given,
                 silent |-> Head(frames).c = Empty, over |-> Last(frames).c = Null]
  BY <1>4, Zenon DEF Answered
<1> DEFINE g == IF Head(frames).c > 0 THEN Head(frames).c ELSE source.given
           e == Head(frames).c = Empty
           o == Last(frames).c = Null
<1>6. e \in BOOLEAN /\ o \in BOOLEAN
  OBVIOUS
<1> HIDE DEF null, next, none
<1>7. g \in Nat
  BY <1>1, <1>2, <1>3
<1>8. Last(frames) = frames[Len(frames)]
  BY DEF Last
<1>9. source'.over <=> frames[Len(frames)].c = 0
  BY <1>5, <1>8 DEF Null
<1> HIDE DEF g, e, o
<1>10. source' \in States
  <2>1. source' = [given |-> g, silent |-> e, over |-> o]
    BY <1>5 DEF g, e, o
  <2> QED
    BY <1>6, <1>7, <2>1 DEF States
<1>11. CASE frames = <<null>>
  BY <1>2, <1>9, <1>10, <1>11 DEF Null
<1>12. CASE frames = <<next>>
  BY <1>1, <1>2, <1>9, <1>10, <1>12 DEF Null
<1>13. CASE frames = <<next, null>>
  BY <1>1, <1>2, <1>9, <1>10, <1>13 DEF Null
<1>14. CASE frames = <<none>>
  BY <1>2, <1>9, <1>10, <1>14 DEF Null
<1> QED
  BY <1>3, <1>11, <1>12, <1>13, <1>14

LEMMA AnswerKeeps ==
  ASSUME SourceInv, NEW frames \in Answers, Answered(frames),
         NEW rest, OkRest(rest, Src, source), stack' = frames \o rest,
         later' \subseteq later, UNCHANGED <<rd, ticks, in, out, ends>>
  PROVE  SourceInv' /\ ChannelStep
<1>1. UNCHANGED <<in["src"], out["src"], rd["src"].ended, ends["src"] > 0>>
  OBVIOUS
<1>2. CASE source.over
  <2>1. frames = << >>
    BY <1>2 DEF Answers
  <2>2. UNCHANGED source
    BY <2>1 DEF Answered
  <2>3. "src" \in Readables /\ Set("src", Src) /\ Src \in ReadState
    BY Typed, Unmoved DEF Readables, Src
  <2>4. /\ in' \in [Readables -> Seq(Int)] /\ out' \in [Readables -> Seq(Int)]
        /\ ends' \in [Readables -> Nat] /\ ticks' \in Seq(Frames)
    BY DEF SourceInv, StreamsTypes
  <2>5. Src.endEmitted \/ Src.endPending => Spent
    BY DEF SourceInv, TellsInv, Src
  <2>6. << >> \in Seq(Allowed)
    OBVIOUS
  <2> QED
    BY <2>1, <2>2, <2>3, <2>4, <2>5, <2>6, QuietKeeps
<1>3. CASE ~source.over
  <2>1. /\ frames \in Seq(Frames) /\ Len(frames) \in {1, 2}
        /\ \A i \in DOMAIN frames : Gives(frames[i]) /\ ~Tells(frames[i])
        /\ \A i \in DOMAIN frames : frames[i].c = Null => source'.over /\ i = Len(frames)
        /\ \A i \in DOMAIN frames : frames[i].c # Null => i = 1
        /\ source' \in States
    BY <1>3, AnswersAre
  <2>2. ~rd["src"].ended
    BY <1>3 DEF SourceInv, GivesInv
  <2>3. rest \in Seq(Frames) /\ \A i \in DOMAIN rest : ~Gives(rest[i]) /\ ~Tells(rest[i])
    BY <1>3, <2>2 DEF OkRest, Src
  <2>4. stack' \in Seq(Frames)
    BY <2>1, <2>3
  <2>5. DOMAIN stack' = 1..(Len(frames) + Len(rest)) /\ Len(frames) \in Nat /\ Len(rest) \in Nat
    BY <2>1, <2>3
  <2>6. \A i \in DOMAIN stack' :
          \/ i \in DOMAIN frames /\ stack'[i] = frames[i]
          \/ ~Gives(stack'[i]) /\ ~Tells(stack'[i])
    <3>1. \A i \in 1..(Len(frames) + Len(rest)) :
            \/ i \in DOMAIN frames /\ stack'[i] = frames[i]
            \/ i - Len(frames) \in DOMAIN rest /\ stack'[i] = rest[i - Len(frames)]
      BY <2>1, <2>3
    <3> QED
      BY <2>3, <2>5, <3>1
  <2>7. \A i \in DOMAIN stack' : Gives(stack'[i]) =>
          ~rd'["src"].ended /\ IF stack'[i].c = Null THEN source'.over ELSE i = 1
    BY <2>1, <2>2, <2>6
  <2>8. \A i, j \in DOMAIN stack' :
          Gives(stack'[i]) /\ stack'[i].c = Null /\ Gives(stack'[j]) /\ stack'[j].c = Null => i = j
    BY <2>1, <2>6
  <2>9. \A t \in later' \cup Range(ticks') : ~Gives(t) /\ (Tells(t) => Spent')
    BY DEF SourceInv, GivesInv, TellsInv, Spent
  <2>10. GivesInv'
    BY <2>2, <2>7, <2>8, <2>9 DEF GivesInv
  <2>11. \A i \in DOMAIN stack' : ~Tells(stack'[i])
    BY <2>1, <2>6
  <2>12. \A t \in Range(stack') : ~Tells(t)
    BY <2>11 DEF Range
  <2>13. TellsInv'
    BY <2>9, <2>12 DEF TellsInv, Spent, SourceInv
  <2>14. StreamsTypes'
    BY <2>1, <2>4 DEF SourceInv, StreamsTypes, States
  <2> QED
    BY <1>1, <2>10, <2>13, <2>14 DEF SourceInv, ChannelStep
<1> QED
  BY <1>2, <1>3

LEMMA PullSrcKeeps ==
  ASSUME SourceInv, PullSrc
  PROVE  SourceInv' /\ ChannelStep
<1>1. /\ stack # << >> /\ UNCHANGED <<rd, ticks, in, out, ends>>
      /\ \/ \E frames \in Answers : Answered(frames) /\ Then(frames) /\ UNCHANGED later
         \/ later' = later \cup {Frame("pull", "src")} /\ Then(<< >>) /\ UNCHANGED source
  BY DEF PullSrc, Running, history
<1>2. CASE \E frames \in Answers : Answered(frames) /\ Then(frames) /\ UNCHANGED later
  <2>1. PICK frames \in Answers : Answered(frames) /\ Then(frames) /\ UNCHANGED later
    BY <1>2
  <2>2. OkRest(Tail(stack), Src, source) /\ stack' = frames \o Tail(stack)
    BY <1>1, <2>1, StackIs DEF Then
  <2> QED
    BY <1>1, <2>1, <2>2, AnswerKeeps
<1>3. CASE later' = later \cup {Frame("pull", "src")} /\ Then(<< >>) /\ UNCHANGED source
  <2>1. Frame("pull", "src") \in Plain
    BY PlainFrames DEF Readables
  <2>2. later' \subseteq later \cup Plain
    BY <1>3, <2>1
  <2> QED
    BY <1>1, <1>3, <2>2, ThenKeeps, Unmoved
<1> QED
  BY <1>1, <1>2, <1>3

LEMMA LaterKeeps ==
  ASSUME SourceInv, Later
  PROVE  SourceInv' /\ ChannelStep
<1>1. /\ stack = << >> /\ UNCHANGED <<rd, ticks, in, out, ends>>
      /\ \E t \in later :
           /\ later' = later \ {t}
           /\ \/ \E frames \in Answers : Answered(frames) /\ stack' = frames
              \/ stack' = <<t>> /\ UNCHANGED source
  BY DEF Later, Idle, history
<1>2. PICK t \in later :
        /\ later' = later \ {t}
        /\ \/ \E frames \in Answers : Answered(frames) /\ stack' = frames
           \/ stack' = <<t>> /\ UNCHANGED source
  BY <1>1
<1>3. OkRest(<< >>, Src, source) /\ later' \subseteq later
  BY <1>2 DEF OkRest
<1>4. CASE \E frames \in Answers : Answered(frames) /\ stack' = frames
  <2>1. PICK frames \in Answers : Answered(frames) /\ stack' = frames
    BY <1>4
  <2>2. frames \in Seq(Frames)
    <3>1. CASE source.over
      <4>1. frames = << >>
        BY <3>1 DEF Answers
      <4> QED
        BY <4>1
    <3>2. CASE ~source.over
      BY <2>1, <3>2, AnswersAre
    <3> QED
      BY <3>1, <3>2
  <2>3. stack' = frames \o << >>
    BY <2>1, <2>2
  <2> QED
    BY <1>1, <1>3, <2>1, <2>3, AnswerKeeps
<1>5. CASE stack' = <<t>> /\ UNCHANGED source
  <2>1. t \in Frames /\ t \in Allowed
    BY <1>2 DEF SourceInv, StreamsTypes, GivesInv, TellsInv, Allowed
  <2>2. <<t>> \in Seq(Allowed) /\ stack' = <<t>> \o << >>
    BY <1>5, <2>1
  <2>3. "src" \in Readables /\ Set("src", Src) /\ Src \in ReadState
    BY <1>1, Typed, Unmoved DEF Readables, Src
  <2>4. /\ in' \in [Readables -> Seq(Int)] /\ out' \in [Readables -> Seq(Int)]
        /\ ends' \in [Readables -> Nat] /\ ticks' \in Seq(Frames)
    BY <1>1 DEF SourceInv, StreamsTypes
  <2>5. Src.endEmitted \/ Src.endPending => Spent
    BY DEF SourceInv, TellsInv, Src
  <2> QED
    BY <1>1, <1>3, <1>5, <2>2, <2>3, <2>4, <2>5, QuietKeeps
<1> QED
  BY <1>2, <1>4, <1>5

----------------------------------------------------------------------------
(* The theorem *)
LEMMA LibraryKeeps ==
  ASSUME SourceInv, Library
  PROVE  SourceInv' /\ ChannelStep
BY PushEndKeeps, PushEmptyKeeps, PushChunkKeeps, RefillKeeps, LoopKeeps, TakeKeeps, LeaveKeeps,
   EmitEndKeeps, UnpipedKeeps, WritableKeeps, PullSrcKeeps, TickKeeps, FillKeeps, FillEndsKeeps,
   LaterKeeps, ReadRestKeeps, ReturnKeeps
   DEF Library

LEMMA SourceStarts ==
  ASSUME StreamsInit
  PROVE  SourceInv /\ Source!ChannelInit
<1>1. User \in Frames /\ ~Gives(User) /\ ~Tells(User)
  BY PlainFrames DEF Plain
<1>2. /\ stack = <<User>> /\ ticks = << >> /\ later = {}
      /\ source = [given |-> 0, silent |-> FALSE, over |-> FALSE]
      /\ in = [s \in Readables |-> << >>] /\ out = [s \in Readables |-> << >>]
      /\ ends = [s \in Readables |-> 0]
  BY DEF StreamsInit
<1>3. \A t \in Range(stack) : t = User
  BY <1>2 DEF Range
<1>4. stack \in Seq(Frames) /\ ticks \in Seq(Frames) /\ \A t \in Range(ticks) : FALSE
  BY <1>1, <1>2 DEF Range
<1>5. /\ rd \in [Readables -> ReadState]
      /\ ~rd["src"].ended /\ ~rd["src"].endEmitted /\ ~rd["src"].endPending
      /\ rd["src"].buffer = << >>
  BY DEF StreamsInit, ReadState, Readables
<1>6. /\ in \in [Readables -> Seq(Int)] /\ out \in [Readables -> Seq(Int)]
      /\ ends \in [Readables -> Nat] /\ in["src"] = << >> /\ out["src"] = << >> /\ ends["src"] = 0
      /\ source \in [given : Nat, silent : BOOLEAN, over : BOOLEAN]
  BY <1>2 DEF Readables
<1>7. StreamsTypes
  BY <1>2, <1>4, <1>5, <1>6 DEF StreamsTypes
<1>8. GivesInv
  <2>1. \A i \in DOMAIN stack : ~Gives(stack[i])
    BY <1>1, <1>2
  <2> QED
    BY <1>2, <1>4, <1>5, <2>1 DEF GivesInv
<1>9. TellsInv
  BY <1>1, <1>2, <1>3, <1>4, <1>5, <1>6 DEF TellsInv
<1>10. in["src"] = out["src"] \o rd["src"].buffer
  BY <1>5, <1>6
<1> QED
  BY <1>5, <1>6, <1>7, <1>8, <1>9, <1>10 DEF SourceInv, Source!ChannelInit

\* Whatever its listeners call from inside its events, a Readable is a channel to whoever
\* reads it: push() is Put or Close, 'data' and read() are Deliver, 'end' is End.
THEOREM ReadableIsChannel == StreamsSpec => SourceIsChannel
<1> DEFINE cvars == <<in["src"], out["src"], rd["src"].ended, ends["src"] > 0>>
           CNext == Source!Put \/ Source!Close \/ Source!Deliver \/ Source!End
<1>1. StreamsInit => SourceInv /\ Source!ChannelInit
  BY SourceStarts
<1>2. SourceInv /\ [Script \/ Library]_vars => SourceInv' /\ [CNext]_cvars
  <2> SUFFICES ASSUME SourceInv, [Script \/ Library]_vars
               PROVE  SourceInv' /\ [CNext]_cvars
    OBVIOUS
  <2>1. CASE Script \/ Library
    BY <2>1, ScriptKeeps, LibraryKeeps DEF ChannelStep
  <2>2. CASE UNCHANGED vars
    <3>1. UNCHANGED <<stack, ticks, later, rd, source, in, out, ends>>
      BY <2>2 DEF vars, states, history
    <3>2. SourceInv'
      BY <3>1 DEF SourceInv, StreamsTypes, GivesInv, TellsInv, Spent
    <3>3. UNCHANGED cvars
      BY <3>1
    <3> QED
      BY <3>2, <3>3
  <2> QED
    BY <2>1, <2>2
<1> QED
  BY <1>1, <1>2, PTL DEF StreamsSpec, SourceIsChannel, Source!ChannelSpec
----------------------------------------------------------------------------
(* Frames, for the end of two pipes *)
LEMMA FewFrames ==
  ASSUME NEW a, NEW b
  PROVE  /\ Range(<< >>) = {} /\ Range(<<a>>) = {a} /\ Range(<<a, b>>) = {a, b}
         /\ Stacked(<< >>) /\ Stacked(<<a>>) /\ (Above(a, b) => Stacked(<<a, b>>))
<1>1. Range(<< >>) = {} /\ Stacked(<< >>)
  BY DEF Range, Stacked
<1>2. Range(<<a>>) = {a} /\ Stacked(<<a>>)
  BY DEF Range, Stacked
<1>3. Range(<<a, b>>) = {a, b} /\ (Above(a, b) => Stacked(<<a, b>>))
  BY DEF Range, Stacked
<1> QED
  BY <1>1, <1>2, <1>3

LEMMA ThreeFrames ==
  ASSUME NEW a, NEW b, NEW c
  PROVE  /\ Range(<<a, b, c>>) = {a, b, c}
         /\ Above(a, b) /\ Above(a, c) /\ Above(b, c) => Stacked(<<a, b, c>>)
<1>1. Range(<<a, b, c>>) = {a, b, c}
  BY DEF Range
<1>2. Above(a, b) /\ Above(a, c) /\ Above(b, c) => Stacked(<<a, b, c>>)
  BY DEF Stacked
<1> QED
  BY <1>1, <1>2

LEMMA Joins ==
  ASSUME NEW S, NEW a \in S, NEW b \in S
  PROVE  <<a>> \o <<b>> = <<a, b>> /\ << >> \o <<b>> = <<b>>
<1> DEFINE x == <<a>> \o <<b>>
           y == <<a, b>>
<1>1. <<a>> \in Seq(S) /\ <<b>> \in Seq(S) /\ y \in Seq(S) /\ Len(y) = 2 /\ y[1] = a /\ y[2] = b
  OBVIOUS
<1>2. x \in Seq(S) /\ Len(x) = 2 /\ x[1] = a /\ x[2] = b
  BY <1>1
<1>3. << >> \o <<b>> = <<b>>
  BY <1>1
<1> HIDE DEF x, y
<1>4. x = y
  BY <1>1, <1>2
<1> QED
  BY <1>3, <1>4 DEF x, y

LEMMA Joins3 ==
  ASSUME NEW S, NEW a \in S, NEW b \in S, NEW c \in S
  PROVE  <<a, b>> \o <<c>> = <<a, b, c>>
<1> DEFINE x == <<a, b>> \o <<c>>
           y == <<a, b, c>>
<1>1. <<a, b>> \in Seq(S) /\ <<c>> \in Seq(S) /\ y \in Seq(S) /\ Len(y) = 3
      /\ y[1] = a /\ y[2] = b /\ y[3] = c
  OBVIOUS
<1>2. x \in Seq(S) /\ Len(x) = 3 /\ x[1] = a /\ x[2] = b /\ x[3] = c
  BY <1>1
<1> HIDE DEF x, y
<1>3. x = y
  BY <1>1, <1>2
<1> QED
  BY <1>3 DEF x, y

LEMMA Concats ==
  ASSUME NEW S, NEW f \in Seq(S), NEW q \in Seq(S)
  PROVE  /\ f \o q \in Seq(S) /\ Range(f \o q) = Range(f) \cup Range(q)
         /\ Stacked(f) /\ Stacked(q) /\ (\A a \in Range(f), b \in Range(q) : Above(a, b))
              => Stacked(f \o q)
<1> DEFINE z == f \o q
<1>1. Len(f) \in Nat /\ Len(q) \in Nat /\ z \in Seq(S) /\ DOMAIN f = 1..Len(f) /\ DOMAIN q = 1..Len(q)
      /\ DOMAIN z = 1..(Len(f) + Len(q))
  OBVIOUS
<1>2. /\ \A i \in DOMAIN f : i \in DOMAIN z /\ z[i] = f[i]
      /\ \A i \in DOMAIN q : i + Len(f) \in DOMAIN z /\ z[i + Len(f)] = q[i]
      /\ \A i \in DOMAIN z : \/ i \in DOMAIN f /\ z[i] = f[i]
                             \/ i > Len(f) /\ i - Len(f) \in DOMAIN q /\ z[i] = q[i - Len(f)]
  BY <1>1
<1> HIDE DEF z
<1>3. Range(z) = Range(f) \cup Range(q)
  <2>1. \A x \in Range(z) : x \in Range(f) \cup Range(q)
    BY <1>2 DEF Range
  <2>2. \A x \in Range(f) : x \in Range(z)
    BY <1>2 DEF Range
  <2>3. \A x \in Range(q) : x \in Range(z)
    BY <1>2 DEF Range
  <2> QED
    BY <2>1, <2>2, <2>3
<1>4. ASSUME Stacked(f), Stacked(q), \A a \in Range(f), b \in Range(q) : Above(a, b)
      PROVE  Stacked(z)
  <2> SUFFICES ASSUME NEW i \in DOMAIN z, NEW j \in DOMAIN z, i < j PROVE Above(z[i], z[j])
    BY DEF Stacked
  <2>1. CASE i \in DOMAIN f /\ j \in DOMAIN f
    BY <1>1, <1>2, <1>4, <2>1 DEF Stacked
  <2>2. CASE i \in DOMAIN f /\ z[i] = f[i] /\ j - Len(f) \in DOMAIN q /\ z[j] = q[j - Len(f)]
    BY <1>4, <2>2 DEF Range
  <2>3. CASE i > Len(f)
    <3>1. i - Len(f) \in DOMAIN q /\ z[i] = q[i - Len(f)] /\ j - Len(f) \in DOMAIN q /\ z[j] = q[j - Len(f)]
          /\ i - Len(f) < j - Len(f)
      BY <1>1, <1>2, <2>3
    <3> QED
      BY <1>4, <3>1 DEF Stacked
  <2> QED
    BY <1>1, <1>2, <2>1, <2>2, <2>3
<1> QED
  BY <1>1, <1>3, <1>4 DEF z

\* What a frame leaves beneath it when it is taken off the stack.
LEMMA Pops ==
  ASSUME NEW S, NEW q \in Seq(S), q # << >>, Stacked(q)
  PROVE  /\ Head(q) \in S /\ Tail(q) \in Seq(S) /\ Range(q) = {Head(q)} \cup Range(Tail(q))
         /\ Stacked(Tail(q)) /\ \A t \in Range(Tail(q)) : Above(Head(q), t)
<1> DEFINE z == Tail(q)
<1>1. /\ Head(q) \in S /\ Head(q) = q[1] /\ 1 \in DOMAIN q /\ Len(q) \in Nat /\ DOMAIN q = 1..Len(q)
      /\ z \in Seq(S) /\ DOMAIN z = 1..(Len(q) - 1)
      /\ \A i \in DOMAIN z : i + 1 \in DOMAIN q /\ z[i] = q[i + 1]
      /\ \A i \in DOMAIN q : i = 1 \/ (i - 1 \in DOMAIN z /\ q[i] = z[i - 1])
  OBVIOUS
<1> HIDE DEF z
<1>2. Range(q) = {Head(q)} \cup Range(z)
  <2>1. \A x \in Range(q) : x \in {Head(q)} \cup Range(z)
    BY <1>1 DEF Range
  <2>2. \A x \in Range(z) : x \in Range(q)
    BY <1>1 DEF Range
  <2>3. Head(q) \in Range(q)
    BY <1>1 DEF Range
  <2> QED
    BY <2>1, <2>2, <2>3
<1>3. Stacked(z)
  <2> SUFFICES ASSUME NEW i \in DOMAIN z, NEW j \in DOMAIN z, i < j PROVE Above(z[i], z[j])
    BY DEF Stacked
  <2>1. i + 1 < j + 1
    BY <1>1
  <2> QED
    BY <1>1, <2>1 DEF Stacked
<1>4. \A t \in Range(z) : Above(Head(q), t)
  <2> SUFFICES ASSUME NEW i \in DOMAIN z PROVE Above(Head(q), z[i])
    BY DEF Range
  <2>1. 1 < i + 1
    BY <1>1
  <2> QED
    BY <1>1, <2>1 DEF Stacked
<1> QED
  BY <1>1, <1>2, <1>3, <1>4 DEF z

\* Frames that know nothing of the ends, carry no chunk, and run above any but an answer.
Light == {t \in Frames : /\ t.f \notin {"loop", "take", "leave", "write", "close", "finish", "end"}
                         /\ ~(t.f = "push" /\ t.s = "mid")}
FlowOf(s) == {t \in Frames : Flowing(s, t)}
Moving(t) == t.f = "write" \/ Carries(t)

LEMMA LightIs ==
  ASSUME NEW t \in Light
  PROVE  /\ Sure(t) /\ Sure(t)' /\ ~Moving(t)
         /\ \A b : Above(b, t) /\ (~Carries(b) => Above(t, b))
BY DEF Light, Sure, Moving, Above, Flowing, Writing, Ending, Carries

LEMMA LightFrames ==
  /\ User \in Light
  /\ \A s \in Readables :
        /\ Frame("pull", s) \in Light /\ Frame("fill", s) \in Light /\ Frame("readRest", s) \in Light
        /\ Frame("refill", s) \in Light /\ Frame("unpipe", s) \in Light
        /\ \A c \in Int : Chunk("filled", s, c) \in Light
  /\ \A c \in Int : Chunk("push", "src", c) \in Light
  /\ Frame("push", "src") \in Light
<1>1. \A f, s, c : /\ Frame(f, s).f = f /\ Frame(f, s).s = s
                   /\ Chunk(f, s, c).f = f /\ Chunk(f, s, c).s = s
  BY DEF Frame, Chunk
<1>2. \A s \in Readables :
        /\ Frame("pull", s) \in Frames /\ Frame("fill", s) \in Frames /\ Frame("readRest", s) \in Frames
        /\ Frame("refill", s) \in Frames /\ Frame("unpipe", s) \in Frames
  BY DEF Frame, Frames, Null
<1>3. \A s \in Readables : \A c \in Int : Chunk("filled", s, c) \in Frames
  BY DEF Chunk, Frames
<1>4. Frame("push", "src") \in Frames /\ \A c \in Int : Chunk("push", "src", c) \in Frames
  BY DEF Chunk, Frame, Frames, Readables, Null
<1>5. User \in Frames /\ User.f = "user"
  BY DEF User, Frame, Frames, Readables, Null
<1> QED
  BY <1>1, <1>2, <1>3, <1>4, <1>5 DEF Light

\* The frames of _emitFlow().
LEMMA FlowIs ==
  ASSUME NEW s \in Readables, NEW t \in FlowOf(s)
  PROVE  /\ rd[s].flowingNow => Sure(t)
         /\ rd'[s].flowingNow => Sure(t)'
         /\ ~Moving(t)
         /\ \A b : ~Carries(b) /\ ~Flowing(s, b) /\ ~Writing(s, b) => Above(t, b)
<1>1. t.f \in {"loop", "take", "leave"} /\ t.s = s
  BY DEF FlowOf, Flowing
<1> QED
  BY <1>1 DEF Sure, Moving, Above, Flowing, Writing, Ending, Carries

LEMMA FlowFramesAre ==
  ASSUME NEW s \in Readables
  PROVE  Frame("loop", s) \in FlowOf(s) /\ Frame("take", s) \in FlowOf(s) /\ Frame("leave", s) \in FlowOf(s)
BY DEF Frame, FlowOf, Flowing, Frames, Null

----------------------------------------------------------------------------
(* Steps that move no chunk *)
\* What stays on the stack beneath the frames of a step.
Under(q) ==
  /\ q \in Seq(Frames) /\ Stacked(q)
  /\ \A t \in Range(q) : Sure(t) /\ ~Carries(t) /\ (t \in Range(stack) \/ t = User)

LEMMA TailIs ==
  ASSUME FinishInv, stack # << >>
  PROVE  /\ Under(Tail(stack)) /\ Sure(Head(stack)) /\ Head(stack) \in Frames
         /\ Range(stack) = {Head(stack)} \cup Range(Tail(stack))
         /\ \A t \in Range(Tail(stack)) : Above(Head(stack), t)
<1>1. stack \in Seq(Frames) /\ Stacked(stack) /\ \A t \in Range(stack) : Sure(t)
  BY DEF FinishInv, SourceInv, StreamsTypes, FramesInv
<1>2. /\ Head(stack) \in Frames /\ Tail(stack) \in Seq(Frames)
      /\ Range(stack) = {Head(stack)} \cup Range(Tail(stack))
      /\ Stacked(Tail(stack)) /\ \A t \in Range(Tail(stack)) : Above(Head(stack), t)
  BY <1>1, Pops
<1>3. \A t \in Range(Tail(stack)) : ~Carries(t)
  BY <1>2 DEF Above
<1> QED
  BY <1>1, <1>2, <1>3 DEF Under

ScriptStack == IF stack = << >> THEN <<User>> ELSE stack
LEMMA ScriptStackIs ==
  ASSUME FinishInv, Calls
  PROVE  Under(ScriptStack) /\ Range(stack) \subseteq Range(ScriptStack)
<1>1. stack \in Seq(Frames) /\ Stacked(stack) /\ \A t \in Range(stack) : Sure(t)
  BY DEF FinishInv, SourceInv, StreamsTypes, FramesInv
<1>2. User \in Frames /\ Sure(User) /\ ~Carries(User)
  BY LightFrames, LightIs DEF Light, Moving
<1>3. CASE stack = << >>
  <2>1. ScriptStack = <<User>>
    BY <1>3 DEF ScriptStack
  <2>2. <<User>> \in Seq(Frames)
    BY <1>2
  <2>3. Stacked(<<User>>) /\ Range(<<User>>) = {User} /\ Range(<< >>) = {}
    BY FewFrames
  <2> QED
    BY <1>2, <1>3, <2>1, <2>2, <2>3 DEF Under
<1>4. CASE stack # << >>
  <2>1. ScriptStack = stack /\ ~Carries(Head(stack))
    BY <1>4 DEF ScriptStack, Calls, Running, Idle, Carries
  <2> QED
    BY <1>1, <1>4, <2>1, TailIs DEF Under
<1> QED
  BY <1>3, <1>4

\* What every frame of the stack still knows.
Firm ==
  /\ \A s \in Readables : rd[s].flowingNow => rd'[s].flowingNow
  /\ UNCHANGED <<wr, ends, late>> /\ (~late /\ MidSpent => MidSpent')
LEMMA SureMoves ==
  ASSUME Firm, NEW t, Sure(t)
  PROVE  Sure(t)'
BY DEF Firm, Sure, Carries, Ending, Flowing, Writing

LEMMA FramesKeep ==
  ASSUME NEW frames \in Seq(Frames), NEW q, Under(q), stack' = frames \o q, Stacked(frames),
         \A a \in Range(frames), b \in Range(q) : Above(a, b),
         \A t \in Range(frames) \cup Range(q) \cup later' : Sure(t)',
         \A t \in later' : Carries(t) \/ t.f \in {"pull", "end"},
         ~late' => \A t \in Range(ticks') : Ending("mid", t) => MidSpent'
  PROVE  FramesInv'
<1>1. Stacked(stack') /\ Range(stack') = Range(frames) \cup Range(q)
  BY Concats DEF Under
<1> QED
  BY <1>1 DEF FramesInv, Stacked, Above, Carries, Flowing, Writing, Ending

\* What a step that moves no chunk may do to a readable stream.
Calm(q, s) ==
  /\ q \in ReadState /\ q.buffer = rd[s].buffer /\ (rd[s].ended => q.ended)
  /\ rd[s].flowingNow => q.flowingNow
  /\ s = "mid" => /\ q.ended => wr["mid"].ended
                  /\ ~late /\ (q.endEmitted \/ q.endPending) => q.ended /\ q.buffer = << >>

LEMMA SameIsCalm ==
  ASSUME FinishInv, NEW s \in Readables, NEW q, Same(q, rd[s]), rd[s].flowingNow => q.flowingNow
  PROVE  Calm(q, s)
BY DEF Same, Calm, FinishInv, WritesInv, MidSpent

LEMMA CalmIsFirm ==
  ASSUME FinishInv, NEW s \in Readables, NEW q, Calm(q, s), Set(s, q), UNCHANGED <<wr, ends, late>>
  PROVE  /\ Firm /\ rd'[s] = q /\ \A p \in Readables : rd'[p].buffer = rd[p].buffer
         /\ WritesInv'
<1>1. rd' = [rd EXCEPT ![s] = q] /\ rd \in [Readables -> ReadState]
  BY DEF Set, FinishInv, SourceInv, StreamsTypes
<1>2. \A p \in Readables : rd'[p] = IF p = s THEN q ELSE rd[p]
  BY <1>1
<1>3. "mid" \in Readables
  BY DEF Readables
<1>4. Firm
  BY <1>2, <1>3 DEF Calm, Firm, MidSpent
<1>5. WritesInv'
  BY <1>2, <1>3, <1>4 DEF Calm, Firm, MidSpent, FinishInv, WritesInv
<1> QED
  BY <1>2, <1>4, <1>5 DEF Calm

LEMMA ChunksStay ==
  ASSUME FinishInv, \A s \in Readables : rd'[s].buffer = rd[s].buffer,
         UNCHANGED <<in, out, written>>, intact' => intact, late => late',
         \A t \in Range(stack') \cup later' : Moving(t) => t \in Range(stack) \cup later,
         \A t \in Range(stack) \cup later : Moving(t) => t \in Range(stack') \cup later',
         \A t : t.f = "write" => (t \in Range(stack) <=> t \in Range(stack'))
  PROVE  ChunksInv'
<1>1. {u \in Range(stack') \cup later' : Held(u)} = {u \in Range(stack) \cup later : Held(u)}
  BY DEF Held, Moving, Writing
<1>2. (\A t \in Range(stack) : ~Writing("mid", t)) <=> (\A t \in Range(stack') : ~Writing("mid", t))
  BY DEF Writing
<1>3. \A t \in Range(stack') : Writing("mid", t) => t \in Range(stack)
  BY DEF Writing
<1>4. "mid" \in Readables
  BY DEF Readables
<1> QED
  BY <1>1, <1>2, <1>3, <1>4 DEF FinishInv, ChunksInv, Held, Writing, Carries

Kept == FramesInv' /\ WritesInv' /\ ChunksInv'
LEMMA CalmKeeps2 ==
  ASSUME FinishInv, NEW s \in Readables, NEW q, Calm(q, s), Set(s, q),
         UNCHANGED <<wr, in, out, ends, written, intact, late>>,
         NEW frames \in Seq(Light \cup FlowOf(s)), Stacked(frames), NEW rest, Under(rest),
         stack' = frames \o rest,
         \A t \in Range(stack) : Moving(t) => t \in Range(rest),
         (\E a \in Range(frames) : a \in FlowOf(s)) =>
            q.flowingNow /\ \A b \in Range(rest) : ~Flowing(s, b) /\ ~Writing(s, b),
         \A t \in later : Carries(t) => t \in later',
         \A t \in later' : \/ t \in later \/ t.f = "pull"
                           \/ (t.f = "end" /\ (t.s = "mid" /\ ~late => MidSpent)),
         \A t \in Range(ticks') : t \in Range(ticks) \/ t.f # "end"
  PROVE  Kept
<1>1. /\ Firm /\ rd'[s] = q /\ WritesInv' /\ \A p \in Readables : rd'[p].buffer = rd[p].buffer
  BY CalmIsFirm
<1>2. frames \in Seq(Frames) /\ \A a \in Range(frames) : a \in Light \cup FlowOf(s)
  BY DEF Light, FlowOf, Range
<1>3. \A a \in Range(frames) : Sure(a)' /\ ~Moving(a)
  BY <1>1, <1>2, LightIs, FlowIs
<1>4. \A a \in Range(frames), b \in Range(rest) : Above(a, b)
  BY <1>2, LightIs, FlowIs DEF Under
<1>5. \A t \in Range(rest) : Sure(t)'
  BY <1>1, SureMoves DEF Under
<1>6. \A t \in later' : Sure(t)' /\ (Carries(t) \/ t.f \in {"pull", "end"})
  <2>1. \A t \in later : Sure(t) /\ (Carries(t) \/ t.f \in {"pull", "end"})
    BY DEF FinishInv, FramesInv
  <2>2. \A t : t.f = "pull" => Sure(t)
    BY DEF Sure, Flowing, Writing, Ending, Carries
  <2>3. \A t : t.f = "end" /\ (t.s = "mid" /\ ~late => MidSpent) => Sure(t)
    BY DEF Sure, Flowing, Writing, Ending, Carries
  <2> QED
    BY <1>1, <2>1, <2>2, <2>3, SureMoves
<1>7. ~late' => \A t \in Range(ticks') : Ending("mid", t) => MidSpent'
  BY <1>1 DEF FinishInv, FramesInv, Firm, Ending
<1>8. FramesInv'
  BY <1>2, <1>3, <1>4, <1>5, <1>6, <1>7, FramesKeep
<1>9. Range(stack') = Range(frames) \cup Range(rest)
  BY <1>2, Concats DEF Under
<1>10. ~Moving(User)
  BY LightFrames, LightIs
<1>11. \A t : t.f = "write" => (t \in Range(stack) <=> t \in Range(stack'))
  BY <1>3, <1>9, <1>10 DEF Under, Moving
<1>12. /\ \A t \in Range(stack') \cup later' : Moving(t) => t \in Range(stack) \cup later
       /\ \A t \in Range(stack) \cup later : Moving(t) => t \in Range(stack') \cup later'
  <2>1. \A t \in later' : Moving(t) => t \in later
    BY DEF Moving, Carries
  <2>2. \A t \in later : Moving(t) => t \in later'
    BY DEF FinishInv, FramesInv, Moving
  <2> QED
    BY <1>3, <1>9, <1>10, <2>1, <2>2 DEF Under
<1>13. ChunksInv'
  BY <1>1, <1>11, <1>12, ChunksStay
<1> QED
  BY <1>1, <1>8, <1>13 DEF Kept

\* A stream that is not in _emitFlow() has nothing of it on the stack.
LEMMA NotBusy ==
  ASSUME FinishInv, NEW s \in Readables
  PROVE  /\ ~rd[s].flowingNow => \A b \in Range(stack) : ~Flowing(s, b) /\ ~Writing(s, b)
         /\ stack # << >> /\ Flowing(s, Head(stack)) =>
              rd[s].flowingNow /\ \A b \in Range(Tail(stack)) : ~Flowing(s, b) /\ ~Writing(s, b)
<1>1. \A b \in Range(stack) : Sure(b)
  BY DEF FinishInv, FramesInv
<1>2. stack # << >> => Sure(Head(stack)) /\ \A b \in Range(Tail(stack)) : Above(Head(stack), b)
  BY TailIs
<1> QED
  BY <1>1, <1>2 DEF Sure, Above

\* A step of the library.
LEMMA CalmThen ==
  ASSUME FinishInv, stack # << >>, ~Moving(Head(stack)),
         NEW s \in Readables, NEW q, Calm(q, s), Set(s, q),
         UNCHANGED <<wr, in, out, ends, written, intact, late>>,
         NEW frames \in Seq(Light \cup FlowOf(s)), Stacked(frames), Then(frames),
         \/ frames \in Seq(Light)
         \/ (q.flowingNow /\ (~rd[s].flowingNow \/ Flowing(s, Head(stack)))),
         \A t \in later : Carries(t) => t \in later',
         \A t \in later' : t \in later \/ t.f = "pull",
         \A t \in Range(ticks') : t \in Range(ticks) \/ t.f # "end"
  PROVE  Kept
<1>1. /\ Under(Tail(stack)) /\ Range(stack) = {Head(stack)} \cup Range(Tail(stack))
      /\ stack' = frames \o Tail(stack)
  BY TailIs DEF Then
<1>2. \A t \in Range(stack) : Moving(t) => t \in Range(Tail(stack))
  BY <1>1
<1>3. (\E a \in Range(frames) : a \in FlowOf(s)) =>
        q.flowingNow /\ \A b \in Range(Tail(stack)) : ~Flowing(s, b) /\ ~Writing(s, b)
  <2>1. frames \in Seq(Light) => \A a \in Range(frames) : a \notin FlowOf(s)
    BY DEF Range, Light, FlowOf, Flowing
  <2> QED
    BY <1>1, <2>1, NotBusy
<1> QED
  BY <1>1, <1>2, <1>3, CalmKeeps2

\* A call of the script.
LEMMA CalmScript ==
  ASSUME FinishInv, Calls, NEW s \in Readables, NEW q, Calm(q, s), Set(s, q),
         UNCHANGED <<wr, in, out, ends, written, intact, late>>,
         NEW frames \in Seq(Light \cup FlowOf(s)), Stacked(frames), ThenScript(frames),
         frames \in Seq(Light) \/ (q.flowingNow /\ ~rd[s].flowingNow),
         \A t \in later : Carries(t) => t \in later',
         \A t \in later' : t \in later \/ (t.f = "end" /\ (t.s = "mid" /\ ~late => MidSpent)),
         \A t \in Range(ticks') : t \in Range(ticks) \/ t.f # "end"
  PROVE  Kept
<1>1. /\ Under(ScriptStack) /\ Range(stack) \subseteq Range(ScriptStack)
      /\ stack' = frames \o ScriptStack
  BY ScriptStackIs DEF ThenScript, ScriptStack
<1>2. \A t \in Range(stack) : Moving(t) => t \in Range(ScriptStack)
  BY <1>1
<1>3. (\E a \in Range(frames) : a \in FlowOf(s)) =>
        q.flowingNow /\ \A b \in Range(ScriptStack) : ~Flowing(s, b) /\ ~Writing(s, b)
  <2>1. frames \in Seq(Light) => \A a \in Range(frames) : a \notin FlowOf(s)
    BY DEF Range, Light, FlowOf, Flowing
  <2>2. ~Flowing(s, User) /\ ~Writing(s, User)
    BY DEF User, Frame, Flowing, Writing
  <2> QED
    BY <1>1, <2>1, <2>2, NotBusy DEF Under
<1> QED
  BY <1>1, <1>2, <1>3, CalmKeeps2

LEMMA PartsAre ==
  ASSUME NEW s \in Readables, NEW r
  PROVE  /\ FlowFrames(s, r) \in Seq(Light \cup FlowOf(s)) /\ Stacked(FlowFrames(s, r))
         /\ r.flowingNow => FlowFrames(s, r) \in Seq(Light)
         /\ \A t \in Range(ReadsMore(s, r)) \cup Range(SchedulesReadable(s, r)) : t.f # "end"
         /\ ReadsMore(s, r) \in Seq(Frames) /\ SchedulesReadable(s, r) \in Seq(Frames)
         /\ << >> \in Seq(Light) /\ << >> \in Seq(Light \cup FlowOf(s)) /\ Stacked(<< >>)
         /\ \A a \in Light : <<a>> \in Seq(Light) /\ <<a>> \in Seq(Light \cup FlowOf(s)) /\ Stacked(<<a>>)
         /\ \A f \in Seq(Light) : f \in Seq(Light \cup FlowOf(s))
<1>1. Frame("loop", s) \in FlowOf(s)
  BY FlowFramesAre
<1>2. <<Frame("loop", s)>> \in Seq(Light \cup FlowOf(s)) /\ << >> \in Seq(Light) /\ << >> \in Seq(Light \cup FlowOf(s))
  BY <1>1
<1>3. \A a \in Light : <<a>> \in Seq(Light) /\ <<a>> \in Seq(Light \cup FlowOf(s))
  OBVIOUS
<1>4. \A a : Stacked(<<a>>) /\ Range(<<a>>) = {a} /\ Range(<< >>) = {} /\ Stacked(<< >>)
  BY FewFrames
<1>5. /\ Frame("more", s) \in Frames /\ Frame("more", s).f # "end"
      /\ Frame("readable", s) \in Frames /\ Frame("readable", s).f # "end"
  BY DEF Frame, Frames, Null
<1>6. \A a \in Frames : <<a>> \in Seq(Frames) /\ << >> \in Seq(Frames)
  OBVIOUS
<1>7. ReadsMore(s, r) \in {<< >>, <<Frame("more", s)>>}
      /\ SchedulesReadable(s, r) \in {<< >>, <<Frame("readable", s)>>}
  BY DEF ReadsMore, SchedulesReadable
<1>8. /\ FlowFrames(s, r) \in {<< >>, <<Frame("loop", s)>>}
      /\ r.flowingNow => FlowFrames(s, r) = << >>
  BY DEF FlowFrames
<1>9. \A f \in Seq(Light) : f \in Seq(Light \cup FlowOf(s))
  OBVIOUS
<1> HIDE DEF Frame
<1>10. FlowFrames(s, r) \in Seq(Light \cup FlowOf(s)) /\ Stacked(FlowFrames(s, r))
       /\ (r.flowingNow => FlowFrames(s, r) \in Seq(Light))
  BY <1>2, <1>4, <1>8
<1>11. \A t \in Range(ReadsMore(s, r)) \cup Range(SchedulesReadable(s, r)) : t.f # "end"
  BY <1>4, <1>5, <1>7
<1>12. ReadsMore(s, r) \in Seq(Frames) /\ SchedulesReadable(s, r) \in Seq(Frames)
  BY <1>5, <1>6, <1>7
<1> QED
  BY <1>2, <1>3, <1>4, <1>9, <1>10, <1>11, <1>12

\* Callbacks that are not 'end'.
LEMMA TicksAre ==
  ASSUME FinishInv, NEW t \in Seq(Frames), \A x \in Range(t) : x.f # "end", ticks' = ticks \o t
  PROVE  \A x \in Range(ticks') : x \in Range(ticks) \/ x.f # "end"
<1>1. ticks \in Seq(Frames)
  BY DEF FinishInv, SourceInv, StreamsTypes
<1> QED
  BY <1>1, Concats

LEMMA NoFrames == << >> \in Seq(Light) /\ Stacked(<< >>)
<1>1. Stacked(<< >>)
  BY FewFrames
<1> QED
  BY <1>1

\* A step that leaves the streams alone, or only takes what runs off the stack.
LEMMA PlainThen ==
  ASSUME FinishInv, stack # << >>, ~Moving(Head(stack)),
         UNCHANGED <<wr, in, out, ends, written, intact, late, rd, ticks>>,
         NEW frames \in Seq(Light), Stacked(frames), Then(frames),
         \A t \in later : Carries(t) => t \in later',
         \A t \in later' : t \in later \/ t.f = "pull"
  PROVE  Kept
<1>1. SourceInv /\ "src" \in Readables
  BY DEF FinishInv, Readables
<1>2. rd["src"] \in ReadState /\ Set("src", rd["src"]) /\ Same(rd["src"], rd["src"])
  BY <1>1, Typed, Unmoved, FlagsAreSame
<1>3. Calm(rd["src"], "src")
  BY <1>1, <1>2, SameIsCalm
<1>4. frames \in Seq(Light \cup FlowOf("src"))
  BY <1>1, PartsAre
<1> QED
  BY <1>1, <1>2, <1>3, <1>4, CalmThen

LEMMA PlainKeeps ==
  ASSUME FinishInv, Unpiped \/ PullMid \/ Return
  PROVE  Kept
<1>1. /\ stack # << >> /\ Head(stack).f \in {"unpipe", "pull", "user"} /\ Then(<< >>)
      /\ UNCHANGED <<wr, in, out, ends, written, intact, late, rd, ticks, later>>
  BY DEF Unpiped, PullMid, Return, Running, states, history
<1>2. ~Moving(Head(stack))
  BY <1>1 DEF Moving, Carries
<1>3. << >> \in Seq(Light) /\ Stacked(<< >>)
  BY NoFrames
<1> QED
  BY <1>1, <1>2, <1>3, PlainThen

LEMMA AnswersAreLight ==
  ASSUME FinishInv, NEW frames \in Answers
  PROVE  frames \in Seq(Light) /\ Stacked(frames)
<1> DEFINE null == Frame("push", "src")
           next == Chunk("push", "src", source.given + 1)
           none == Chunk("push", "src", Empty)
<1>1. source.given \in Nat
  BY DEF FinishInv, SourceInv, StreamsTypes
<1>2. null \in Light /\ next \in Light /\ none \in Light
  BY <1>1, LightFrames DEF Empty
<1>3. frames \in {<< >>, <<null>>, <<next>>, <<next, null>>, <<none>>}
  BY DEF Answers
<1> HIDE DEF null, next, none
<1>4. << >> \in Seq(Light) /\ <<null>> \in Seq(Light) /\ <<next>> \in Seq(Light)
      /\ <<next, null>> \in Seq(Light) /\ <<none>> \in Seq(Light)
  BY <1>2
<1>5. Above(next, null)
  BY <1>2, LightIs
<1>6. Stacked(<< >>) /\ Stacked(<<null>>) /\ Stacked(<<next>>) /\ Stacked(<<next, null>>) /\ Stacked(<<none>>)
  BY <1>5, FewFrames
<1> QED
  BY <1>3, <1>4, <1>6

LEMMA PullSrcCarries ==
  ASSUME FinishInv, PullSrc
  PROVE  Kept
<1>1. /\ stack # << >> /\ Head(stack).f = "pull"
      /\ UNCHANGED <<wr, in, out, ends, written, intact, late, rd, ticks>>
      /\ \/ \E frames \in Answers : Then(frames) /\ UNCHANGED later
         \/ later' = later \cup {Frame("pull", "src")} /\ Then(<< >>)
  BY DEF PullSrc, Running, history
<1>2. ~Moving(Head(stack))
  BY <1>1 DEF Moving, Carries
<1>3. << >> \in Seq(Light) /\ Stacked(<< >>)
  BY NoFrames
<1>4. \A frames \in Answers : frames \in Seq(Light) /\ Stacked(frames)
  BY AnswersAreLight
<1>5. Frame("pull", "src").f = "pull"
  BY DEF Frame
<1>6. CASE \E frames \in Answers : Then(frames) /\ UNCHANGED later
  BY <1>1, <1>2, <1>4, <1>6, PlainThen
<1>7. CASE later' = later \cup {Frame("pull", "src")} /\ Then(<< >>)
  BY <1>1, <1>2, <1>3, <1>5, <1>7, PlainThen
<1> QED
  BY <1>1, <1>6, <1>7

----------------------------------------------------------------------------
(* The library's actions that move no chunk *)
LEMMA Runs ==
  ASSUME FinishInv, stack # << >>
  PROVE  /\ SourceInv /\ Head(stack) \in Frames /\ Head(stack).c \in Int /\ Sure(Head(stack))
         /\ Head(stack).f \notin {"write", "close", "finish"} => Me \in Readables /\ rd[Me] \in ReadState
         /\ Head(stack).f \in {"write", "close", "finish"} => Me \in Writables
         /\ Head(stack).f # "write" /\ (Head(stack).f = "push" => Head(stack).c <= 0) => ~Moving(Head(stack))
<1>1. SourceInv
  BY DEF FinishInv
<1>2. Head(stack).f # "write" /\ (Head(stack).f = "push" => Head(stack).c <= 0) /\ Head(stack).c \in Int
        => ~Moving(Head(stack))
  BY DEF Moving, Carries
<1> QED
  BY <1>1, <1>2, RunsOn, TailIs

LEMMA PushEndCarries ==
  ASSUME FinishInv, PushEnd
  PROVE  Kept
<1> DEFINE s == Me
           e == [rd[s] EXCEPT !.ended = TRUE]
           r == Acknowledged(e)
           f == InFlow(r)
           t == SchedulesReadable(s, r)
           b == r.readableScheduled \/ t # << >>
           g == [r EXCEPT !.readableScheduled = b]
<1>1. /\ stack # << >> /\ Head(stack).f = "push" /\ Head(stack).c = 0
      /\ UNCHANGED <<later, wr, in, out, ends, written, intact, late>>
      /\ \/ Set(s, f) /\ Then(FlowFrames(s, r)) /\ UNCHANGED ticks
         \/ Set(s, g) /\ ticks' = ticks \o t /\ Then(<< >>)
  BY DEF PushEnd, Running, history, EndFrames, Null
<1>2. s \in Readables /\ rd[s] \in ReadState /\ ~Moving(Head(stack))
  BY <1>1, Runs
<1>3. s = "mid" => wr["mid"].ended
  BY <1>1, Runs DEF Me, Sure, Null
<1>4. s = "mid" /\ ~late /\ (rd[s].endEmitted \/ rd[s].endPending) => rd[s].buffer = << >>
  BY DEF FinishInv, WritesInv, MidSpent
<1> HIDE DEF s
<1>5. /\ e \in ReadState /\ e.buffer = rd[s].buffer /\ e.ended /\ e.flowingNow = rd[s].flowingNow
      /\ e.endEmitted = rd[s].endEmitted /\ e.endPending = rd[s].endPending
  BY <1>2 DEF ReadState
<1> HIDE DEF e
<1>6. /\ r \in ReadState /\ r.buffer = e.buffer /\ r.ended /\ r.flowingNow = e.flowingNow
      /\ r.endEmitted = e.endEmitted /\ r.endPending = e.endPending
  BY <1>5 DEF ReadState, Acknowledged
<1> HIDE DEF r
<1>7. Calm(f, s) /\ f.flowingNow
  BY <1>3, <1>4, <1>5, <1>6 DEF Calm, InFlow, ReadState
<1> HIDE DEF f
<1>8. b \in BOOLEAN
  BY <1>6 DEF ReadState
<1> HIDE DEF b
<1>9. Calm(g, s)
  BY <1>3, <1>4, <1>5, <1>6, <1>8 DEF Calm, ReadState
<1> HIDE DEF g
<1>10. CASE Set(s, f) /\ Then(FlowFrames(s, r)) /\ UNCHANGED ticks
  <2> DEFINE frames == FlowFrames(s, r)
  <2>1. frames \in Seq(Light \cup FlowOf(s)) /\ Stacked(frames) /\ (rd[s].flowingNow => frames \in Seq(Light))
    BY <1>2, <1>5, <1>6, PartsAre
  <2> HIDE DEF frames
  <2>2. Then(frames)
    BY <1>10 DEF frames
  <2> QED
    BY <1>1, <1>2, <1>7, <1>10, <2>1, <2>2, CalmThen
<1>11. CASE Set(s, g) /\ ticks' = ticks \o t /\ Then(<< >>)
  <2>1. t \in Seq(Frames) /\ \A x \in Range(t) : x.f # "end"
    BY <1>2, PartsAre
  <2> HIDE DEF t
  <2>2. \A x \in Range(ticks') : x \in Range(ticks) \/ x.f # "end"
    BY <1>11, <2>1, TicksAre
  <2>3. << >> \in Seq(Light \cup FlowOf(s))
    BY <1>2, PartsAre
  <2> QED
    BY <1>1, <1>2, <1>9, <1>11, <2>2, <2>3, NoFrames, CalmThen
<1> QED
  BY <1>1, <1>10, <1>11

\* Steps that set flags, and put no more than _emitFlow() on the stack.
LEMMA FlagsKeep ==
  ASSUME FinishInv, stack # << >>, ~Moving(Head(stack)),
         NEW s \in Readables, NEW q, Same(q, rd[s]), rd[s].flowingNow => q.flowingNow, Set(s, q),
         NEW frames \in Seq(Light \cup FlowOf(s)), Stacked(frames), Then(frames),
         frames \in Seq(Light) \/ (q.flowingNow /\ (~rd[s].flowingNow \/ Flowing(s, Head(stack)))),
         UNCHANGED <<later, wr, in, out, ends, written, intact, late>>,
         NEW t \in Seq(Frames), \A x \in Range(t) : x.f # "end", ticks' = ticks \o t
  PROVE  Kept
<1>1. Calm(q, s)
  BY SameIsCalm
<1>2. \A x \in Range(ticks') : x \in Range(ticks) \/ x.f # "end"
  BY TicksAre
<1> QED
  BY <1>1, <1>2, CalmThen

LEMMA NoTicks ==
  ASSUME FinishInv
  PROVE  << >> \in Seq(Frames) /\ (\A x \in Range(<< >>) : x.f # "end") /\ ticks = ticks \o << >>
<1>1. ticks \in Seq(Frames)
  BY DEF FinishInv, SourceInv, StreamsTypes
<1>2. Range(<< >>) = {}
  BY FewFrames
<1> QED
  BY <1>1, <1>2

LEMMA PushEmptyCarries ==
  ASSUME FinishInv, PushEmpty
  PROVE  Kept
<1> DEFINE s == Me
           r == Acknowledged(rd[s])
           t == IF Flows(r) THEN << >> ELSE ReadsMore(s, r)
           b == r.readingMore \/ t # << >>
           q == [r EXCEPT !.readingMore = b]
<1>1. /\ stack # << >> /\ Head(stack).f = "push" /\ Head(stack).c = -1
      /\ UNCHANGED <<later, wr, in, out, ends, written, intact, late>>
      /\ Set(s, q) /\ ticks' = ticks \o t /\ Then(<< >>)
  BY DEF PushEmpty, Running, history, Empty
<1>2. s \in Readables /\ rd[s] \in ReadState /\ ~Moving(Head(stack))
  BY <1>1, Runs
<1>3. ReadsMore(s, r) \in Seq(Frames) /\ (\A x \in Range(ReadsMore(s, r)) : x.f # "end")
  BY <1>2, PartsAre
<1>4. t \in Seq(Frames) /\ \A x \in Range(t) : x.f # "end"
  BY <1>3, NoTicks
<1> HIDE DEF s, t
<1>5. Same(r, rd[s]) /\ r.flowingNow = rd[s].flowingNow /\ r \in ReadState
  BY <1>2, FlagsAreSame DEF Acknowledged, ReadState
<1> HIDE DEF r
<1>6. b \in BOOLEAN
  BY <1>5 DEF ReadState
<1> HIDE DEF b
<1>7. Same(q, r) /\ q.flowingNow = r.flowingNow
  BY <1>5, <1>6, FlagsAreSame DEF ReadState
<1> HIDE DEF q
<1>8. Same(q, rd[s])
  BY <1>5, <1>7, SameIsTransitive
<1>9. << >> \in Seq(Light \cup FlowOf(s))
  BY <1>2, PartsAre
<1> QED
  BY <1>1, <1>2, <1>4, <1>5, <1>7, <1>8, <1>9, NoFrames, FlagsKeep

LEMMA RefillCarries ==
  ASSUME FinishInv, Refill
  PROVE  Kept
<1> DEFINE s == Me
           q == [rd[s] EXCEPT !.readingMore = TRUE]
<1>1. /\ stack # << >> /\ Head(stack).f = "refill"
      /\ UNCHANGED <<later, wr, in, out, ends, written, intact, late>>
      /\ Set(s, q) /\ ticks' = ticks \o ReadsMore(s, rd[s]) /\ Then(<< >>)
  BY DEF Refill, Running, history
<1>2. s \in Readables /\ rd[s] \in ReadState /\ ~Moving(Head(stack))
  BY <1>1, Runs
<1>3. ReadsMore(s, rd[s]) \in Seq(Frames) /\ (\A x \in Range(ReadsMore(s, rd[s])) : x.f # "end")
  BY <1>2, PartsAre
<1>4. Same(q, rd[s]) /\ q.flowingNow = rd[s].flowingNow
  BY <1>2, FlagsAreSame DEF ReadState
<1>5. << >> \in Seq(Light \cup FlowOf(s))
  BY <1>2, PartsAre
<1> HIDE DEF s, q
<1> QED
  BY <1>1, <1>2, <1>3, <1>4, <1>5, NoFrames, FlagsKeep

LEMMA LoopCarries ==
  ASSUME FinishInv, Loop
  PROVE  Kept
<1> DEFINE s == Me
           q == [rd[s] EXCEPT !.reading = TRUE]
           a == <<Frame("leave", s)>>
           b == <<Frame("pull", s), Frame("take", s)>>
           c == <<Frame("take", s)>>
<1>1. /\ stack # << >> /\ Head(stack).f = "loop"
      /\ UNCHANGED <<ticks, later, wr, in, out, ends, written, intact, late>>
      /\ \/ Then(a) /\ UNCHANGED rd
         \/ Set(s, q) /\ Then(b)
         \/ Then(c) /\ UNCHANGED rd
  BY DEF Loop, Running, history
<1>2. s \in Readables /\ rd[s] \in ReadState /\ ~Moving(Head(stack)) /\ SourceInv
  BY <1>1, Runs
<1>3. Flowing(s, Head(stack))
  BY <1>1 DEF Flowing, Me
<1>4. rd[s].flowingNow
  BY <1>1, <1>2, <1>3, NotBusy
<1>5. /\ Frame("take", s) \in FlowOf(s) /\ Frame("leave", s) \in FlowOf(s) /\ Frame("pull", s) \in Light
  BY <1>2, FlowFramesAre, LightFrames
<1>6. Above(Frame("pull", s), Frame("take", s))
  BY <1>2, <1>5, FlowIs, LightIs DEF Moving
<1> HIDE DEF Frame
<1>7. /\ a \in Seq(Light \cup FlowOf(s)) /\ b \in Seq(Light \cup FlowOf(s)) /\ c \in Seq(Light \cup FlowOf(s))
  BY <1>5
<1>8. Stacked(a) /\ Stacked(b) /\ Stacked(c)
  BY <1>6, FewFrames
<1> HIDE DEF a, b, c, s
<1>9. Same(q, rd[s]) /\ q.flowingNow /\ Same(rd[s], rd[s])
  BY <1>2, <1>4, FlagsAreSame DEF ReadState
<1> HIDE DEF q
<1>10. UNCHANGED rd => Set(s, rd[s])
  BY <1>2, Unmoved
<1>11. \E z \in {q, rd[s]}, frames \in {a, b, c} : Set(s, z) /\ Then(frames)
  BY <1>1, <1>10
<1>12. PICK z \in {q, rd[s]}, frames \in {a, b, c} : Set(s, z) /\ Then(frames)
  BY <1>11
<1>13. Same(z, rd[s]) /\ z.flowingNow /\ frames \in Seq(Light \cup FlowOf(s)) /\ Stacked(frames)
  BY <1>4, <1>7, <1>8, <1>9
<1> QED
  BY <1>1, <1>2, <1>3, <1>12, <1>13, NoTicks, FlagsKeep

LEMMA FlowsOn ==
  ASSUME FinishInv, stack # << >>, ~Moving(Head(stack)), NEW s \in Readables,
         (Set(s, InFlow(rd[s])) /\ Then(FlowFrames(s, rd[s]))) \/ (Then(<< >>) /\ UNCHANGED rd),
         UNCHANGED <<ticks, later, wr, in, out, ends, written, intact, late>>
  PROVE  Kept
<1>1. SourceInv /\ rd[s] \in ReadState
  BY Typed DEF FinishInv
<1>2. CASE Set(s, InFlow(rd[s])) /\ Then(FlowFrames(s, rd[s]))
  <2> DEFINE frames == FlowFrames(s, rd[s])
             q == InFlow(rd[s])
  <2>1. frames \in Seq(Light \cup FlowOf(s)) /\ Stacked(frames) /\ (rd[s].flowingNow => frames \in Seq(Light))
    BY PartsAre
  <2>2. Same(q, rd[s]) /\ q.flowingNow
    BY <1>1, FlagsAreSame DEF InFlow, ReadState
  <2>3. Set(s, q) /\ Then(frames)
    BY <1>2
  <2> HIDE DEF frames, q
  <2> QED
    BY <1>1, <2>1, <2>2, <2>3, NoTicks, FlagsKeep
<1>3. CASE Then(<< >>) /\ UNCHANGED rd
  BY <1>3, NoFrames, PlainThen
<1> QED
  BY <1>2, <1>3

LEMMA FillCarries ==
  ASSUME FinishInv, Fill \/ FillEnds
  PROVE  Kept
<1> DEFINE s == Me
           a == Frame("pull", s)
           b == Chunk("filled", s, Len(rd[s].buffer))
           frames == <<a, b>>
           q == [rd[s] EXCEPT !.reading = TRUE]
<1>1. /\ stack # << >> /\ Head(stack).f \in {"fill", "filled"}
      /\ UNCHANGED <<ticks, later, wr, in, out, ends, written, intact, late>>
      /\ \/ Set(s, q) /\ Then(frames)
         \/ (Set(s, InFlow(rd[s])) /\ Then(FlowFrames(s, rd[s]))) \/ (Then(<< >>) /\ UNCHANGED rd)
  BY DEF Fill, FillEnds, Running, history
<1>2. s \in Readables /\ rd[s] \in ReadState /\ ~Moving(Head(stack))
  BY <1>1, Runs
<1>3. CASE Set(s, q) /\ Then(frames)
  <2>1. Len(rd[s].buffer) \in Int
    BY <1>2 DEF ReadState
  <2>2. a \in Light /\ b \in Light
    BY <1>2, <2>1, LightFrames
  <2> HIDE DEF a, b
  <2>3. frames \in Seq(Light) /\ frames \in Seq(Light \cup FlowOf(s)) /\ Above(a, b)
    BY <2>2, LightIs
  <2>4. Stacked(frames)
    BY <2>3, FewFrames
  <2>5. Same(q, rd[s]) /\ q.flowingNow = rd[s].flowingNow
    BY <1>2, FlagsAreSame DEF ReadState
  <2> HIDE DEF frames, q, s
  <2> QED
    BY <1>1, <1>2, <1>3, <2>3, <2>4, <2>5, NoTicks, FlagsKeep
<1> HIDE DEF s
<1>4. CASE (Set(s, InFlow(rd[s])) /\ Then(FlowFrames(s, rd[s]))) \/ (Then(<< >>) /\ UNCHANGED rd)
  BY <1>1, <1>2, <1>4, FlowsOn
<1> QED
  BY <1>1, <1>3, <1>4

----------------------------------------------------------------------------
(* Callbacks *)
LEMMA NothingUnder ==
  Under(<< >>) /\ Range(<< >>) = {} /\ \A S : \A f \in Seq(S) : f = f \o << >>
<1>1. Stacked(<< >>) /\ Range(<< >>) = {}
  BY FewFrames
<1> QED
  BY <1>1 DEF Under

LEMMA TickCarries ==
  ASSUME FinishInv, Tick
  PROVE  Kept
<1> DEFINE t == Head(ticks)
           r == rd[t.s]
           m == [r EXCEPT !.readingMore = FALSE]
           d == [r EXCEPT !.readableScheduled = FALSE]
           p == [r EXCEPT !.reading = TRUE]
           woken == IF ~Flows(r) /\ (r.buffer # << >> \/ r.ended) THEN <<User>> ELSE << >>
<1>1. /\ stack = << >> /\ ticks # << >> /\ ticks' = Tail(ticks)
      /\ UNCHANGED <<later, wr, in, out, ends, written, intact, late>>
      /\ \/ t.f = "more" /\ Set(t.s, m) /\ stack' = <<Frame("fill", t.s)>>
         \/ t.f = "readable" /\ Set(t.s, d) /\ stack' = woken
         \/ t.f = "end" /\ stack' = <<t>> /\ UNCHANGED rd
         \/ t.f = "first" /\ UNCHANGED <<rd, stack>>
         \/ t.f = "first" /\ Set(t.s, p) /\ stack' = <<Frame("pull", t.s)>>
  BY DEF Tick, history
<1>2. SourceInv
  BY DEF FinishInv
<1>3. t \in Frames /\ t \in Range(ticks) /\ \A x \in Range(ticks') : x \in Range(ticks)
  BY <1>1, <1>2, TicksDrop
<1>4. \A x \in Frames : x.f \notin {"write", "close", "finish"} => x.s \in Readables
  BY DEF Frames
<1>5. t.s \in Readables /\ r \in ReadState
  BY <1>1, <1>2, <1>3, <1>4, Typed
<1>6. \A x \in Range(stack) : FALSE
  BY <1>1, NothingUnder
<1> HIDE DEF t
<1>7. CASE t.f # "end"
  <2>1. Same(m, r) /\ Same(d, r) /\ Same(p, r) /\ Same(r, r)
    BY <1>5, FlagsAreSame
  <2>2. m.flowingNow = r.flowingNow /\ d.flowingNow = r.flowingNow /\ p.flowingNow = r.flowingNow
    BY <1>5 DEF ReadState
  <2> HIDE DEF m, d, p
  <2>3. UNCHANGED rd => Set(t.s, r)
    BY <1>2, <1>5, Unmoved
  <2>4. <<User>> \in Seq(Light) /\ <<Frame("fill", t.s)>> \in Seq(Light) /\ <<Frame("pull", t.s)>> \in Seq(Light)
        /\ << >> \in Seq(Light)
    BY <1>5, LightFrames
  <2>5. \A a : Stacked(<<a>>) /\ Stacked(<< >>)
    BY FewFrames
  <2>6. \E q \in {m, d, p, r} : Set(t.s, q) /\ stack' \in Seq(Light) /\ Stacked(stack')
    BY <1>1, <1>7, <2>3, <2>4, <2>5
  <2>7. PICK q \in {m, d, p, r} : Set(t.s, q)
    BY <2>6
  <2>8. Calm(q, t.s)
    BY <1>5, <2>1, <2>2, SameIsCalm
  <2>9. stack' \in Seq(Light \cup FlowOf(t.s)) /\ stack' = stack' \o << >>
    BY <2>6
  <2>10. \A a \in Range(stack') : a \notin FlowOf(t.s)
    BY <2>6 DEF Range, Light, FlowOf, Flowing
  <2> QED
    BY <1>1, <1>3, <1>5, <1>6, <2>6, <2>7, <2>8, <2>9, <2>10, NothingUnder, CalmKeeps2
<1>8. CASE t.f = "end"
  <2>1. stack' = <<t>> /\ stack' = <<t>> \o << >> /\ UNCHANGED rd
    BY <1>1, <1>8
  <2>2. Firm /\ WritesInv'
    BY <1>1, <2>1 DEF Firm, MidSpent, FinishInv, WritesInv
  <2>3. Sure(t) /\ ~Moving(t)
    BY <1>3, <1>8 DEF FinishInv, FramesInv, Sure, Flowing, Writing, Ending, Carries, Moving
  <2>4. \A x \in later : Sure(x) /\ (Carries(x) \/ x.f \in {"pull", "end"})
    BY DEF FinishInv, FramesInv
  <2>5. ~late' => \A x \in Range(ticks') : Ending("mid", x) => MidSpent'
    BY <1>1, <1>3, <2>2 DEF FinishInv, FramesInv, Firm
  <2>6. <<t>> \in Seq(Frames) /\ Stacked(<<t>>) /\ Range(<<t>>) = {t} /\ Range(stack') = {t}
    <3>1. <<t>> \in Seq(Frames)
      BY <1>3
    <3> QED
      BY <2>1, <3>1, FewFrames
  <2>7. FramesInv'
    <3>1. \A x \in Range(<<t>>) \cup Range(<< >>) \cup later' : Sure(x)'
      BY <1>1, <2>2, <2>3, <2>4, <2>6, NothingUnder, SureMoves
    <3>2. \A a \in Range(<<t>>), b \in Range(<< >>) : Above(a, b)
      BY NothingUnder
    <3>3. \A x \in later' : Carries(x) \/ x.f \in {"pull", "end"}
      BY <1>1, <2>4
    <3> QED
      BY <2>1, <2>5, <2>6, <3>1, <3>2, <3>3, NothingUnder, FramesKeep
  <2>8. ChunksInv'
    <3>1. \A x : x.f = "write" => (x \in Range(stack) <=> x \in Range(stack'))
      BY <1>6, <2>3, <2>6 DEF Moving
    <3> QED
      BY <1>1, <1>6, <2>1, <2>3, <2>6, <3>1, ChunksStay
  <2> QED
    BY <2>2, <2>7, <2>8 DEF Kept
<1> QED
  BY <1>7, <1>8

LEMMA LaterCarries ==
  ASSUME FinishInv, Later
  PROVE  Kept
<1>1. PICK t \in later :
        /\ later' = later \ {t}
        /\ IF t.f = "pull" THEN \E frames \in Answers : Answered(frames) /\ stack' = frames
           ELSE stack' = <<t>> /\ UNCHANGED source
  BY DEF Later
<1>2. stack = << >> /\ UNCHANGED <<ticks, rd, wr, in, out, ends, written, intact, late>>
  BY DEF Later, Idle, history
<1>3. Firm /\ WritesInv'
  BY <1>2 DEF Firm, MidSpent, FinishInv, WritesInv
<1>4. \A x \in later : Sure(x) /\ (Carries(x) \/ x.f \in {"pull", "end"}) /\ x \in Frames
  BY DEF FinishInv, FramesInv, SourceInv, StreamsTypes
<1>5. ~late' => \A x \in Range(ticks') : Ending("mid", x) => MidSpent'
  BY <1>2, <1>3 DEF FinishInv, FramesInv, Firm
<1>6. \A x \in Range(stack) : FALSE
  BY <1>2, NothingUnder
<1>7. PICK frames \in Seq(Frames) :
        /\ stack' = frames /\ Stacked(frames)
        /\ (t.f = "pull" /\ \A x \in Range(frames) : x \in Light) \/ (t.f # "pull" /\ Range(frames) = {t})
  <2>1. CASE t.f = "pull"
    <3>1. PICK frames \in Answers : stack' = frames
      BY <1>1, <2>1
    <3>2. frames \in Seq(Light) /\ Stacked(frames)
      BY AnswersAreLight
    <3>3. frames \in Seq(Frames) /\ \A x \in Range(frames) : x \in Light
      BY <3>2 DEF Light, Range
    <3> QED
      BY <2>1, <3>1, <3>2, <3>3
  <2>2. CASE t.f # "pull"
    <3>1. stack' = <<t>> /\ <<t>> \in Seq(Frames)
      BY <1>1, <1>4, <2>2
    <3>2. Stacked(<<t>>) /\ Range(<<t>>) = {t}
      BY FewFrames
    <3> QED
      BY <2>2, <3>1, <3>2
  <2> QED
    BY <2>1, <2>2
<1>8. stack' = frames \o << >>
  BY <1>7
<1>9. \A x \in Range(frames) : Sure(x)'
  BY <1>3, <1>4, <1>7, LightIs, SureMoves
<1>10. FramesInv'
  <2>1. \A x \in Range(frames) \cup Range(<< >>) \cup later' : Sure(x)'
    BY <1>1, <1>3, <1>4, <1>9, NothingUnder, SureMoves
  <2>2. \A a \in Range(frames), b \in Range(<< >>) : Above(a, b)
    BY NothingUnder
  <2>3. \A x \in later' : Carries(x) \/ x.f \in {"pull", "end"}
    BY <1>1, <1>4
  <2> QED
    BY <1>5, <1>7, <1>8, <2>1, <2>2, <2>3, NothingUnder, FramesKeep
<1>11. \A x : x.f = "write" => (x \in Range(stack) <=> x \in Range(stack'))
  <2>1. t.f # "write"
    BY <1>4 DEF Carries
  <2> QED
    BY <1>6, <1>7, <2>1 DEF Light
<1>12. /\ \A x \in Range(stack') \cup later' : Moving(x) => x \in Range(stack) \cup later
       /\ \A x \in Range(stack) \cup later : Moving(x) => x \in Range(stack') \cup later'
  <2>1. \A x \in Light : ~Moving(x)
    BY LightIs
  <2>2. t.f = "pull" => ~Moving(t)
    BY DEF Moving, Carries
  <2> QED
    BY <1>1, <1>6, <1>7, <2>1, <2>2
<1>13. ChunksInv'
  BY <1>2, <1>11, <1>12, ChunksStay
<1> QED
  BY <1>3, <1>10, <1>13 DEF Kept

----------------------------------------------------------------------------
(* Calls of the script *)
\* Calls that set flags, and run no more than _emitFlow().
LEMMA FlagsCall ==
  ASSUME FinishInv, Calls, NEW s \in Readables, NEW q, Same(q, rd[s]),
         rd[s].flowingNow => q.flowingNow, Set(s, q),
         UNCHANGED <<wr, in, out, ends, written, intact, late, later>>,
         NEW frames \in Seq(Light \cup FlowOf(s)), Stacked(frames), ThenScript(frames),
         frames \in Seq(Light) \/ (q.flowingNow /\ ~rd[s].flowingNow),
         \A t \in Range(ticks') : t \in Range(ticks) \/ t.f # "end"
  PROVE  Kept
<1>1. Calm(q, s)
  BY SameIsCalm
<1> QED
  BY <1>1, CalmScript

\* What resume() runs.
LEMMA ResumeIs ==
  ASSUME NEW s \in Readables, NEW r, NEW h \in ReadState,
         h.flowing = r.flowing, h.flowingNow = r.flowingNow
  PROVE  /\ Same(Resumed(h), h) /\ (h.flowingNow => Resumed(h).flowingNow)
         /\ ResumeFrames(s, r) \in Seq(Light \cup FlowOf(s)) /\ Stacked(ResumeFrames(s, r))
         /\ ResumeFrames(s, r) \in Seq(Light) \/ (Resumed(h).flowingNow /\ ~r.flowingNow)
<1>1. Same(Resumed(h), h)
  BY FlagsAreSame
<1>2. Resumed(h).flowingNow \/ Resumed(h) = h
  <2> DEFINE y == [h EXCEPT !.flowing = "yes"]
  <2>1. y \in ReadState
    BY DEF ReadState
  <2>2. Resumed(h) \in {h, InFlow(y)}
    BY DEF Resumed
  <2> HIDE DEF y
  <2>3. InFlow(y).flowingNow
    BY <2>1 DEF InFlow, ReadState
  <2> QED
    BY <2>2, <2>3
<1>3. ResumeFrames(s, r) = << >> \/ (ResumeFrames(s, r) = FlowFrames(s, r) /\ ~Flows(r))
  BY DEF ResumeFrames
<1>4. ~Flows(r) => Resumed(h).flowingNow
  <2> DEFINE y == [h EXCEPT !.flowing = "yes"]
  <2>1. y \in ReadState
    BY DEF ReadState
  <2>2. ~Flows(r) => Resumed(h) = InFlow(y)
    BY DEF Resumed, Flows
  <2> HIDE DEF y
  <2>3. InFlow(y).flowingNow
    BY <2>1 DEF InFlow, ReadState
  <2> QED
    BY <2>2, <2>3
<1>5. << >> \in Seq(Light \cup FlowOf(s)) /\ << >> \in Seq(Light) /\ Stacked(<< >>)
  BY PartsAre, NoFrames
<1>6. r.flowingNow \in BOOLEAN
  BY DEF ReadState
<1> QED
  BY <1>1, <1>2, <1>3, <1>4, <1>5, <1>6, PartsAre

LEMMA OnDataCarries ==
  ASSUME FinishInv, NEW s \in Readables, OnData(s) \/ Resume(s)
  PROVE  Kept
<1> DEFINE q == Resumed(rd[s])
           frames == ResumeFrames(s, rd[s])
<1>1. /\ Calls /\ UNCHANGED <<ticks, later, wr, in, out, ends, written, intact, late>>
      /\ (Set(s, q) /\ ThenScript(frames)) \/ (UNCHANGED rd /\ ThenScript(<< >>))
  BY DEF OnData, Resume, history
<1>2. SourceInv /\ rd[s] \in ReadState /\ (UNCHANGED rd => Set(s, rd[s])) /\ Same(rd[s], rd[s])
  BY Typed, Unmoved, FlagsAreSame DEF FinishInv
<1>3. CASE Set(s, q) /\ ThenScript(frames)
  <2>1. /\ Same(q, rd[s]) /\ (rd[s].flowingNow => q.flowingNow)
        /\ frames \in Seq(Light \cup FlowOf(s)) /\ Stacked(frames)
        /\ frames \in Seq(Light) \/ (q.flowingNow /\ ~rd[s].flowingNow)
    BY <1>2, ResumeIs
  <2> HIDE DEF q, frames
  <2> QED
    BY <1>1, <1>3, <2>1, FlagsCall
<1>4. CASE UNCHANGED rd /\ ThenScript(<< >>)
  <2>1. << >> \in Seq(Light \cup FlowOf(s))
    BY PartsAre
  <2> QED
    BY <1>1, <1>2, <1>4, <2>1, NoFrames, FlagsCall
<1> QED
  BY <1>1, <1>3, <1>4

LEMMA PauseCarries ==
  ASSUME FinishInv, NEW s \in Readables, Pause(s)
  PROVE  Kept
<1> DEFINE q == [rd[s] EXCEPT !.flowing = "no"]
<1>1. /\ Calls /\ UNCHANGED <<ticks, later, wr, in, out, ends, written, intact, late>>
      /\ Set(s, q) /\ ThenScript(<< >>)
  BY DEF Pause, history
<1>2. rd[s] \in ReadState
  BY Typed DEF FinishInv
<1>3. Same(q, rd[s]) /\ q.flowingNow = rd[s].flowingNow
  BY <1>2, FlagsAreSame DEF ReadState
<1>4. << >> \in Seq(Light \cup FlowOf(s))
  BY PartsAre
<1> HIDE DEF q
<1> QED
  BY <1>1, <1>3, <1>4, NoFrames, FlagsCall

LEMMA PipesCarry ==
  ASSUME FinishInv, NEW s \in Readables, Unpipe(s) \/ Destroy(s)
  PROVE  Kept
<1>1. /\ Calls /\ UNCHANGED <<rd, ticks, later, wr, in, out, ends, written, intact, late>>
      /\ ThenScript(<< >>)
  BY DEF Unpipe, Destroy, history
<1>2. Set(s, rd[s]) /\ Same(rd[s], rd[s])
  BY <1>1, Typed, Unmoved, FlagsAreSame DEF FinishInv
<1>3. << >> \in Seq(Light \cup FlowOf(s))
  BY PartsAre
<1> QED
  BY <1>1, <1>2, <1>3, NoFrames, FlagsCall

LEMMA ReadCarries ==
  ASSUME FinishInv, NEW s \in Readables, Read(s)
  PROVE  Kept
<1> DEFINE asks == MayAsk(rd[s])
           b == rd[s].reading \/ asks
           q == [rd[s] EXCEPT !.reading = b]
           a == Frame("pull", s)
           d == Frame("readRest", s)
           frames == (IF asks THEN <<a>> ELSE << >>) \o <<d>>
<1>1. /\ Calls /\ UNCHANGED <<ticks, later, wr, in, out, ends, written, intact, late>>
      /\ Set(s, q) /\ ThenScript(frames)
  BY DEF Read, history
<1>2. rd[s] \in ReadState /\ a \in Light /\ d \in Light
  BY Typed, LightFrames DEF FinishInv
<1>3. b \in BOOLEAN
  BY <1>2 DEF ReadState, MayAsk
<1> HIDE DEF b
<1>4. Same(q, rd[s]) /\ q.flowingNow = rd[s].flowingNow
  BY <1>2, <1>3, FlagsAreSame DEF ReadState
<1> HIDE DEF q, a, d, asks
<1>5. frames \in {<<a, d>>, <<d>>}
  <2>1. <<a>> \o <<d>> = <<a, d>> /\ << >> \o <<d>> = <<d>>
    BY <1>2, Joins
  <2>2. frames = <<a>> \o <<d>> \/ frames = << >> \o <<d>>
    OBVIOUS
  <2> HIDE DEF frames
  <2> QED
    BY <2>1, <2>2
<1>6. <<a, d>> \in Seq(Light) /\ <<d>> \in Seq(Light) /\ Above(a, d)
  BY <1>2, LightIs
<1>7. Stacked(<<a, d>>) /\ Stacked(<<d>>)
  BY <1>6, FewFrames
<1> HIDE DEF frames
<1>8. frames \in Seq(Light) /\ Stacked(frames)
  BY <1>5, <1>6, <1>7
<1>9. frames \in Seq(Light \cup FlowOf(s))
  BY <1>8, PartsAre
<1> QED
  BY <1>1, <1>4, <1>8, <1>9, FlagsCall

LEMMA OnReadableCarries ==
  ASSUME FinishInv, NEW s \in Readables, OnReadable(s)
  PROVE  Kept
<1> DEFINE q == [rd[s] EXCEPT !.readableScheduled = TRUE]
           a == Frame("readable", s)
           d == Frame("first", s)
<1>1. /\ Calls /\ UNCHANGED <<later, wr, in, out, ends, written, intact, late>>
      /\ Set(s, q) \/ UNCHANGED rd
      /\ ticks' \in {ticks, Append(ticks, a), Append(ticks, d)}
      /\ ThenScript(<< >>)
  BY DEF OnReadable, history
<1>2. SourceInv /\ rd[s] \in ReadState /\ ticks \in Seq(Frames)
  BY Typed DEF FinishInv, SourceInv, StreamsTypes
<1>3. Same(q, rd[s]) /\ q.flowingNow = rd[s].flowingNow /\ Same(rd[s], rd[s]) /\ (UNCHANGED rd => Set(s, rd[s]))
  BY <1>2, FlagsAreSame, Unmoved DEF ReadState
<1>4. a \in Frames /\ d \in Frames /\ a.f # "end" /\ d.f # "end"
  BY DEF Frame, Frames, Null
<1> HIDE DEF q, a, d
<1>5. \A x \in {a, d} : <<x>> \in Seq(Frames) /\ Append(ticks, x) = ticks \o <<x>>
  BY <1>2, <1>4
<1>6. \A x : Range(<<x>>) = {x}
  BY FewFrames
<1>7. \A x \in {a, d} : ticks' = Append(ticks, x) =>
        \A t \in Range(ticks') : t \in Range(ticks) \/ t.f # "end"
  <2> SUFFICES ASSUME NEW x \in {a, d}, ticks' = Append(ticks, x)
               PROVE  \A t \in Range(ticks') : t \in Range(ticks) \/ t.f # "end"
    OBVIOUS
  <2>1. <<x>> \in Seq(Frames) /\ ticks' = ticks \o <<x>>
    BY <1>5
  <2>2. \A t \in Range(<<x>>) : t.f # "end"
    BY <1>4, <1>6
  <2> QED
    BY <2>1, <2>2, TicksAre
<1>8. \A t \in Range(ticks') : t \in Range(ticks) \/ t.f # "end"
  BY <1>1, <1>7
<1>9. \E z \in {q, rd[s]} : Set(s, z)
  BY <1>1, <1>3
<1>10. PICK z \in {q, rd[s]} : Set(s, z)
  BY <1>9
<1>11. Same(z, rd[s]) /\ (rd[s].flowingNow => z.flowingNow) /\ << >> \in Seq(Light \cup FlowOf(s))
  BY <1>3, PartsAre
<1> QED
  BY <1>1, <1>8, <1>10, <1>11, NoFrames, FlagsCall

\* An 'end' that found no listener when the stream was over.
LEMMA HookIs ==
  ASSUME FinishInv, NEW s \in Readables
  PROVE  /\ Calm(Hooked(rd[s]), s) /\ Hooked(rd[s]).flowing = rd[s].flowing
         /\ Hooked(rd[s]).flowingNow = rd[s].flowingNow
         /\ \A t \in HookLater(s, rd[s]) : t.f = "end" /\ (t.s = "mid" /\ ~late => MidSpent)
<1> DEFINE r == rd[s]
           q == [r EXCEPT !.endPending = FALSE, !.endEmitted = TRUE]
<1>1. r \in ReadState
  BY Typed DEF FinishInv
<1>2. s = "mid" /\ ~late /\ (r.endEmitted \/ r.endPending) => MidSpent
  BY DEF FinishInv, WritesInv
<1>3. (s = "mid" /\ r.ended => wr["mid"].ended)
      /\ (s = "mid" /\ MidSpent => r.ended /\ r.buffer = << >>)
  BY DEF FinishInv, WritesInv, MidSpent
<1>4. (Hooked(r) = q /\ r.endPending) \/ Hooked(r) = r
  BY DEF Hooked
<1>5. \A t \in HookLater(s, r) : r.endPending /\ t.f = "end" /\ t.s = s
  BY DEF HookLater, Frame
<1> HIDE DEF r
<1>6. Calm(r, s)
  BY <1>1, <1>2, <1>3 DEF Calm, r
<1>7. r.endPending => Calm(q, s)
  BY <1>1, <1>2, <1>3, <1>6 DEF Calm, ReadState
<1>8. q.flowing = r.flowing /\ q.flowingNow = r.flowingNow
  BY <1>1 DEF ReadState
<1> HIDE DEF q
<1> QED
  BY <1>2, <1>4, <1>5, <1>6, <1>7, <1>8 DEF r

LEMMA OnEndCarries ==
  ASSUME FinishInv, NEW s \in Readables, OnEnd(s) \/ Pipe(s)
  PROVE  Kept
<1> DEFINE h == Hooked(rd[s])
           q == Resumed(h)
           frames == ResumeFrames(s, rd[s])
<1>1. /\ Calls /\ UNCHANGED <<ticks, wr, in, out, ends, written, intact, late>>
      /\ later' = later \cup HookLater(s, rd[s])
      /\ (Set(s, h) /\ ThenScript(<< >>)) \/ (Set(s, q) /\ ThenScript(frames))
  BY DEF OnEnd, Pipe, history
<1>2. /\ Calm(h, s) /\ h.flowing = rd[s].flowing /\ h.flowingNow = rd[s].flowingNow
      /\ \A t \in HookLater(s, rd[s]) : t.f = "end" /\ (t.s = "mid" /\ ~late => MidSpent)
  BY HookIs
<1>3. /\ \A t \in later : Carries(t) => t \in later'
      /\ \A t \in later' : t \in later \/ (t.f = "end" /\ (t.s = "mid" /\ ~late => MidSpent))
      /\ \A t \in Range(ticks') : t \in Range(ticks) \/ t.f # "end"
  BY <1>1, <1>2
<1>4. CASE Set(s, h) /\ ThenScript(<< >>)
  <2>1. << >> \in Seq(Light \cup FlowOf(s))
    BY PartsAre
  <2> HIDE DEF h
  <2> QED
    BY <1>1, <1>2, <1>3, <1>4, <2>1, NoFrames, CalmScript
<1>5. CASE Set(s, q) /\ ThenScript(frames)
  <2> HIDE DEF h
  <2>1. h \in ReadState
    BY <1>2 DEF Calm
  <2>2. /\ Same(q, h) /\ (h.flowingNow => q.flowingNow)
        /\ frames \in Seq(Light \cup FlowOf(s)) /\ Stacked(frames)
        /\ frames \in Seq(Light) \/ (q.flowingNow /\ ~rd[s].flowingNow)
    BY <1>2, <2>1, ResumeIs
  <2> HIDE DEF q, frames
  <2>3. Calm(q, s)
    BY <1>2, <2>2 DEF Calm, Same
  <2> QED
    BY <1>1, <1>3, <1>5, <2>2, <2>3, CalmScript
<1> QED
  BY <1>1, <1>4, <1>5

LEMMA ScriptCarries ==
  ASSUME FinishInv, Script
  PROVE  Kept
BY OnDataCarries, OnEndCarries, OnReadableCarries, PauseCarries, ReadCarries, PipesCarry DEF Script

----------------------------------------------------------------------------
(* The actions that move a chunk *)
\* Where the chunks are, one by one.
OutIs == \A c : c \in Range(out["src"]) <=>
  c \in Range(in["mid"]) \/ \E t \in Range(stack) \cup later : Held(t) /\ t.c = c
WrittenIs ==
  /\ \A t \in Range(stack) : Writing("mid", t) => out["mid"] = Append(written, t.c)
  /\ (\A t \in Range(stack) : ~Writing("mid", t)) => out["mid"] = written
Placed ==
  /\ \A s \in Readables : \A c \in Range(rd[s].buffer) : c > 0
  /\ in["mid"] = out["mid"] \o rd["mid"].buffer
  /\ intact /\ ~late => OutIs /\ WrittenIs
LEMMA ChunksAre == (ChunksInv => Placed) /\ (Placed' => ChunksInv')
<1>1. ASSUME ChunksInv PROVE Placed
  <2>1. intact /\ ~late => OutIs
    BY <1>1 DEF ChunksInv, OutIs
  <2> QED
    BY <1>1, <2>1 DEF ChunksInv, Placed, WrittenIs
<1>2. ASSUME Placed' PROVE ChunksInv'
  <2> DEFINE H == {t.c : t \in {u \in Range(stack') \cup later' : Held(u)}}
  <2>1. ASSUME intact', ~late' PROVE Range(out'["src"]) = Range(in'["mid"]) \cup H
    <3>1. \A c : c \in H <=> \E t \in Range(stack') \cup later' : Held(t) /\ t.c = c
      OBVIOUS
    <3>2. \A c : c \in Range(out'["src"]) <=> c \in Range(in'["mid"]) \/ c \in H
      BY <1>2, <2>1, <3>1 DEF Placed, OutIs
    <3> HIDE DEF H
    <3> QED
      BY <3>2
  <2> QED
    BY <1>2, <2>1 DEF Placed, WrittenIs, ChunksInv
<1> QED
  BY <1>1, <1>2

LEMMA Elements ==
  ASSUME NEW S, NEW q \in Seq(S), NEW c \in S
  PROVE  /\ Append(q, c) \in Seq(S) /\ \A x : x \in Range(Append(q, c)) <=> x \in Range(q) \/ x = c
         /\ q # << >> => /\ Head(q) \in Range(q) /\ Head(q) \in S /\ Tail(q) \in Seq(S)
                         /\ \A x \in Range(Tail(q)) : x \in Range(q)
<1>1. Append(q, c) = q \o <<c>> /\ <<c>> \in Seq(S) /\ Append(q, c) \in Seq(S)
  OBVIOUS
<1>2. Range(<<c>>) = {c}
  BY FewFrames
<1>3. Range(Append(q, c)) = Range(q) \cup {c}
  <2>1. Range(q \o <<c>>) = Range(q) \cup Range(<<c>>)
    BY <1>1, Concats
  <2> QED
    BY <1>1, <1>2, <2>1
<1>4. ASSUME q # << >> PROVE /\ Head(q) \in Range(q) /\ Head(q) \in S /\ Tail(q) \in Seq(S)
                             /\ \A x \in Range(Tail(q)) : x \in Range(q)
  <2>1. /\ Head(q) \in S /\ Head(q) = q[1] /\ 1 \in DOMAIN q /\ Tail(q) \in Seq(S)
        /\ \A i \in DOMAIN Tail(q) : i + 1 \in DOMAIN q /\ Tail(q)[i] = q[i + 1]
    BY <1>4
  <2> QED
    BY <2>1 DEF Range
<1> QED
  BY <1>1, <1>3, <1>4

\* A step of the library that ends and calls nothing, or calls what carries no chunk.
LEMMA FlowStep ==
  ASSUME FinishInv, stack # << >>, Firm, UNCHANGED later,
         NEW s \in Readables, NEW frames \in Seq(Light \cup FlowOf(s)), Stacked(frames), Then(frames),
         frames \in Seq(Light) \/ (rd'[s].flowingNow /\ (~rd[s].flowingNow \/ Flowing(s, Head(stack)))),
         \A t \in Range(ticks') : t \in Range(ticks) \/ t.f # "end"
  PROVE  /\ FramesInv' /\ Range(stack') = Range(frames) \cup Range(Tail(stack))
         /\ \A a \in Range(frames) : ~Moving(a)
<1>1. Under(Tail(stack)) /\ stack' = frames \o Tail(stack)
  BY TailIs DEF Then
<1>2. frames \in Seq(Frames) /\ \A a \in Range(frames) : a \in Light \cup FlowOf(s)
  BY DEF Light, FlowOf, Range
<1>3. (\E a \in Range(frames) : a \in FlowOf(s)) =>
        rd'[s].flowingNow /\ \A b \in Range(Tail(stack)) : ~Flowing(s, b) /\ ~Writing(s, b)
  <2>1. frames \in Seq(Light) => \A a \in Range(frames) : a \notin FlowOf(s)
    BY DEF Range, Light, FlowOf, Flowing
  <2>2. \A b \in Range(Tail(stack)) : b \in Range(stack)
    BY TailIs
  <2> QED
    BY <2>1, <2>2, NotBusy
<1>4. \A a \in Range(frames) : Sure(a)' /\ ~Moving(a)
  BY <1>2, <1>3, LightIs, FlowIs
<1>5. \A a \in Range(frames), b \in Range(Tail(stack)) : Above(a, b)
  BY <1>1, <1>2, <1>3, LightIs, FlowIs DEF Under
<1>6. \A t \in Range(Tail(stack)) \cup later' : Sure(t)'
  BY <1>1, SureMoves DEF Under, FinishInv, FramesInv
<1>7. \A t \in later' : Carries(t) \/ t.f \in {"pull", "end"}
  BY DEF FinishInv, FramesInv
<1>8. ~late' => \A t \in Range(ticks') : Ending("mid", t) => MidSpent'
  BY DEF FinishInv, FramesInv, Firm, Ending
<1>9. FramesInv'
  BY <1>1, <1>2, <1>4, <1>5, <1>6, <1>7, <1>8, FramesKeep
<1>10. Range(stack') = Range(frames) \cup Range(Tail(stack))
  BY <1>1, <1>2, Concats DEF Under
<1> QED
  BY <1>4, <1>9, <1>10

\* push(chunk): what it does to the stream and what it runs.
LEMMA PushChunkIs ==
  ASSUME FinishInv, PushChunk
  PROVE  \E q \in ReadState, frames \in Seq(Light \cup FlowOf(Me)) :
           /\ Set(Me, q) /\ q.buffer = Append(rd[Me].buffer, Head(stack).c) /\ q.ended = rd[Me].ended
           /\ q.endEmitted = rd[Me].endEmitted /\ q.endPending = rd[Me].endPending
           /\ rd[Me].flowingNow => q.flowingNow
           /\ Then(frames) /\ Stacked(frames)
           /\ frames \in Seq(Light) \/ (q.flowingNow /\ ~rd[Me].flowingNow)
           /\ \A t \in Range(ticks') : t \in Range(ticks) \/ t.f # "end"
<1> DEFINE s == Me
           c == Head(stack).c
           l == Append(rd[s].buffer, c)
           e == [rd[s] EXCEPT !.buffer = l]
           r == Acknowledged(e)
           t == SchedulesReadable(s, r)
           f == InFlow(r)
           b == r.readableScheduled \/ t # << >>
           g == [r EXCEPT !.readableScheduled = b]
           u == <<Frame("refill", s)>>
           v == FlowFrames(s, r)
<1>1. /\ stack # << >> /\ Head(stack).f = "push"
      /\ \/ Set(s, f) /\ Then(v \o u) /\ UNCHANGED ticks
         \/ Set(s, g) /\ ticks' = ticks \o t /\ Then(u)
  BY DEF PushChunk, Running
<1>2. s \in Readables /\ rd[s] \in ReadState /\ c \in Int
  BY <1>1, Runs
<1>3. t \in Seq(Frames) /\ (\A x \in Range(t) : x.f # "end") /\ u \in Seq(Light) /\ Stacked(u)
      /\ u \in Seq(Light \cup FlowOf(s))
  <2>1. Frame("refill", s) \in Light
    BY <1>2, LightFrames
  <2> QED
    BY <1>2, <2>1, PartsAre
<1>4. v \in {<< >>, <<Frame("loop", s)>>} /\ (r.flowingNow => v = << >>)
  BY DEF FlowFrames
<1> HIDE DEF s, c
<1>13. l \in Seq(Int)
  BY <1>2 DEF ReadState
<1> HIDE DEF l
<1>5. /\ e \in ReadState /\ e.buffer = l /\ e.ended = rd[s].ended
      /\ e.endEmitted = rd[s].endEmitted /\ e.endPending = rd[s].endPending
      /\ e.flowingNow = rd[s].flowingNow
  BY <1>2, <1>13 DEF ReadState
<1> HIDE DEF e
<1>6. Same(r, e) /\ r.flowingNow = e.flowingNow /\ r \in ReadState
  BY <1>5, FlagsAreSame DEF Acknowledged, ReadState
<1> HIDE DEF r, v, t
<1>7. Same(f, r) /\ f.flowingNow
  BY <1>6, FlagsAreSame DEF InFlow, ReadState
<1>8. b \in BOOLEAN
  BY <1>6 DEF ReadState
<1> HIDE DEF b
<1>9. Same(g, r) /\ g.flowingNow = r.flowingNow
  BY <1>6, <1>8, FlagsAreSame DEF ReadState
<1> HIDE DEF f, g
<1>10. CASE Set(s, f) /\ Then(v \o u) /\ UNCHANGED ticks
  <2> DEFINE w == v \o u
  <2>1. w \in Seq(Light \cup FlowOf(s)) /\ Stacked(w) /\ (r.flowingNow => w \in Seq(Light))
    <3> DEFINE a == Frame("loop", s)
               d == Frame("refill", s)
    <3>1. a \in FlowOf(s) /\ d \in Light
      BY <1>2, FlowFramesAre, LightFrames
    <3>2. Above(a, d)
      BY <1>2, <3>1, FlowIs, LightIs DEF Moving, Light, Flowing, Writing
    <3>3. w = <<a>> \o <<d>> \/ w = << >> \o <<d>>
      BY <1>4 DEF u
    <3>4. r.flowingNow => w = << >> \o <<d>>
      BY <1>4 DEF u
    <3> HIDE DEF a, d, w
    <3>5. a \in Light \cup FlowOf(s) /\ d \in Light \cup FlowOf(s)
      BY <3>1
    <3>6. <<a>> \o <<d>> = <<a, d>> /\ << >> \o <<d>> = <<d>>
      BY <3>5, Joins
    <3>7. <<a, d>> \in Seq(Light \cup FlowOf(s)) /\ <<d>> \in Seq(Light \cup FlowOf(s)) /\ <<d>> \in Seq(Light)
      BY <3>1
    <3>8. Stacked(<<a, d>>) /\ Stacked(<<d>>)
      BY <3>2, FewFrames
    <3> QED
      BY <3>3, <3>4, <3>6, <3>7, <3>8
  <2>2. Then(w)
    BY <1>10
  <2> HIDE DEF w
  <2>3. w \in Seq(Light) \/ (f.flowingNow /\ ~rd[s].flowingNow)
    BY <1>5, <1>6, <1>7, <2>1
  <2>4. /\ f \in ReadState /\ f.buffer = l /\ f.ended = rd[s].ended
        /\ f.endEmitted = rd[s].endEmitted /\ f.endPending = rd[s].endPending
    BY <1>5, <1>6, <1>7 DEF Same
  <2>5. \A x \in Range(ticks') : x \in Range(ticks) \/ x.f # "end"
    BY <1>10
  <2>6. Set(s, f) /\ f.flowingNow
    BY <1>7, <1>10
  <2> QED
    BY <2>1, <2>2, <2>3, <2>4, <2>5, <2>6 DEF s, c, l
<1>11. CASE Set(s, g) /\ ticks' = ticks \o t /\ Then(u)
  <2>1. \A x \in Range(ticks') : x \in Range(ticks) \/ x.f # "end"
    BY <1>3, <1>11, TicksAre
  <2>2. /\ g \in ReadState /\ g.buffer = l /\ g.ended = rd[s].ended
        /\ g.endEmitted = rd[s].endEmitted /\ g.endPending = rd[s].endPending
        /\ (rd[s].flowingNow => g.flowingNow)
    BY <1>5, <1>6, <1>9 DEF Same
  <2> HIDE DEF u
  <2> QED
    BY <1>3, <1>11, <2>1, <2>2 DEF s, c, l
<1> QED
  BY <1>1, <1>10, <1>11

LEMMA SetIs ==
  ASSUME FinishInv, NEW s \in Readables, NEW q, Set(s, q)
  PROVE  \A p \in Readables : rd'[p] = IF p = s THEN q ELSE rd[p]
<1>1. rd' = [rd EXCEPT ![s] = q] /\ rd \in [Readables -> ReadState]
  BY DEF Set, FinishInv, SourceInv, StreamsTypes
<1> QED
  BY <1>1

\* An answer of the transform comes before its readable side ends.
LEMMA AnswersComeFirst ==
  ASSUME FinishInv, stack # << >>, Carries(Head(stack)), ~late
  PROVE  ~rd["mid"].ended
BY TailIs DEF FinishInv, WritesInv, Sure

LEMMA PushChunkCarries ==
  ASSUME FinishInv, PushChunk
  PROVE  Kept
<1> DEFINE s == Me
           c == Head(stack).c
<1>1. /\ stack # << >> /\ Head(stack).f = "push" /\ Head(stack).c > 0 /\ Head(stack).s = s
      /\ in' = [in EXCEPT ![s] = Append(@, c)]
      /\ UNCHANGED <<later, wr, out, ends, written, intact, late>>
  BY DEF PushChunk, Running, Me
<1>2. s \in Readables /\ rd[s] \in ReadState /\ c \in Int
  BY <1>1, Runs
<1>3. PICK q \in ReadState, frames \in Seq(Light \cup FlowOf(Me)) :
           /\ Set(Me, q) /\ q.buffer = Append(rd[Me].buffer, Head(stack).c) /\ q.ended = rd[Me].ended
           /\ q.endEmitted = rd[Me].endEmitted /\ q.endPending = rd[Me].endPending
           /\ rd[Me].flowingNow => q.flowingNow
           /\ Then(frames) /\ Stacked(frames)
           /\ frames \in Seq(Light) \/ (q.flowingNow /\ ~rd[Me].flowingNow)
           /\ \A t \in Range(ticks') : t \in Range(ticks) \/ t.f # "end"
  BY PushChunkIs
<1>4. /\ Set(s, q) /\ q.buffer = Append(rd[s].buffer, c) /\ q.ended = rd[s].ended
      /\ q.endEmitted = rd[s].endEmitted /\ q.endPending = rd[s].endPending
      /\ rd[s].flowingNow => q.flowingNow
      /\ frames \in Seq(Light \cup FlowOf(s))
      /\ frames \in Seq(Light) \/ (q.flowingNow /\ ~rd[s].flowingNow)
  BY <1>3
<1>5. s = "mid" => Carries(Head(stack))
  BY <1>1 DEF Carries
<1>6. s = "mid" /\ ~late => ~rd["mid"].ended
  BY <1>1, <1>5, AnswersComeFirst
<1>7. rd[s].buffer \in Seq(Int) /\ in \in [Readables -> Seq(Int)] /\ out \in [Readables -> Seq(Int)]
  BY <1>2 DEF ReadState, FinishInv, SourceInv, StreamsTypes
<1>8. \A p \in Readables : in'[p] = IF p = s THEN Append(in[s], c) ELSE in[p]
  BY <1>1, <1>7
<1> HIDE DEF s, c
<1>9. \A p \in Readables : rd'[p] = IF p = s THEN q ELSE rd[p]
  BY <1>2, <1>4, SetIs
<1>10. "mid" \in Readables /\ "src" \in Readables
  BY DEF Readables
<1>11. Firm
  BY <1>1, <1>4, <1>6, <1>9, <1>10 DEF Firm, MidSpent
<1>12. WritesInv'
  <2>1. rd'["mid"].ended = rd["mid"].ended /\ rd'["mid"].endEmitted = rd["mid"].endEmitted
        /\ rd'["mid"].endPending = rd["mid"].endPending
    BY <1>4, <1>9, <1>10
  <2> QED
    BY <1>1, <1>11, <2>1 DEF WritesInv, FinishInv, Firm
<1>13. /\ FramesInv' /\ Range(stack') = Range(frames) \cup Range(Tail(stack))
       /\ \A a \in Range(frames) : ~Moving(a)
  BY <1>1, <1>2, <1>3, <1>4, <1>9, <1>11, FlowStep
<1>14. Range(stack) = {Head(stack)} \cup Range(Tail(stack))
  BY <1>1, TailIs
<1>15. Placed
  BY ChunksAre DEF FinishInv
<1>16. Placed'
  <2>1. \A p \in Readables : \A x \in Range(rd'[p].buffer) : x > 0
    <3>1. \A x \in Range(Append(rd[s].buffer, c)) : x \in Range(rd[s].buffer) \/ x = c
      BY <1>2, <1>7, Elements
    <3>2. c > 0
      BY <1>1 DEF c
    <3> QED
      BY <1>2, <1>4, <1>9, <1>15, <3>1, <3>2 DEF Placed
  <2>2. in'["mid"] = out'["mid"] \o rd'["mid"].buffer
    <3>1. CASE s = "mid"
      <4>1. out["mid"] \in Seq(Int)
        BY <1>7, <1>10
      <4>2. Append(out["mid"] \o rd["mid"].buffer, c) = out["mid"] \o Append(rd["mid"].buffer, c)
        BY <1>2, <1>7, <3>1, <4>1, AppendMoves
      <4> QED
        BY <1>1, <1>4, <1>8, <1>9, <1>10, <1>15, <3>1, <4>2 DEF Placed
    <3>2. CASE s # "mid"
      BY <1>1, <1>8, <1>9, <1>10, <1>15, <3>2 DEF Placed
    <3> QED
      BY <3>1, <3>2
  <2>3. \A t \in Range(stack) : Writing("mid", t) <=> (Writing("mid", t) /\ t \in Range(stack'))
    BY <1>1, <1>13, <1>14 DEF Writing
  <2>4. \A t \in Range(stack') : Writing("mid", t) => t \in Range(stack)
    BY <1>13, <1>14 DEF Writing, Moving
  <2>5. WrittenIs => WrittenIs'
    BY <1>1, <2>3, <2>4 DEF WrittenIs
  <2>6. Held(Head(stack)) <=> s = "mid"
    BY <1>1, <1>5 DEF Held, Writing, Carries
  <2>7. \A a \in Range(frames) : ~Held(a)
    BY <1>13 DEF Held, Moving, Writing
  <2>8. OutIs => OutIs'
    <3>1. \A x : x \in Range(in'["mid"]) <=> x \in Range(in["mid"]) \/ (s = "mid" /\ x = c)
      <4>1. in["mid"] \in Seq(Int)
        BY <1>7, <1>10
      <4>2. \A x : x \in Range(Append(in["mid"], c)) <=> x \in Range(in["mid"]) \/ x = c
        BY <1>2, <4>1, Elements
      <4> QED
        BY <1>8, <1>10, <4>2
    <3>2. \A t : (t \in Range(stack) \cup later /\ Held(t)) <=>
                   \/ t \in Range(stack') \cup later' /\ Held(t)
                   \/ t = Head(stack) /\ s = "mid"
      BY <1>1, <1>13, <1>14, <2>6, <2>7
    <3>3. Head(stack).c = c
      BY DEF c
    <3>4. ASSUME OutIs, NEW x
          PROVE  x \in Range(out'["src"]) <=>
                   x \in Range(in'["mid"]) \/ \E t \in Range(stack') \cup later' : Held(t) /\ t.c = x
      BY <1>1, <3>1, <3>2, <3>3, <3>4 DEF OutIs
    <3> QED
      BY <3>4 DEF OutIs
  <2> QED
    BY <1>1, <1>15, <2>1, <2>2, <2>5, <2>8 DEF Placed
<1> QED
  BY <1>12, <1>13, <1>16, ChunksAre DEF Kept

\* The frames that deliver a chunk to the listeners, and then go on.
LEMMA CalledIs ==
  ASSUME NEW s \in Readables, NEW c \in Int, NEW called \in Listeners(s, c)
  PROVE  LET w == Chunk("write", Dest(s), c)
             l == Frame("loop", s)
         IN called \o <<l>> \in IF s \in piped THEN {<<w, l>>, <<w, User, l>>, <<User, w, l>>}
                                ELSE {<<l>>, <<User, l>>}
<1> DEFINE w == Chunk("write", Dest(s), c)
           l == Frame("loop", s)
<1>1. w \in Frames /\ l \in Frames /\ User \in Frames
  BY DEF Chunk, Frame, Frames, User, Null, Dest, Writables, Readables
<1>2. called \in IF s \in piped THEN {<<w>> \o << >>, << >> \o <<w>>, <<w>> \o <<User>>, <<User>> \o <<w>>}
                 ELSE {<< >> \o << >>, << >> \o <<User>>, <<User>> \o << >>}
  BY DEF Listeners
<1> HIDE DEF w, l
<1>3. /\ <<w>> \o << >> = <<w>> /\ << >> \o <<w>> = <<w>> /\ << >> \o << >> = << >>
      /\ << >> \o <<User>> = <<User>> /\ <<User>> \o << >> = <<User>>
      /\ << >> \o <<l>> = <<l>>
  BY <1>1
<1>4. /\ <<w>> \o <<User>> = <<w, User>> /\ <<User>> \o <<w>> = <<User, w>>
      /\ <<w>> \o <<l>> = <<w, l>> /\ <<User>> \o <<l>> = <<User, l>>
  BY <1>1, Joins
<1>5. <<w, User>> \o <<l>> = <<w, User, l>> /\ <<User, w>> \o <<l>> = <<User, w, l>>
  BY <1>1, Joins3
<1> QED
  BY <1>2, <1>3, <1>4, <1>5 DEF w, l

LEMMA CalledAre ==
  ASSUME NEW w \in Frames, NEW u \in Frames, NEW l \in Frames, NEW q,
         Above(w, l), Above(w, u), Above(u, w), Above(u, l)
  PROVE  /\ q \in {<<l>>, <<u, l>>} => q \in Seq(Frames) /\ Stacked(q) /\ Range(q) \subseteq {w, u, l}
         /\ q \in {<<w, l>>, <<w, u, l>>, <<u, w, l>>} =>
              q \in Seq(Frames) /\ Stacked(q) /\ Range(q) \subseteq {w, u, l} /\ w \in Range(q)
<1> DEFINE Good(z) == z \in Seq(Frames) /\ Stacked(z) /\ Range(z) \subseteq {w, u, l}
<1>1. Good(<<l>>)
  <2>1. Stacked(<<l>>) /\ Range(<<l>>) = {l}
    BY FewFrames
  <2> QED
    BY <2>1
<1>2. Good(<<u, l>>)
  <2>1. Stacked(<<u, l>>) /\ Range(<<u, l>>) = {u, l}
    BY FewFrames
  <2> QED
    BY <2>1
<1>3. Good(<<w, l>>) /\ w \in Range(<<w, l>>)
  <2>1. Stacked(<<w, l>>) /\ Range(<<w, l>>) = {w, l}
    BY FewFrames
  <2> QED
    BY <2>1
<1>4. Good(<<w, u, l>>) /\ w \in Range(<<w, u, l>>)
  <2>1. Stacked(<<w, u, l>>) /\ Range(<<w, u, l>>) = {w, u, l}
    BY ThreeFrames
  <2> QED
    BY <2>1
<1>5. Good(<<u, w, l>>) /\ w \in Range(<<u, w, l>>)
  <2>1. Stacked(<<u, w, l>>) /\ Range(<<u, w, l>>) = {u, w, l}
    BY ThreeFrames
  <2> QED
    BY <2>1
<1> QED
  BY <1>1, <1>2, <1>3, <1>4, <1>5, Zenon

\* A chunk goes to the listeners.
LEMMA TakeChunkCarries ==
  ASSUME FinishInv, stack # << >>, Head(stack).f = "take", NEW s \in Readables, Head(stack).s = s,
         NEW c, c = Head(rd[s].buffer), rd[s].buffer # << >>,
         NEW w, w = Chunk("write", Dest(s), c), NEW l, l = Frame("loop", s),
         NEW left, left = Tail(rd[s].buffer), Set(s, [rd[s] EXCEPT !.buffer = left]),
         \E called \in Listeners(s, c) : Then(called \o <<l>>),
         out' = [out EXCEPT ![s] = Append(@, c)],
         intact' = (intact /\ s \in piped),
         UNCHANGED <<ticks, later, wr, in, ends, written, late>>
  PROVE  Kept
<1> DEFINE r == rd[s]
           q == [r EXCEPT !.buffer = left]
           rest == Tail(stack)
<1>31. UNCHANGED <<ticks, later, wr, in, ends, written, late>>
  OBVIOUS
<1>32. s \in Readables /\ r \in ReadState /\ ~Moving(Head(stack)) /\ SourceInv
  BY Runs DEF Me
<1>33. Flowing(s, Head(stack))
  BY DEF Flowing
<1>34. r.flowingNow /\ \A b \in Range(Tail(stack)) : ~Flowing(s, b) /\ ~Writing(s, b)
  BY <1>32, <1>33, NotBusy
<1>36. /\ r.buffer # << >> /\ Set(s, q) /\ c = Head(r.buffer) /\ left = Tail(r.buffer)
       /\ \E called \in Listeners(s, c) : Then(called \o <<l>>)
       /\ out' = [out EXCEPT ![s] = Append(@, c)]
       /\ intact' = (intact /\ s \in piped)
  OBVIOUS
<1>1. /\ r.buffer \in Seq(Int) /\ c \in Range(r.buffer) /\ c \in Int /\ left \in Seq(Int)
      /\ \A x \in Range(left) : x \in Range(r.buffer)
  <2>1. r.buffer \in Seq(Int) /\ 0 \in Int
    BY <1>32 DEF ReadState
  <2> QED
    BY <1>36, <2>1, Elements
<1>2. \A x \in Range(r.buffer) : x > 0
  BY <1>32 DEF FinishInv, ChunksInv
<1>3. /\ q \in ReadState /\ q.buffer = left /\ q.flowingNow /\ q.ended = r.ended
      /\ q.endEmitted = r.endEmitted /\ q.endPending = r.endPending
  BY <1>32, <1>34, <1>1 DEF ReadState
<1> HIDE DEF q
<1>4. \A p \in Readables : rd'[p] = IF p = s THEN q ELSE rd[p]
  BY <1>32, <1>36, SetIs
<1>5. s = "mid" => ~MidSpent
  BY <1>36 DEF MidSpent
<1>6. "mid" \in Readables /\ "src" \in Readables /\ \A p \in Readables : p = "src" \/ p = "mid"
  BY DEF Readables
<1>7. Firm
  BY <1>31, <1>34, <1>3, <1>4, <1>5, <1>6 DEF Firm, MidSpent
<1>8. WritesInv'
  <2>1. rd'["mid"].ended = rd["mid"].ended /\ rd'["mid"].endEmitted = rd["mid"].endEmitted
        /\ rd'["mid"].endPending = rd["mid"].endPending
    BY <1>3, <1>4, <1>6
  <2> QED
    BY <1>31, <1>7, <2>1 DEF WritesInv, FinishInv, Firm
<1>9. c > 0 /\ (~late => ends[s] = 0)
  <2>1. s = "src" => ends["src"] = 0
    <3>1. ends["src"] \in Nat /\ (ends["src"] > 0 => Spent)
      BY <1>32, <1>6, Typed DEF SourceInv, TellsInv
    <3>2. s = "src" => ~Spent
      BY <1>36 DEF Spent
    <3> QED
      BY <3>1, <3>2
  <2>2. s = "mid" /\ ~late => ends["mid"] = 0
    <3>1. ends["mid"] \in Nat
      BY <1>32, <1>6 DEF SourceInv, StreamsTypes
    <3> QED
      BY <1>5, <3>1 DEF FinishInv, WritesInv
  <2> QED
    BY <1>32, <1>1, <1>2, <1>6, <2>1, <2>2
<1>10. /\ w \in Frames /\ w.f = "write" /\ w.s = Dest(s) /\ w.c = c
       /\ l \in Frames /\ l \in FlowOf(s) /\ User \in Light /\ User \in Frames
  <2>1. w \in Frames /\ w.f = "write" /\ w.s = Dest(s) /\ w.c = c
    BY <1>32, <1>1 DEF Chunk, Frames, Dest, Writables
  <2>2. l \in FlowOf(s) /\ User \in Light
    BY <1>32, FlowFramesAre, LightFrames
  <2> QED
    BY <2>1, <2>2 DEF FlowOf, Light
<1>11. PICK frames : /\ Then(frames)
                     /\ frames \in IF s \in piped THEN {<<w, l>>, <<w, User, l>>, <<User, w, l>>}
                                   ELSE {<<l>>, <<User, l>>}
  <2>1. PICK called \in Listeners(s, c) : Then(called \o <<l>>)
    BY <1>36
  <2> QED
    BY <1>32, <1>1, <2>1, CalledIs
<1> HIDE DEF r
<1>12. Writing(s, w) /\ \A p \in Readables : Writing(p, w) => p = s
  BY <1>32, <1>10 DEF Writing, Dest, Readables
<1>13. Sure(w)' /\ Sure(l)' /\ Sure(User)'
  <2>1. rd'[s].flowingNow /\ UNCHANGED <<ends, late>>
    BY <1>31, <1>32, <1>3, <1>4
  <2>2. Sure(l)' /\ Sure(User)'
    BY <1>32, <1>10, <2>1, FlowIs, LightIs
  <2>3. Sure(w)'
    BY <1>32, <1>9, <1>10, <1>12, <2>1 DEF Sure, Flowing, Ending, Carries
  <2> QED
    BY <2>2, <2>3
<1>14. \A b \in Range(rest) : Above(w, b) /\ Above(l, b) /\ Above(User, b)
  <2>1. \A b \in Range(rest) : ~Carries(b) /\ ~Flowing(s, b) /\ ~Writing(s, b)
    BY <1>31, <1>34, TailIs DEF Under
  <2>2. \A b \in Range(rest) : Above(w, b)
    BY <1>10, <1>12, <2>1 DEF Above, Flowing, Ending
  <2> QED
    BY <1>32, <1>10, <2>1, <2>2, FlowIs, LightIs
<1>15. Above(w, l) /\ Above(w, User) /\ Above(User, w) /\ Above(User, l)
  <2>1. ~Carries(w) /\ ~Carries(l) /\ ~Moving(l)
    BY <1>32, <1>10, FlowIs DEF Carries, Moving
  <2>2. Above(w, User) /\ Above(User, w) /\ Above(User, l)
    BY <1>10, <2>1, LightIs
  <2>3. Above(w, l)
    BY <1>10, <2>1 DEF Above, Flowing, Writing, Ending, FlowOf
  <2> QED
    BY <2>2, <2>3
<1>16. /\ frames \in Seq(Frames) /\ Stacked(frames)
       /\ Range(frames) \subseteq {w, User, l} /\ (w \in Range(frames) \/ s \notin piped)
  <2>1. CASE s \in piped
    <3>1. frames \in {<<w, l>>, <<w, User, l>>, <<User, w, l>>}
      BY <1>11, <2>1
    <3> QED
      BY <1>10, <1>15, <3>1, CalledAre
  <2>2. CASE s \notin piped
    <3>1. frames \in {<<l>>, <<User, l>>}
      BY <1>11, <2>2
    <3> QED
      BY <1>10, <1>15, <2>2, <3>1, CalledAre
  <2> QED
    BY <2>1, <2>2
<1> HIDE DEF rest
<1>17. Under(rest) /\ stack' = frames \o rest /\ Range(stack) = {Head(stack)} \cup Range(rest)
  BY <1>31, <1>11, TailIs DEF Then, rest
<1>18. Range(stack') = Range(frames) \cup Range(rest)
  BY <1>16, <1>17, Concats DEF Under
<1>19. FramesInv'
  <2>1. \A a \in Range(frames), b \in Range(rest) : Above(a, b)
    BY <1>14, <1>16
  <2>2. \A t \in Range(frames) \cup Range(rest) \cup later' : Sure(t)'
    <3>1. \A t \in Range(rest) \cup later : Sure(t)'
      BY <1>7, <1>17, SureMoves DEF Under, FinishInv, FramesInv
    <3>2. \A t \in Range(frames) : Sure(t)'
      BY <1>13, <1>16, Zenon
    <3> QED
      BY <1>31, <3>1, <3>2
  <2>3. /\ \A t \in later' : Carries(t) \/ t.f \in {"pull", "end"}
        /\ ~late' => \A t \in Range(ticks') : Ending("mid", t) => MidSpent'
    BY <1>31, <1>7 DEF FinishInv, FramesInv, Firm
  <2> QED
    BY <1>16, <1>17, <2>1, <2>2, <2>3, FramesKeep
<1>20. Placed
  BY ChunksAre DEF FinishInv
<1>21. out \in [Readables -> Seq(Int)] /\ in \in [Readables -> Seq(Int)]
  BY <1>32 DEF SourceInv, StreamsTypes
<1>22. \A p \in Readables : out'[p] = IF p = s THEN Append(out[s], c) ELSE out[p]
  BY <1>36, <1>21
<1>23. intact' => intact /\ w \in Range(frames)
  BY <1>36, <1>16
<1>24. Placed'
  <2>1. \A p \in Readables : \A x \in Range(rd'[p].buffer) : x > 0
    BY <1>32, <1>1, <1>3, <1>4, <1>20 DEF Placed, r
  <2>2. in'["mid"] = out'["mid"] \o rd'["mid"].buffer
    <3>1. CASE s = "mid"
      <4>1. out[s] \in Seq(Int)
        BY <1>32, <1>21
      <4>2. out[s] \o r.buffer = Append(out[s], c) \o left
        <5>1. r.buffer \in Seq(Int) /\ r.buffer # << >>
          BY <1>1, <1>36
        <5>2. out[s] \o r.buffer = Append(out[s], Head(r.buffer)) \o Tail(r.buffer)
          BY <4>1, <5>1, HeadMoves
        <5> QED
          BY <1>36, <5>2
      <4> QED
        BY <1>31, <1>3, <1>4, <1>6, <1>20, <1>22, <3>1, <4>2 DEF Placed, r
    <3>2. CASE s # "mid"
      BY <1>31, <1>4, <1>6, <1>20, <1>22, <3>2 DEF Placed
    <3> QED
      BY <3>1, <3>2
  <2>3. /\ ~Held(Head(stack)) /\ ~Held(User) /\ ~Held(l) /\ (Held(w) <=> s = "src")
        /\ ~Writing("mid", Head(stack)) /\ ~Writing("mid", User) /\ ~Writing("mid", l)
        /\ (Writing("mid", w) <=> s = "mid")
    <3>1. l.f \in {"loop", "take", "leave"}
      BY <1>10 DEF FlowOf, Flowing
    <3>2. User.f = "user"
      BY DEF User, Frame
    <3>3. ~Carries(w)
      BY <1>10 DEF Carries
    <3>4. (Writing("src", w) <=> s = "src") /\ (Writing("mid", w) <=> s = "mid")
      BY <1>6, <1>12
    <3> QED
      BY <1>31, <3>1, <3>2, <3>3, <3>4 DEF Held, Writing, Carries
  <2>4. ASSUME intact', ~late' PROVE OutIs'
    <3>1. OutIs /\ w \in Range(frames)
      BY <1>31, <1>20, <1>23, <2>4 DEF Placed
    <3>2. \A x : x \in Range(out'["src"]) <=> x \in Range(out["src"]) \/ (s = "src" /\ x = c)
      <4>1. out["src"] \in Seq(Int)
        BY <1>6, <1>21
      <4>2. \A x : x \in Range(Append(out["src"], c)) <=> x \in Range(out["src"]) \/ x = c
        BY <1>1, <4>1, Elements
      <4> QED
        BY <1>6, <1>22, <4>2
    <3>3. \A t : t \in Range(stack') \cup later' /\ Held(t) <=>
                   \/ t \in Range(stack) \cup later /\ Held(t)
                   \/ t = w /\ s = "src"
      BY <1>31, <1>16, <1>17, <1>18, <2>3, <3>1
    <3>4. ASSUME NEW x
          PROVE  x \in Range(out'["src"]) <=>
                   x \in Range(in'["mid"]) \/ \E t \in Range(stack') \cup later' : Held(t) /\ t.c = x
      BY <1>31, <1>10, <3>1, <3>2, <3>3 DEF OutIs
    <3> QED
      BY <3>4 DEF OutIs
  <2>5. ASSUME intact', ~late' PROVE WrittenIs'
    <3>1. WrittenIs /\ w \in Range(frames)
      BY <1>31, <1>20, <1>23, <2>5 DEF Placed
    <3>2. CASE s = "mid"
      <4>1. \A t \in Range(rest) : ~Writing("mid", t)
        BY <1>34, <3>2 DEF rest
      <4>2. out["mid"] = written
        BY <1>17, <2>3, <3>1, <4>1 DEF WrittenIs
      <4>3. out'["mid"] = Append(written', c)
        BY <1>31, <1>6, <1>22, <3>2, <4>2
      <4>4. \A t \in Range(stack') : Writing("mid", t) => t = w
        BY <1>16, <1>18, <2>3, <4>1
      <4>5. Writing("mid", w) /\ w \in Range(stack') /\ w.c = c
        BY <1>10, <1>18, <2>3, <3>1, <3>2
      <4> QED
        BY <4>3, <4>4, <4>5 DEF WrittenIs
    <3>3. CASE s # "mid"
      <4>1. out'["mid"] = out["mid"]
        BY <1>6, <1>22, <3>3
      <4>2. \A t : Writing("mid", t) => (t \in Range(stack') <=> t \in Range(stack))
        BY <1>16, <1>17, <1>18, <2>3, <3>3
      <4> QED
        BY <1>31, <3>1, <4>1, <4>2 DEF WrittenIs
    <3> QED
      BY <3>2, <3>3
  <2> QED
    BY <2>1, <2>2, <2>4, <2>5 DEF Placed
<1> QED
  BY <1>8, <1>19, <1>24, ChunksAre DEF Kept

LEMMA TakeCarries ==
  ASSUME FinishInv, Take
  PROVE  Kept
<1> DEFINE s == Me
           r == rd[s]
           c == Head(r.buffer)
           l == Frame("loop", s)
           e == <<Frame("leave", s)>>
           w == Chunk("write", Dest(s), c)
           q == [r EXCEPT !.buffer = Tail(@)]
<1>1. /\ stack # << >> /\ Head(stack).f = "take" /\ Head(stack).s = s
      /\ UNCHANGED <<ticks, later, wr, in, ends, written, late>>
      /\ \/ r.buffer = << >> /\ Then(e) /\ UNCHANGED <<rd, out, intact>>
         \/ /\ r.buffer # << >> /\ Set(s, q)
            /\ \E called \in Listeners(s, c) : Then(called \o <<l>>)
            /\ out' = [out EXCEPT ![s] = Append(@, c)]
            /\ intact' = (intact /\ s \in piped)
  BY DEF Take, Running, Me
<1>2. s \in Readables /\ r \in ReadState /\ ~Moving(Head(stack)) /\ SourceInv
  BY <1>1, Runs
<1>3. Flowing(s, Head(stack))
  BY <1>1 DEF Flowing
<1>4. r.flowingNow /\ \A b \in Range(Tail(stack)) : ~Flowing(s, b) /\ ~Writing(s, b)
  BY <1>1, <1>2, <1>3, NotBusy
<1> HIDE DEF s
<1>5. CASE r.buffer = << >> /\ Then(e) /\ UNCHANGED <<rd, out, intact>>
  <2>1. e \in Seq(Light \cup FlowOf(s)) /\ Stacked(e)
    <3>1. Frame("leave", s) \in FlowOf(s)
      BY <1>2, FlowFramesAre
    <3>2. Stacked(e)
      BY FewFrames
    <3> QED
      BY <3>1, <3>2
  <2>2. Set(s, r) /\ Same(r, r)
    BY <1>2, <1>5, Unmoved, FlagsAreSame
  <2> HIDE DEF e, r
  <2>3. Same(rd[s], rd[s]) /\ Set(s, rd[s]) /\ rd[s].flowingNow
    BY <1>4, <2>2 DEF r
  <2> QED
    BY <1>1, <1>2, <1>3, <1>5, <2>1, <2>3, NoTicks, FlagsKeep
<1>6. CASE /\ r.buffer # << >> /\ Set(s, q)
           /\ \E called \in Listeners(s, c) : Then(called \o <<l>>)
           /\ out' = [out EXCEPT ![s] = Append(@, c)]
           /\ intact' = (intact /\ s \in piped)
  BY <1>1, <1>2, <1>6, TakeChunkCarries
<1> QED
  BY <1>1, <1>5, <1>6

\* A step that sets or clears flags of a stream, and runs 'end' or nothing.
LEMMA LeaveCarries ==
  ASSUME FinishInv, Leave
  PROVE  Kept
<1>1. PICK s \in Readables : s = Me
  BY Runs DEF Leave, Running
<1> DEFINE r == [rd[s] EXCEPT !.flowingNow = FALSE]
           over == Over(r)
           x == [r EXCEPT !.endEmitted = TRUE]
           y == [r EXCEPT !.endPending = TRUE]
           e == Frame("end", s)
           rest == Tail(stack)
<1>2. /\ stack # << >> /\ Head(stack).f = "leave" /\ Head(stack).s = s
      /\ UNCHANGED <<ticks, later, wr, in, out, ends, written, intact, late>>
      /\ \/ Set(s, r) /\ Then(<< >>)
         \/ over /\ Set(s, x) /\ Then(<<e>>)
         \/ over /\ Set(s, y) /\ Then(<< >>)
  BY <1>1 DEF Leave, Running, Me, history
<1>3. rd[s] \in ReadState /\ ~Moving(Head(stack)) /\ SourceInv
  BY <1>1, <1>2, Runs
<1>4. Flowing(s, Head(stack))
  BY <1>2 DEF Flowing
<1>5. \A b \in Range(rest) : ~Flowing(s, b) /\ ~Writing(s, b)
  BY <1>2, <1>4, NotBusy
<1>6. r \in ReadState /\ r.buffer = rd[s].buffer /\ r.ended = rd[s].ended
      /\ r.endEmitted = rd[s].endEmitted /\ r.endPending = rd[s].endPending
  BY <1>3 DEF ReadState
<1>7. over => rd[s].ended /\ rd[s].buffer = << >>
  BY <1>6 DEF Over
<1> HIDE DEF r, over
<1>8. /\ x \in ReadState /\ x.buffer = r.buffer /\ x.ended = r.ended /\ x.endPending = r.endPending
      /\ y \in ReadState /\ y.buffer = r.buffer /\ y.ended = r.ended /\ y.endEmitted = r.endEmitted
  BY <1>6 DEF ReadState
<1> HIDE DEF x, y
<1>9. PICK q \in {r, x, y} : Set(s, q) /\ (q # r => over)
  BY <1>2
<1>10. \A p \in Readables : rd'[p] = IF p = s THEN q ELSE rd[p]
  BY <1>9, SetIs
<1>11. /\ q.buffer = rd[s].buffer /\ q.ended = rd[s].ended
       /\ q.endEmitted \/ q.endPending => (rd[s].endEmitted \/ rd[s].endPending \/ over)
  BY <1>6, <1>8, <1>9
<1>12. "mid" \in Readables
  BY DEF Readables
<1>13. (MidSpent <=> MidSpent') /\ (s = "mid" /\ over => MidSpent')
  BY <1>7, <1>10, <1>11, <1>12 DEF MidSpent
<1>14. WritesInv'
  <2>1. rd'["mid"].ended = rd["mid"].ended
        /\ (rd'["mid"].endEmitted \/ rd'["mid"].endPending =>
              rd["mid"].endEmitted \/ rd["mid"].endPending \/ (s = "mid" /\ over))
    BY <1>10, <1>11, <1>12
  <2> QED
    BY <1>2, <1>13, <2>1 DEF WritesInv, FinishInv
<1>15. PICK frames : Then(frames) /\ (frames = << >> \/ (frames = <<e>> /\ over))
  BY <1>2
<1>16. e \in Frames /\ e.f = "end" /\ e.s = s
  BY DEF Frame, Frames, Null
<1> HIDE DEF e
<1>17. /\ frames \in Seq(Frames) /\ Stacked(frames)
       /\ \A a \in Range(frames) : a = e /\ over
  <2>1. Range(<< >>) = {} /\ Stacked(<< >>) /\ Stacked(<<e>>) /\ Range(<<e>>) = {e}
    BY FewFrames
  <2>2. << >> \in Seq(Frames) /\ <<e>> \in Seq(Frames)
    BY <1>16
  <2> QED
    BY <1>15, <2>1, <2>2
<1>18. Under(rest) /\ stack' = frames \o rest /\ Range(stack) = {Head(stack)} \cup Range(rest)
  <2>1. stack # << >> /\ Then(frames)
    BY <1>2, <1>15
  <2>2. stack' = frames \o Tail(stack)
    BY <2>1 DEF Then
  <2> QED
    BY <2>1, <2>2, TailIs
<1> HIDE DEF rest
<1>19. \A a \in Range(frames), b \in Range(rest) : Above(a, b)
  BY <1>5, <1>16, <1>17, <1>18 DEF Under, Above, Flowing, Writing, Ending
<1>20. \A t \in Range(rest) \cup later : Sure(t)'
  <2>1. ASSUME NEW t \in Range(rest) \cup later PROVE Sure(t) /\ ~Flowing(s, t) /\ ~Writing(s, t)
    <3>1. t \in later => ~Flowing(s, t) /\ ~Writing(s, t) /\ Sure(t)
      BY DEF FinishInv, FramesInv, Flowing, Writing, Carries
    <3> QED
      BY <1>5, <1>18, <3>1 DEF Under
  <2>2. \A p \in Readables : p # s => rd'[p] = rd[p]
    BY <1>10
  <2> QED
    BY <1>2, <1>13, <2>1, <2>2 DEF Sure
<1>21. \A t \in Range(frames) : Sure(t)'
  BY <1>13, <1>16, <1>17 DEF Sure, Flowing, Writing, Ending, Carries
<1>22. FramesInv'
  <2>1. /\ \A t \in later' : Carries(t) \/ t.f \in {"pull", "end"}
        /\ ~late' => \A t \in Range(ticks') : Ending("mid", t) => MidSpent'
    BY <1>2, <1>13 DEF FinishInv, FramesInv
  <2> QED
    BY <1>2, <1>17, <1>18, <1>19, <1>20, <1>21, <2>1, FramesKeep
<1>23. Range(stack') = Range(frames) \cup Range(rest)
  BY <1>17, <1>18, Concats DEF Under
<1>24. ChunksInv'
  <2>1. ~Moving(e)
    BY <1>16 DEF Moving, Carries
  <2>2. \A t : Moving(t) => (t \in Range(stack) <=> t \in Range(stack'))
    BY <1>3, <1>17, <1>18, <1>23, <2>1
  <2>3. \A t : t.f = "write" => (t \in Range(stack) <=> t \in Range(stack'))
    BY <2>2 DEF Moving
  <2>4. \A p \in Readables : rd'[p].buffer = rd[p].buffer
    BY <1>10, <1>11
  <2> QED
    BY <1>2, <2>2, <2>3, <2>4, ChunksStay
<1> QED
  BY <1>14, <1>22, <1>24 DEF Kept

\* onend of the pipe and the script's listener, in the order they were added.
LEMMA EndFramesAre ==
  ASSUME NEW s \in Readables, NEW toPipe \in {<< >>, <<Frame("close", Dest(s)), Frame("unpipe", s)>>},
         NEW toUser \in {<< >>, <<User>>}
  PROVE  \A q \in {toPipe \o toUser, toUser \o toPipe} :
           /\ q \in Seq(Frames) /\ Stacked(q)
           /\ \A a \in Range(q) : a = Frame("close", Dest(s)) \/ a \in Light
<1> DEFINE k == Frame("close", Dest(s))
           u == Frame("unpipe", s)
           Good(z) == z \in Seq(Frames) /\ Stacked(z) /\ \A a \in Range(z) : a = k \/ a \in Light
<1>1. k \in Frames /\ k.f = "close" /\ u \in Light /\ User \in Light
  <2>1. k \in Frames /\ k.f = "close"
    BY DEF Frame, Frames, Dest, Writables, Null
  <2> QED
    BY <2>1, LightFrames
<1>2. u \in Frames /\ User \in Frames
  BY <1>1 DEF Light
<1>3. Above(k, u) /\ Above(k, User) /\ Above(u, User) /\ Above(User, k) /\ Above(User, u)
  <2>1. ~Carries(k) /\ ~Carries(u) /\ ~Carries(User)
    BY <1>1, LightIs DEF Carries, Moving
  <2> QED
    BY <1>1, <2>1, LightIs
<1>4. toPipe \in {<< >>, <<k, u>>}
  OBVIOUS
<1> HIDE DEF k, u
<1>5. Good(<< >>)
  <2>1. Stacked(<< >>) /\ Range(<< >>) = {}
    BY FewFrames
  <2> QED
    BY <2>1
<1>6. Good(<<User>>)
  <2>1. Stacked(<<User>>) /\ Range(<<User>>) = {User}
    BY FewFrames
  <2> QED
    BY <1>1, <1>2, <2>1
<1>7. Good(<<k, u>>)
  <2>1. Stacked(<<k, u>>) /\ Range(<<k, u>>) = {k, u}
    BY <1>3, FewFrames
  <2> QED
    BY <1>1, <1>2, <2>1
<1>8. Good(<<k, u>> \o <<User>>) /\ Good(<<User>> \o <<k, u>>)
  <2>1. \A a \in Range(<<k, u>>), b \in Range(<<User>>) : Above(a, b) /\ Above(b, a)
    <3>1. Range(<<User>>) = {User} /\ Range(<<k, u>>) = {k, u}
      BY FewFrames
    <3> QED
      BY <1>3, <3>1
  <2>2. <<k, u>> \in Seq(Frames) /\ <<User>> \in Seq(Frames)
    BY <1>6, <1>7
  <2> DEFINE v == <<k, u>>
             w == <<User>>
  <2>3. Good(v) /\ Good(w) /\ v \in Seq(Frames) /\ w \in Seq(Frames)
        /\ \A a \in Range(v), b \in Range(w) : Above(a, b) /\ Above(b, a)
    BY <1>6, <1>7, <2>1, <2>2
  <2> HIDE DEF v, w
  <2>4. Good(v \o w) /\ Good(w \o v)
    <3>1. /\ v \o w \in Seq(Frames) /\ Range(v \o w) = Range(v) \cup Range(w) /\ Stacked(v \o w)
          /\ w \o v \in Seq(Frames) /\ Range(w \o v) = Range(w) \cup Range(v) /\ Stacked(w \o v)
      BY <2>3, Concats
    <3> QED
      BY <2>3, <3>1
  <2> QED
    BY <2>4 DEF v, w
<1>9. /\ << >> \o << >> = << >> /\ << >> \o <<User>> = <<User>> /\ <<User>> \o << >> = <<User>>
      /\ << >> \o <<k, u>> = <<k, u>> /\ <<k, u>> \o << >> = <<k, u>>
  <2>1. <<k, u>> \in Seq(Frames) /\ <<User>> \in Seq(Frames) /\ \A q \in Seq(Frames) : << >> \o q = q /\ q \o << >> = q
    BY <1>1, <1>2
  <2> QED
    BY <2>1
<1> HIDE DEF Good
<1>10. \A q \in {toPipe \o toUser, toUser \o toPipe} : Good(q)
  BY <1>4, <1>5, <1>6, <1>7, <1>8, <1>9
<1> QED
  BY <1>10 DEF Good, k

LEMMA EmitEndCarries ==
  ASSUME FinishInv, EmitEnd
  PROVE  Kept
<1>1. PICK s \in Readables : s = Me
  BY Runs DEF EmitEnd, Running
<1> DEFINE k == Frame("close", Dest(s))
           rest == Tail(stack)
<1>2. /\ stack # << >> /\ Head(stack).f = "end" /\ Head(stack).s = s
      /\ ends' = [ends EXCEPT ![s] = @ + 1]
      /\ UNCHANGED <<ticks, later, rd, wr, in, out, written, intact, late>>
      /\ \E toPipe \in {<< >>, <<k, Frame("unpipe", s)>>}, toUser \in {<< >>, <<User>>} :
           Then(toPipe \o toUser) \/ Then(toUser \o toPipe)
  BY <1>1 DEF EmitEnd, Running, Me, states
<1>3. ~Moving(Head(stack)) /\ SourceInv /\ Ending(s, Head(stack)) /\ Sure(Head(stack))
  BY <1>2, Runs DEF Ending
<1>4. PICK frames : /\ Then(frames) /\ frames \in Seq(Frames) /\ Stacked(frames)
                    /\ \A a \in Range(frames) : a = k \/ a \in Light
  <2>1. PICK toPipe \in {<< >>, <<k, Frame("unpipe", s)>>}, toUser \in {<< >>, <<User>>} :
           Then(toPipe \o toUser) \/ Then(toUser \o toPipe)
    BY <1>2
  <2>2. PICK q \in {toPipe \o toUser, toUser \o toPipe} : Then(q)
    BY <2>1
  <2> QED
    BY <2>2, EndFramesAre
<1>5. k.f = "close" /\ k.s = Dest(s)
  BY DEF Frame
<1> HIDE DEF k
<1>6. Under(rest) /\ stack' = frames \o rest /\ Range(stack) = {Head(stack)} \cup Range(rest)
      /\ \A b \in Range(rest) : ~Writing(s, b)
  <2>1. stack' = frames \o Tail(stack)
    BY <1>4 DEF Then
  <2>2. \A b \in Range(Tail(stack)) : Above(Head(stack), b)
    BY <1>2, TailIs
  <2> QED
    BY <1>2, <1>3, <2>1, <2>2, TailIs DEF Above
<1> HIDE DEF rest
<1>7. /\ \A p \in Readables : ends[p] \in Nat /\ ends'[p] = IF p = s THEN ends[s] + 1 ELSE ends[p]
      /\ "mid" \in Readables
  <2>1. ends \in [Readables -> Nat]
    BY <1>3 DEF SourceInv, StreamsTypes
  <2> QED
    BY <1>2, <2>1 DEF Readables
<1>8. MidSpent' = MidSpent /\ (s = "mid" /\ ~late => MidSpent)
  BY <1>2, <1>3 DEF MidSpent, Sure
<1>9. WritesInv'
  <2>1. \A p \in Readables : ends[p] > 0 => ends'[p] > 0
    BY <1>7
  <2>2. ends'["mid"] > 0 => s = "mid" \/ ends["mid"] > 0
    BY <1>7
  <2> QED
    BY <1>2, <1>8, <2>1, <2>2 DEF WritesInv, FinishInv
<1>10. \A a \in Range(frames), b \in Range(rest) : Above(a, b)
  <2>1. \A b \in Range(rest) : Above(k, b)
    BY <1>5, <1>6 DEF Under, Above, Flowing, Writing, Ending
  <2> QED
    BY <1>4, <1>6, <2>1, LightIs DEF Under
<1>11. Sure(k)'
  <2>1. ends'[s] > 0
    BY <1>7
  <2>2. \A p \in Readables : Dest(p) = Dest(s) => p = s
    BY DEF Dest, Readables
  <2> QED
    BY <1>5, <2>1, <2>2 DEF Sure, Flowing, Writing, Ending, Carries
<1>12. \A t \in Range(rest) \cup later : Sure(t)'
  <2>1. ASSUME NEW t \in Range(rest) \cup later PROVE Sure(t) /\ ~Writing(s, t)
    <3>1. t \in later => Sure(t) /\ ~Writing(s, t)
      BY DEF FinishInv, FramesInv, Writing, Carries
    <3> QED
      BY <1>6, <3>1 DEF Under
  <2>2. \A p \in Readables : (p # s => ends'[p] = ends[p]) /\ (ends[p] > 0 => ends'[p] > 0)
    BY <1>7
  <2> QED
    BY <1>2, <1>8, <2>1, <2>2 DEF Sure
<1>13. \A t \in Range(frames) : Sure(t)'
  BY <1>4, <1>11, LightIs
<1>14. FramesInv'
  <2>1. /\ \A t \in later' : Carries(t) \/ t.f \in {"pull", "end"}
        /\ ~late' => \A t \in Range(ticks') : Ending("mid", t) => MidSpent'
    BY <1>2, <1>8 DEF FinishInv, FramesInv
  <2> QED
    BY <1>2, <1>4, <1>6, <1>10, <1>12, <1>13, <2>1, FramesKeep
<1>15. Range(stack') = Range(frames) \cup Range(rest)
  BY <1>4, <1>6, Concats DEF Under
<1>16. ChunksInv'
  <2>1. \A a \in Range(frames) : ~Moving(a)
    BY <1>4, <1>5, LightIs DEF Moving, Carries
  <2>2. \A t : Moving(t) => (t \in Range(stack) <=> t \in Range(stack'))
    BY <1>3, <1>6, <1>15, <2>1
  <2>3. \A t : t.f = "write" => (t \in Range(stack) <=> t \in Range(stack'))
    BY <2>2 DEF Moving
  <2> QED
    BY <1>2, <2>2, <2>3, ChunksStay
<1> QED
  BY <1>9, <1>14, <1>16 DEF Kept

\* _transform() answers the chunk it was given, now or later.
LEMMA WriteMidCarries ==
  ASSUME FinishInv, WriteMid
  PROVE  Kept
<1>1. PICK h \in Frames : h = Head(stack)
  BY Runs DEF WriteMid, Running
<1>2. PICK p : p = Chunk("push", "mid", h.c)
  OBVIOUS
<1> DEFINE rest == Tail(stack)
<1>3. /\ stack # << >> /\ h.f = "write" /\ h.s = "mid"
      /\ UNCHANGED <<ticks, rd, wr, in, out, ends, written, intact, late>>
      /\ \/ wr["mid"].ended /\ Then(<< >>) /\ UNCHANGED later
         \/ ~wr["mid"].ended /\ Then(<<p>>) /\ UNCHANGED later
         \/ ~wr["mid"].ended /\ Then(<< >>) /\ later' = later \cup {p}
  BY <1>1, <1>2 DEF WriteMid, Running, Me, states, history
<1>4. Writing("src", h) /\ "src" \in Readables /\ ~Writing("mid", h) /\ Sure(h) /\ Held(h)
  BY <1>1, <1>3, Runs DEF Writing, Dest, Readables, Held
<1>5. p.f = "push" /\ p.s = "mid" /\ p.c = h.c /\ h.c > 0 /\ p \in Frames /\ Carries(p)
      /\ ~Writing("mid", p) /\ Held(p)
  <2>1. h.c > 0 /\ h.c \in Int
    BY <1>4 DEF Sure, Frames
  <2> QED
    BY <1>2, <2>1 DEF Chunk, Frames, Readables, Carries, Writing, Held
<1>6. wr["mid"].ended => late
  <2>1. wr["mid"].ended => ends["src"] > 0
    BY <1>4 DEF FinishInv, WritesInv, Dest
  <2>2. ~late => ends["src"] = 0
    BY <1>4 DEF Sure
  <2> QED
    BY <2>1, <2>2
<1>7. Firm /\ WritesInv'
  BY <1>3 DEF Firm, MidSpent, FinishInv, WritesInv
<1>8. PICK frames : /\ Then(frames) /\ frames \in {<< >>, <<p>>}
                    /\ \/ wr["mid"].ended /\ frames = << >> /\ UNCHANGED later
                       \/ ~wr["mid"].ended /\ frames = <<p>> /\ UNCHANGED later
                       \/ ~wr["mid"].ended /\ frames = << >> /\ later' = later \cup {p}
  BY <1>3
<1>9. Range(<< >>) = {} /\ Range(<<p>>) = {p} /\ Stacked(<< >>) /\ Stacked(<<p>>)
  BY FewFrames
<1>10. /\ frames \in Seq(Frames) /\ Stacked(frames) /\ \A a \in Range(frames) : a = p /\ ~wr["mid"].ended
  <2>1. << >> \in Seq(Frames) /\ <<p>> \in Seq(Frames)
    BY <1>5
  <2> QED
    BY <1>8, <1>9, <2>1
<1>11. Under(rest) /\ stack' = frames \o rest /\ Range(stack) = {h} \cup Range(rest)
  <2>1. stack' = frames \o Tail(stack)
    BY <1>8 DEF Then
  <2> QED
    BY <1>1, <1>3, <2>1, TailIs
<1> HIDE DEF rest
<1>12. ~wr["mid"].ended => Sure(p)'
  BY <1>3, <1>5 DEF Sure, Flowing, Writing, Ending, Carries, Null
<1>13. \A b \in Range(rest) : Above(p, b)
  BY <1>5, <1>11 DEF Under, Above, Flowing, Writing, Ending
<1>14. \A t \in later' : t \in later \/ (t = p /\ ~wr["mid"].ended)
  BY <1>8
<1>15. FramesInv'
  <2>1. \A a \in Range(frames), b \in Range(rest) : Above(a, b)
    BY <1>10, <1>13
  <2>2. \A t \in Range(rest) \cup later : Sure(t)'
    BY <1>7, <1>11, SureMoves DEF Under, FinishInv, FramesInv
  <2>3. \A t \in Range(frames) \cup Range(rest) \cup later' : Sure(t)'
    BY <1>10, <1>12, <1>14, <2>2
  <2>4. \A t \in later' : Carries(t) \/ t.f \in {"pull", "end"}
    BY <1>5, <1>14 DEF FinishInv, FramesInv
  <2>5. ~late' => \A t \in Range(ticks') : Ending("mid", t) => MidSpent'
    BY <1>3, <1>7 DEF FinishInv, FramesInv, Firm
  <2> QED
    BY <1>10, <1>11, <2>1, <2>3, <2>4, <2>5, FramesKeep
<1>16. Range(stack') = Range(frames) \cup Range(rest)
  BY <1>10, <1>11, Concats DEF Under
<1>17. Placed
  BY ChunksAre DEF FinishInv
<1>18. Placed'
  <2>1. ASSUME intact', ~late' PROVE OutIs' /\ WrittenIs'
    <3>1. OutIs /\ WrittenIs /\ ~wr["mid"].ended
      BY <1>3, <1>6, <1>17, <2>1 DEF Placed
    <3>2. \A t : t \in Range(stack') \cup later' <=> t = p \/ t \in Range(rest) \cup later
      BY <1>8, <1>9, <1>16, <3>1
    <3>3. \A t : t \in Range(stack) \cup later <=> t = h \/ t \in Range(rest) \cup later
      BY <1>11
    <3>4. ASSUME NEW x
          PROVE  x \in Range(out'["src"]) <=>
                   x \in Range(in'["mid"]) \/ \E t \in Range(stack') \cup later' : Held(t) /\ t.c = x
      <4>1. (\E t \in Range(stack') \cup later' : Held(t) /\ t.c = x)
              <=> (\E t \in Range(stack) \cup later : Held(t) /\ t.c = x)
        BY <1>4, <1>5, <3>2, <3>3
      <4> QED
        BY <1>3, <3>1, <4>1 DEF OutIs
    <3>5. \A t : Writing("mid", t) => (t \in Range(stack') <=> t \in Range(stack))
      BY <1>4, <1>5, <1>10, <1>11, <1>16
    <3> QED
      BY <1>3, <3>1, <3>4, <3>5 DEF OutIs, WrittenIs
  <2> QED
    BY <1>3, <1>17, <2>1 DEF Placed
<1> QED
  BY <1>7, <1>15, <1>18, ChunksAre DEF Kept

\* A step that takes the head off the stack and puts nothing there.
LEMMA PopStep ==
  ASSUME FinishInv, stack # << >>, Then(<< >>), UNCHANGED <<ticks, later>>,
         \A t : Sure(t) => Sure(t)', MidSpent => MidSpent', late => late'
  PROVE  FramesInv' /\ Range(stack') = Range(Tail(stack)) /\ Range(stack) = {Head(stack)} \cup Range(stack')
<1>1. Under(Tail(stack)) /\ Range(stack) = {Head(stack)} \cup Range(Tail(stack))
  BY TailIs
<1>2. stack' = << >> \o Tail(stack) /\ stack' = Tail(stack)
  BY <1>1 DEF Then, Under
<1>3. Range(<< >>) = {} /\ Stacked(<< >>) /\ << >> \in Seq(Frames)
  <2>1. Range(<< >>) = {} /\ Stacked(<< >>)
    BY FewFrames
  <2> QED
    BY <2>1
<1>4. /\ \A t \in Range(<< >>) \cup Range(Tail(stack)) \cup later' : Sure(t)'
      /\ \A t \in later' : Carries(t) \/ t.f \in {"pull", "end"}
      /\ ~late' => \A t \in Range(ticks') : Ending("mid", t) => MidSpent'
  BY <1>1, <1>3 DEF Under, FinishInv, FramesInv
<1>5. \A a \in Range(<< >>), b \in Range(Tail(stack)) : Above(a, b)
  BY <1>3
<1>6. FramesInv'
  BY <1>1, <1>2, <1>3, <1>4, <1>5, FramesKeep
<1> QED
  BY <1>1, <1>2, <1>6

LEMMA WriteDstCarries ==
  ASSUME FinishInv, WriteDst
  PROVE  Kept
<1>1. PICK h \in Frames : h = Head(stack)
  BY Runs DEF WriteDst, Running
<1>2. /\ stack # << >> /\ h.f = "write" /\ h.s = "dst" /\ Then(<< >>)
      /\ UNCHANGED <<ticks, later, rd, wr, in, out, ends, intact, late>>
      /\ written' = IF wr["dst"].ended THEN written ELSE Append(written, h.c)
  BY <1>1 DEF WriteDst, Running, Me, states
<1>3. Writing("mid", h) /\ "mid" \in Readables /\ Sure(h) /\ ~Held(h)
  BY <1>1, <1>2, Runs DEF Writing, Dest, Readables, Held, Carries
<1>4. wr["dst"].ended => late
  <2>1. wr["dst"].ended => ends["mid"] > 0
    BY <1>3 DEF FinishInv, WritesInv, Dest
  <2>2. ~late => ends["mid"] = 0
    BY <1>3 DEF Sure
  <2> QED
    BY <2>1, <2>2
<1>5. Firm /\ WritesInv' /\ (MidSpent => MidSpent')
  BY <1>2 DEF Firm, MidSpent, FinishInv, WritesInv
<1>6. FramesInv' /\ Range(stack') = Range(Tail(stack)) /\ Range(stack) = {h} \cup Range(stack')
  BY <1>1, <1>2, <1>5, SureMoves, PopStep
<1>7. \A t \in Range(stack') : ~Writing("mid", t)
  <2>1. \A b \in Range(Tail(stack)) : Above(h, b)
    BY <1>1, <1>2, TailIs
  <2> QED
    BY <1>3, <1>6, <2>1 DEF Above
<1>8. Placed
  BY ChunksAre DEF FinishInv
<1>9. Placed'
  <2>1. ASSUME intact', ~late' PROVE OutIs' /\ WrittenIs'
    <3>1. OutIs /\ WrittenIs /\ ~wr["dst"].ended
      BY <1>2, <1>4, <1>8, <2>1 DEF Placed
    <3>2. out'["mid"] = written'
      BY <1>2, <1>3, <1>6, <3>1 DEF WrittenIs
    <3>3. \A t : Held(t) => (t \in Range(stack') \cup later' <=> t \in Range(stack) \cup later)
      BY <1>2, <1>3, <1>6
    <3>4. ASSUME NEW x
          PROVE  x \in Range(out'["src"]) <=>
                   x \in Range(in'["mid"]) \/ \E t \in Range(stack') \cup later' : Held(t) /\ t.c = x
      BY <1>2, <3>1, <3>3 DEF OutIs
    <3> QED
      BY <1>7, <3>2, <3>4 DEF OutIs, WrittenIs
  <2> QED
    BY <1>2, <1>8, <2>1 DEF Placed
<1> QED
  BY <1>5, <1>6, <1>9, ChunksAre DEF Kept

\* end() of the transform: its answers are all in, or one of them comes late.
LEMMA CloseMidCarries ==
  ASSUME FinishInv, CloseMid
  PROVE  Kept
<1>1. PICK h \in Frames : h = Head(stack)
  BY Runs DEF CloseMid, Running
<1>2. PICK n, k : n = Frame("push", "mid") /\ k = Frame("finish", "mid")
  OBVIOUS
<1> DEFINE rest == Tail(stack)
<1>3. /\ stack # << >> /\ h.f = "close" /\ h.s = "mid"
      /\ UNCHANGED <<ticks, later, rd, in, out, ends, written, intact>>
      /\ \/ Then(<< >>) /\ UNCHANGED <<wr, late>>
         \/ Ends("mid") /\ Then(<<n, k>>) /\ late' = (late \/ \E t \in later : t.f = "push")
  BY <1>1, <1>2 DEF CloseMid, Running, Me
<1>4. ~Moving(h) /\ Sure(h) /\ "src" \in Readables /\ Dest("src") = "mid" /\ Dest("mid") = "dst"
  BY <1>1, <1>3, Runs DEF Moving, Carries, Dest, Readables
<1>5. CASE Then(<< >>) /\ UNCHANGED <<wr, late>>
  BY <1>1, <1>3, <1>4, <1>5, NoFrames, PlainThen
<1>6. CASE Ends("mid") /\ Then(<<n, k>>) /\ late' = (late \/ \E t \in later : t.f = "push")
  <2>1. /\ n.f = "push" /\ n.s = "mid" /\ n.c = Null /\ n \in Frames
        /\ k.f = "finish" /\ k.s = "mid" /\ k \in Frames
    BY <1>2 DEF Frame, Frames, Readables, Writables, Null
  <2>2. /\ \A p \in Writables : wr[p].ended => wr'[p].ended
        /\ wr'["mid"].ended /\ wr'["dst"] = wr["dst"] /\ wr'["mid"].finished = wr["mid"].finished
        /\ wr' \in [Writables -> [ended : BOOLEAN, finished : BOOLEAN]]
    BY <1>6 DEF Ends, FinishInv, WritesInv, Writables
  <2>3. ends["src"] > 0
    BY <1>3, <1>4 DEF Sure
  <2>4. MidSpent' = MidSpent /\ (late => late')
    BY <1>3, <1>6 DEF MidSpent
  <2>5. WritesInv'
    BY <1>3, <1>4, <2>2, <2>3, <2>4 DEF WritesInv, FinishInv, Readables
  <2>6. Under(rest) /\ stack' = <<n, k>> \o rest /\ Range(stack) = {h} \cup Range(rest)
    <3>1. stack' = <<n, k>> \o Tail(stack)
      BY <1>6 DEF Then
    <3> QED
      BY <1>1, <1>3, <3>1, TailIs
  <2> HIDE DEF rest
  <2>7. \A t : Sure(t) /\ (~late' => ~Carries(t)) => Sure(t)'
    BY <1>3, <2>2, <2>4 DEF Sure, Writables
  <2>8. \A t \in later : ~late' => ~Carries(t)
    BY <1>6 DEF Carries
  <2>9. Sure(n)' /\ Sure(k)' /\ ~Moving(n) /\ ~Moving(k) /\ ~Carries(n) /\ ~Carries(k)
    BY <2>1, <2>2 DEF Sure, Flowing, Writing, Ending, Carries, Moving, Null
  <2>10. \A b : ~Carries(b) => Above(n, b) /\ Above(k, b)
    BY <2>1 DEF Above, Flowing, Writing, Ending
  <2> DEFINE frames == <<n, k>>
  <2>11. frames \in Seq(Frames) /\ Range(frames) = {n, k} /\ Stacked(frames)
    <3>1. Range(frames) = {n, k} /\ Stacked(frames)
      BY <2>9, <2>10, FewFrames
    <3> QED
      BY <2>1, <3>1
  <2>12. stack' = frames \o rest
    BY <2>6
  <2> HIDE DEF frames
  <2>13. FramesInv'
    <3>1. \A a \in Range(frames), b \in Range(rest) : Above(a, b)
      BY <2>6, <2>10, <2>11 DEF Under
    <3>2. \A t \in Range(rest) \cup later : Sure(t)'
      BY <2>6, <2>7, <2>8 DEF Under, FinishInv, FramesInv
    <3>3. \A t \in Range(frames) \cup Range(rest) \cup later' : Sure(t)'
      BY <1>3, <2>9, <2>11, <3>2
    <3>4. /\ \A t \in later' : Carries(t) \/ t.f \in {"pull", "end"}
          /\ ~late' => \A t \in Range(ticks') : Ending("mid", t) => MidSpent'
      BY <1>3, <2>4 DEF FinishInv, FramesInv
    <3> QED
      BY <2>6, <2>11, <2>12, <3>1, <3>3, <3>4, FramesKeep
  <2>14. Range(stack') = Range(frames) \cup Range(rest)
    <3>1. rest \in Seq(Frames) /\ frames \in Seq(Frames)
      BY <2>6, <2>11 DEF Under
    <3>2. Range(frames \o rest) = Range(frames) \cup Range(rest)
      BY <3>1, Concats
    <3> QED
      BY <2>12, <3>2
  <2>15. ChunksInv'
    <3>1. \A t : Moving(t) => (t \in Range(stack) <=> t \in Range(stack'))
      BY <1>4, <2>6, <2>9, <2>11, <2>14
    <3>2. \A t : t.f = "write" => (t \in Range(stack) <=> t \in Range(stack'))
      BY <3>1 DEF Moving
    <3> QED
      BY <1>3, <2>4, <3>1, <3>2, ChunksStay
  <2> QED
    BY <2>5, <2>13, <2>15 DEF Kept
<1> QED
  BY <1>3, <1>5, <1>6

LEMMA CloseDstCarries ==
  ASSUME FinishInv, CloseDst
  PROVE  Kept
<1>1. PICK h \in Frames : h = Head(stack)
  BY Runs DEF CloseDst, Running
<1>2. PICK k : k = Frame("finish", "dst")
  OBVIOUS
<1> DEFINE rest == Tail(stack)
<1>3. /\ stack # << >> /\ h.f = "close" /\ h.s = "dst" /\ Ends("dst")
      /\ UNCHANGED <<ticks, later, rd, in, out, ends, written, intact, late>>
      /\ Then(<< >>) \/ Then(<<k>>)
  BY <1>1, <1>2 DEF CloseDst, Running, Me, history
<1>4. ~Moving(h) /\ Sure(h) /\ "mid" \in Readables /\ Dest("src") = "mid" /\ Dest("mid") = "dst"
  BY <1>1, <1>3, Runs DEF Moving, Carries, Dest, Readables
<1>5. k.f = "finish" /\ k.s = "dst" /\ k \in Frames
  BY <1>2 DEF Frame, Frames, Writables, Null
<1>6. /\ wr'["dst"].ended /\ wr'["mid"] = wr["mid"] /\ wr'["dst"].finished = wr["dst"].finished
      /\ wr' \in [Writables -> [ended : BOOLEAN, finished : BOOLEAN]]
  BY <1>3 DEF Ends, FinishInv, WritesInv, Writables
<1>7. ends["mid"] > 0
  BY <1>3, <1>4 DEF Sure
<1>8. MidSpent' = MidSpent
  BY <1>3 DEF MidSpent
<1>9. WritesInv'
  BY <1>3, <1>4, <1>6, <1>7, <1>8 DEF WritesInv, FinishInv, Readables
<1>10. \A t : Sure(t) => Sure(t)'
  BY <1>3, <1>6, <1>8 DEF Sure
<1>11. Sure(k)' /\ ~Moving(k)
  BY <1>5, <1>6 DEF Sure, Flowing, Writing, Ending, Carries, Moving
<1>12. PICK frames : Then(frames) /\ frames \in {<< >>, <<k>>}
  BY <1>3
<1>13. frames \in Seq(Frames) /\ Stacked(frames) /\ \A a \in Range(frames) : a = k
  <2>1. Range(<< >>) = {} /\ Stacked(<< >>) /\ Stacked(<<k>>) /\ Range(<<k>>) = {k}
    BY FewFrames
  <2>2. << >> \in Seq(Frames) /\ <<k>> \in Seq(Frames)
    BY <1>5
  <2> QED
    BY <1>12, <2>1, <2>2
<1>14. Under(rest) /\ stack' = frames \o rest /\ Range(stack) = {h} \cup Range(rest)
  <2>1. stack' = frames \o Tail(stack)
    BY <1>12 DEF Then
  <2> QED
    BY <1>1, <1>3, <2>1, TailIs
<1> HIDE DEF rest
<1>15. FramesInv'
  <2>1. \A a \in Range(frames), b \in Range(rest) : Above(a, b)
    BY <1>5, <1>13, <1>14 DEF Under, Above, Flowing, Writing, Ending
  <2>2. \A t \in Range(frames) \cup Range(rest) \cup later' : Sure(t)'
    BY <1>3, <1>10, <1>11, <1>13, <1>14 DEF Under, FinishInv, FramesInv
  <2>3. /\ \A t \in later' : Carries(t) \/ t.f \in {"pull", "end"}
        /\ ~late' => \A t \in Range(ticks') : Ending("mid", t) => MidSpent'
    BY <1>3, <1>8 DEF FinishInv, FramesInv
  <2> QED
    BY <1>13, <1>14, <2>1, <2>2, <2>3, FramesKeep
<1>16. Range(stack') = Range(frames) \cup Range(rest)
  BY <1>13, <1>14, Concats DEF Under
<1>17. ChunksInv'
  <2>1. \A t : Moving(t) => (t \in Range(stack) <=> t \in Range(stack'))
    BY <1>4, <1>11, <1>13, <1>14, <1>16
  <2>2. \A t : t.f = "write" => (t \in Range(stack) <=> t \in Range(stack'))
    BY <2>1 DEF Moving
  <2> QED
    BY <1>3, <2>1, <2>2, ChunksStay
<1> QED
  BY <1>9, <1>15, <1>17 DEF Kept

LEMMA FinishCarries ==
  ASSUME FinishInv, Finish
  PROVE  Kept
<1>1. PICK h \in Frames : h = Head(stack)
  BY Runs DEF Finish, Running
<1>2. /\ stack # << >> /\ h.f = "finish" /\ h.s \in Writables /\ Then(<< >>) /\ ~Moving(h) /\ Sure(h)
      /\ wr' = [wr EXCEPT ![h.s].finished = TRUE]
      /\ UNCHANGED <<ticks, later, rd, in, out, ends, written, intact, late>>
  BY <1>1, Runs DEF Finish, Running, Me, history
<1>3. /\ \A p \in Writables : wr'[p].ended = wr[p].ended
      /\ wr'["dst"].finished => wr["dst"].finished \/ h.s = "dst"
      /\ wr' \in [Writables -> [ended : BOOLEAN, finished : BOOLEAN]]
  BY <1>2 DEF FinishInv, WritesInv, Writables
<1>4. h.s = "dst" => wr["dst"].ended
  BY <1>2 DEF Sure
<1>5. MidSpent' = MidSpent
  BY <1>2 DEF MidSpent
<1>6. Dest("src") = "mid" /\ Dest("mid") = "dst" /\ "mid" \in Writables /\ "dst" \in Writables
  BY DEF Dest, Writables
<1>7. WritesInv'
  BY <1>2, <1>3, <1>4, <1>5, <1>6 DEF WritesInv, FinishInv, Readables
<1>8. \A t : Sure(t) => Sure(t)'
  BY <1>2, <1>3, <1>5, <1>6 DEF Sure
<1>9. FramesInv' /\ Range(stack) = {h} \cup Range(stack')
  BY <1>1, <1>2, <1>5, <1>8, PopStep
<1>10. ChunksInv'
  <2>1. \A t : Moving(t) => (t \in Range(stack) <=> t \in Range(stack'))
    BY <1>2, <1>9
  <2>2. \A t : t.f = "write" => (t \in Range(stack) <=> t \in Range(stack'))
    BY <2>1 DEF Moving
  <2> QED
    BY <1>2, <2>1, <2>2, ChunksStay
<1> QED
  BY <1>7, <1>9, <1>10 DEF Kept

\* The second half of read() takes a chunk that goes down no pipe.
LEMMA ReadRestIs ==
  ASSUME FinishInv, ReadRest, NEW s \in Readables, s = Me
  PROVE  \E q \in ReadState, over \in BOOLEAN, b \in Seq(Int) :
           /\ Set(s, q) /\ q.buffer = b /\ q.ended = rd[s].ended /\ q.flowingNow = rd[s].flowingNow
           /\ q.endEmitted \/ q.endPending => rd[s].endEmitted \/ rd[s].endPending \/ over
           /\ over => q.ended /\ q.buffer = << >>
           /\ b = IF rd[s].buffer = << >> THEN << >> ELSE Tail(rd[s].buffer)
           /\ ticks' = IF over /\ HasEndListener(s) THEN Append(ticks, Frame("end", s)) ELSE ticks
<1> DEFINE r == rd[s]
           b == IF r.buffer = << >> THEN r.buffer ELSE Tail(r.buffer)
           left == [r EXCEPT !.buffer = b]
           over == Over(left)
           heardOf == HasEndListener(s)
           q == [left EXCEPT !.endEmitted = @ \/ (over /\ heardOf),
                             !.endPending = @ \/ (over /\ ~heardOf)]
<1>1. /\ Set(s, q)
      /\ ticks' = IF over /\ heardOf THEN Append(ticks, Frame("end", s)) ELSE ticks
  BY DEF ReadRest
<1>2. r \in ReadState
  BY Typed DEF FinishInv
<1>3. b \in Seq(Int) /\ b = IF r.buffer = << >> THEN << >> ELSE Tail(r.buffer)
  BY <1>2 DEF ReadState
<1> HIDE DEF b
<1>4. /\ left \in ReadState /\ left.buffer = b /\ left.ended = r.ended /\ left.flowingNow = r.flowingNow
      /\ left.endEmitted = r.endEmitted /\ left.endPending = r.endPending
  BY <1>2, <1>3 DEF ReadState
<1> HIDE DEF left, heardOf
<1>5. over \in BOOLEAN /\ (over => left.ended /\ left.buffer = << >>)
  BY <1>4 DEF Over, ReadState
<1> HIDE DEF over
<1>6. /\ q \in ReadState /\ q.buffer = b /\ q.ended = r.ended /\ q.flowingNow = r.flowingNow
      /\ q.endEmitted \/ q.endPending => r.endEmitted \/ r.endPending \/ over
  BY <1>4 DEF ReadState
<1> HIDE DEF q
<1>7. over => q.ended /\ q.buffer = << >>
  BY <1>4, <1>5, <1>6
<1> QED
  BY <1>1, <1>3, <1>5, <1>6, <1>7 DEF heardOf

LEMMA ReadRestCarries ==
  ASSUME FinishInv, ReadRest
  PROVE  Kept
<1>1. PICK s \in Readables : s = Me
  BY Runs DEF ReadRest, Running
<1>2. /\ stack # << >> /\ Head(stack).f = "readRest" /\ Head(stack).s = s /\ Then(<< >>)
      /\ out' = [out EXCEPT ![s] = IF rd[s].buffer = << >> THEN @ ELSE Append(@, Head(rd[s].buffer))]
      /\ intact' = (intact /\ rd[s].buffer = << >>)
      /\ UNCHANGED <<later, wr, in, ends, written, late>>
  BY <1>1 DEF ReadRest, Running, Me
<1>3. rd[s] \in ReadState /\ ~Moving(Head(stack)) /\ SourceInv
  BY <1>1, <1>2, Runs
<1>4. PICK q \in ReadState, over \in BOOLEAN, b \in Seq(Int) :
           /\ Set(s, q) /\ q.buffer = b /\ q.ended = rd[s].ended /\ q.flowingNow = rd[s].flowingNow
           /\ q.endEmitted \/ q.endPending => rd[s].endEmitted \/ rd[s].endPending \/ over
           /\ over => q.ended /\ q.buffer = << >>
           /\ b = IF rd[s].buffer = << >> THEN << >> ELSE Tail(rd[s].buffer)
           /\ ticks' = IF over /\ HasEndListener(s) THEN Append(ticks, Frame("end", s)) ELSE ticks
  BY <1>1, ReadRestIs
<1>5. \A p \in Readables : rd'[p] = IF p = s THEN q ELSE rd[p]
  BY <1>4, SetIs
<1>6. "mid" \in Readables /\ "src" \in Readables /\ \A p \in Readables : p = "src" \/ p = "mid"
  BY DEF Readables
<1>7. (MidSpent => MidSpent') /\ (s = "mid" /\ over => MidSpent')
  BY <1>4, <1>5, <1>6 DEF MidSpent
<1>8. Firm
  BY <1>2, <1>4, <1>5, <1>7 DEF Firm
<1>9. WritesInv'
  <2>1. rd'["mid"].ended = rd["mid"].ended
        /\ (rd'["mid"].endEmitted \/ rd'["mid"].endPending =>
              rd["mid"].endEmitted \/ rd["mid"].endPending \/ (s = "mid" /\ over))
    BY <1>4, <1>5, <1>6
  <2> QED
    BY <1>2, <1>7, <2>1 DEF WritesInv, FinishInv
<1>10. PICK e : e = Frame("end", s)
  OBVIOUS
<1>11. e \in Frames /\ e.f = "end" /\ e.s = s
  BY <1>10 DEF Frame, Frames, Null
<1>12. \A x \in Range(ticks') : x \in Range(ticks) \/ (x = e /\ over)
  <2>1. ticks \in Seq(Frames)
    BY <1>3 DEF SourceInv, StreamsTypes
  <2>2. \A x : x \in Range(Append(ticks, e)) <=> x \in Range(ticks) \/ x = e
    BY <1>11, <2>1, Elements
  <2> QED
    BY <1>4, <1>10, <2>2
<1>13. Under(Tail(stack)) /\ stack' = << >> \o Tail(stack) /\ Range(stack) = {Head(stack)} \cup Range(Tail(stack))
  BY <1>2, TailIs DEF Then
<1>14. Range(<< >>) = {} /\ Stacked(<< >>)
  BY FewFrames
<1>15. << >> \in Seq(Frames) /\ \A a \in Range(<< >>), b2 \in Range(Tail(stack)) : Above(a, b2)
  BY <1>14
<1>16. FramesInv'
  <2>1. \A t \in Range(Tail(stack)) \cup later : Sure(t)'
    BY <1>8, <1>13, SureMoves DEF Under, FinishInv, FramesInv
  <2>2. \A t \in Range(<< >>) \cup Range(Tail(stack)) \cup later' : Sure(t)'
    BY <1>2, <1>14, <2>1
  <2>3. \A t \in later' : Carries(t) \/ t.f \in {"pull", "end"}
    BY <1>2 DEF FinishInv, FramesInv
  <2>4. ~late' => \A t \in Range(ticks') : Ending("mid", t) => MidSpent'
    BY <1>2, <1>7, <1>11, <1>12 DEF FinishInv, FramesInv, Ending
  <2> QED
    BY <1>13, <1>14, <1>15, <2>2, <2>3, <2>4, FramesKeep
<1>17. stack' = Tail(stack)
  BY <1>13 DEF Under
<1>18. \A t : Moving(t) => (t \in Range(stack) <=> t \in Range(stack'))
  BY <1>3, <1>13, <1>17
<1>19. ChunksInv'
  <2>1. CASE rd[s].buffer = << >>
    <3>1. \A p \in Readables : rd'[p].buffer = rd[p].buffer
      BY <1>4, <1>5, <2>1
    <3>2. UNCHANGED out /\ (intact' => intact)
      <4>1. out \in [Readables -> Seq(Int)] /\ (intact' => intact)
        BY <1>2, <1>3 DEF SourceInv, StreamsTypes
      <4>2. out' = [out EXCEPT ![s] = out[s]]
        BY <1>2, <2>1
      <4> QED
        BY <4>1, <4>2
    <3>3. \A t : t.f = "write" => (t \in Range(stack) <=> t \in Range(stack'))
      BY <1>18 DEF Moving
    <3> QED
      BY <1>2, <1>18, <3>1, <3>2, <3>3, ChunksStay
  <2>2. CASE rd[s].buffer # << >>
    <3>1. Placed
      BY ChunksAre DEF FinishInv
    <3>2. /\ rd[s].buffer \in Seq(Int) /\ out \in [Readables -> Seq(Int)]
          /\ b = Tail(rd[s].buffer) /\ ~intact'
          /\ out' = [out EXCEPT ![s] = Append(out[s], Head(rd[s].buffer))]
      BY <1>2, <1>3, <1>4, <2>2 DEF ReadState, SourceInv, StreamsTypes
    <3>3. \A p \in Readables : out'[p] = IF p = s THEN Append(out[s], Head(rd[s].buffer)) ELSE out[p]
      BY <3>2
    <3>4. \A p \in Readables : \A x \in Range(rd'[p].buffer) : x > 0
      <4>1. rd[s].buffer \in Seq(Int) /\ 0 \in Int
        BY <3>2
      <4>2. \A x \in Range(Tail(rd[s].buffer)) : x \in Range(rd[s].buffer)
        BY <2>2, <4>1, Elements
      <4> QED
        BY <1>4, <1>5, <3>1, <3>2, <4>2 DEF Placed
    <3>5. in'["mid"] = out'["mid"] \o rd'["mid"].buffer
      <4>1. CASE s = "mid"
        <5>1. out[s] \in Seq(Int)
          BY <3>2
        <5>2. out[s] \o rd[s].buffer = Append(out[s], Head(rd[s].buffer)) \o Tail(rd[s].buffer)
          BY <2>2, <3>2, <5>1, HeadMoves
        <5>3. out'["mid"] = Append(out[s], Head(rd[s].buffer)) /\ rd'["mid"].buffer = Tail(rd[s].buffer)
          BY <1>4, <1>5, <1>6, <3>2, <3>3, <4>1
        <5>4. in'["mid"] = out[s] \o rd[s].buffer
          BY <1>2, <3>1, <4>1 DEF Placed
        <5> QED
          BY <5>2, <5>3, <5>4
      <4>2. CASE s # "mid"
        BY <1>2, <1>5, <1>6, <3>1, <3>3, <4>2 DEF Placed
      <4> QED
        BY <4>1, <4>2
    <3>6. Placed'
      BY <3>2, <3>4, <3>5 DEF Placed
    <3> QED
      BY <3>6, ChunksAre
  <2> QED
    BY <2>1, <2>2
<1> QED
  BY <1>9, <1>16, <1>19 DEF Kept

----------------------------------------------------------------------------
(* The end of two pipes *)
LEMMA LibraryCarries ==
  ASSUME FinishInv, Library
  PROVE  Kept
BY PushEndCarries, PushEmptyCarries, PushChunkCarries, RefillCarries, LoopCarries, TakeCarries,
   LeaveCarries, EmitEndCarries, PlainKeeps, WriteMidCarries, WriteDstCarries, CloseMidCarries,
   CloseDstCarries, FinishCarries, PullSrcCarries, TickCarries, FillCarries, LaterCarries,
   ReadRestCarries DEF Library

LEMMA FinishStarts ==
  ASSUME StreamsInit
  PROVE  FinishInv
<1>1. SourceInv
  BY SourceStarts
<1>2. stack = <<User>> /\ ticks = << >> /\ later = {}
  BY DEF StreamsInit
<1>3. Range(<<User>>) = {User} /\ Stacked(<<User>>) /\ Range(<< >>) = {}
  BY FewFrames
<1>4. User.f = "user" /\ Sure(User)
  BY LightFrames, LightIs DEF User, Frame
<1>5. FramesInv
  BY <1>2, <1>3, <1>4 DEF FramesInv
<1>6. /\ wr = [s \in Writables |-> [ended |-> FALSE, finished |-> FALSE]]
      /\ ends["mid"] = 0 /\ ~rd["mid"].ended /\ ~rd["mid"].endEmitted /\ ~rd["mid"].endPending
  BY DEF StreamsInit, Readables
<1>7. WritesInv
  <2>1. \A s \in Readables : Dest(s) \in Writables
    BY DEF Dest, Writables
  <2> QED
    BY <1>6, <2>1 DEF WritesInv, Writables
<1>8. /\ \A s \in Readables : rd[s].buffer = << >> /\ in[s] = << >> /\ out[s] = << >>
      /\ written = << >> /\ "mid" \in Readables /\ "src" \in Readables
  BY DEF StreamsInit, Readables
<1>9. << >> \o << >> = << >>
  OBVIOUS
<1>10. ChunksInv
  <2>1. \A t \in Range(stack) \cup later : ~Held(t) /\ ~Writing("mid", t)
    BY <1>2, <1>3, <1>4 DEF Held, Writing, Carries
  <2>2. {t.c : t \in {u \in Range(stack) \cup later : Held(u)}} = {}
    BY <2>1
  <2> QED
    BY <1>3, <1>8, <1>9, <2>1, <2>2 DEF ChunksInv
<1> QED
  BY <1>1, <1>5, <1>7, <1>10 DEF FinishInv

\* The end passes from stream to stream once all has gone down the pipe.
LEMMA FinishIsWhole ==
  ASSUME FinishInv
  PROVE  FinishIsComplete
<1> SUFFICES ASSUME wr["dst"].finished, intact, ~late
             PROVE  written = in["mid"] /\ Range(written) = Range(in["src"]) /\ rd["src"].ended
  BY DEF FinishIsComplete
<1>1. /\ "src" \in Readables /\ "mid" \in Readables /\ Dest("src") = "mid" /\ Dest("mid") = "dst"
  BY DEF Readables, Dest
<1>2. ends["mid"] > 0 /\ MidSpent
  BY <1>1 DEF FinishInv, WritesInv
<1>3. ends["src"] > 0 /\ wr["mid"].ended
  BY <1>1, <1>2 DEF FinishInv, WritesInv, MidSpent
<1>4. Spent
  BY <1>3 DEF FinishInv, SourceInv, TellsInv
<1>5. \A t \in Range(stack) \cup later : Sure(t) /\ ~Writing("src", t) /\ ~Carries(t)
      /\ (t \in Range(stack) => ~Writing("mid", t))
  <2>1. \A t \in Range(stack) \cup later : Sure(t)
    BY DEF FinishInv, FramesInv
  <2>2. ends["src"] # 0 /\ ends["mid"] # 0
    BY <1>2, <1>3
  <2> QED
    BY <1>1, <1>3, <2>1, <2>2 DEF Sure
<1>6. Placed
  BY ChunksAre DEF FinishInv
<1>7. OutIs /\ WrittenIs /\ in["mid"] = out["mid"] \o rd["mid"].buffer
  BY <1>6 DEF Placed
<1>8. out["mid"] = written
  BY <1>5, <1>7 DEF WrittenIs
<1>9. /\ out["mid"] \in Seq(Int) /\ out["src"] \in Seq(Int) /\ in["src"] = out["src"] \o rd["src"].buffer
  BY <1>1 DEF FinishInv, SourceInv, StreamsTypes
<1>10. in["mid"] = written /\ in["src"] = out["src"]
  BY <1>2, <1>4, <1>7, <1>8, <1>9 DEF MidSpent, Spent
<1>11. \A c : c \in Range(out["src"]) <=> c \in Range(in["mid"])
  BY <1>5, <1>7 DEF OutIs, Held
<1>12. Range(out["src"]) = Range(in["mid"])
  BY <1>11
<1> QED
  BY <1>4, <1>10, <1>12 DEF Spent

\* When the writable at the end of two pipes finishes, it has got every chunk of the
\* source, in the order in which the transform answered (_Writable.end, Transform.end and
\* the pipe's onend), whatever the listeners call from inside an event.
THEOREM PipelineIsWhole == StreamsSpec => []FinishIsComplete
<1>1. StreamsInit => FinishInv
  BY FinishStarts
<1>2. FinishInv /\ [Script \/ Library]_vars => FinishInv'
  <2> SUFFICES ASSUME FinishInv, [Script \/ Library]_vars PROVE FinishInv'
    OBVIOUS
  <2>1. CASE Script
    BY <2>1, ScriptKeeps, ScriptCarries DEF FinishInv, Kept
  <2>2. CASE Library
    BY <2>2, LibraryKeeps, LibraryCarries DEF FinishInv, Kept
  <2>3. CASE UNCHANGED vars
    BY <2>3 DEF vars, states, history, FinishInv, SourceInv, StreamsTypes, GivesInv, TellsInv, Spent,
                FramesInv, WritesInv, ChunksInv, MidSpent, Sure
  <2> QED
    BY <2>1, <2>2, <2>3
<1>3. FinishInv => FinishIsComplete
  BY FinishIsWhole
<1> QED
  BY <1>1, <1>2, <1>3, PTL DEF StreamsSpec
=============================================================================
