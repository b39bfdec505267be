----------------------------- MODULE WebWorldProofs -----------------------------
(***************************************************************************)
(* The invariant of WebStreams, and that the library keeps it: each call   *)
(* of a stream, a promise or a source takes a world that is Good to one    *)
(* that is.  WebStreamsProofs goes from there to the steps of the program. *)
(***************************************************************************)
EXTENDS WebStreams, TLAPS, WellFoundedInduction, SequenceTheorems, FiniteSetTheorems

-----------------------------------------------------------------------------
(* What a world looks like between two calls of the library.  The record e  *)
(* says what cannot be read off the world at once: which readable streams   *)
(* are piped (pipes), and where the sink's promise chain stands.  line are  *)
(* its promises that are pending, in order; at is what settles the first:   *)
(* the sink's start(), a microtask that calls the sink, an answer that the  *)
(* sink owes with promise key, a microtask that has the answer, or nothing. *)

States == {"pending", "fulfilled", "rejected"}
Sides == Readables \cup Writables \cup {""}
Settling == {"resolve", "reject", "one", "failed", "piped", "step", "pipeEnd"}
SinkCalls == {"sinkWrite", "sinkClose"}
Doings == Settling \cup SinkCalls \cup {"none", "noop", "pulled", "pullFailed", "startFailed",
                                        "teeRead", "flushed", "got"}
SinkAsks == {"write", "close", "sinkStart"}
Asks == SinkAsks \cup {"source", "start", "transform", "flush"}

Size(w) == Len(w.heap) \* the promises made so far
All(w) == 1 .. Size(w)
Outcomes == {"fulfilled", "rejected"}
Values == Int

\* The promises that only the sink's chain may settle, and those that others may.
Held(e) == {e.line[i] : i \in DOMAIN e.line} \cup (IF e.at = "owed" THEN {e.key} ELSE {})
Free(k, e) == (1 .. k) \ Held(e)

Codes(k, e) ==
  {f \in [do : Doings, s : Sides, n : Int] :
     /\ f.do \in Settling => f.n \in Free(k, e)
     /\ f.do \in {"pulled", "pullFailed"} => f.s \in Readables
     /\ f.do \in {"piped", "step", "pipeEnd"} => f.s \in e.pipes
     /\ f.do \in SinkCalls => f.s = "in"
     /\ f.do = "got" => f.s \in {"src", "left", "right"}
     /\ f.do = "none" => f = NoCode}
Plain(k, e) == [onF : Codes(k, e), onR : Codes(k, e), to : {0} \cup Free(k, e)]

\* The reaction by which a promise of the chain calls the sink, for the next promise q,
\* and the one by which the sink's answer settles q.
CallsSink(r, q) == r.onF.do \in SinkCalls /\ r.onF.s = "dst" /\ r.onR = NoCode /\ r.to = q
AnswersSink(r, q) == r = [onF |-> Into("resolve", q), onR |-> Into("reject", q), to |-> 0]
OnChain(r, p, e) ==
  \/ \E j \in 1 .. (Len(e.line) - 1) : e.line[j] = p /\ CallsSink(r, e.line[j + 1])
  \/ e.at = "owed" /\ p = e.key /\ AnswersSink(r, e.line[1])
IsToken(r, e) ==
  \/ e.at = "task" /\ CallsSink(r, e.line[1])
  \/ e.at = "answer" /\ AnswersSink(r, e.line[1])

Envs == [pipes : SUBSET Readables, line : Seq(Nat), key : Nat,
         at : {"none", "start", "task", "owed", "answer"}]
EnvOK(k, e) ==
  /\ k \in Nat /\ e \in Envs
  /\ Held(e) \subseteq 1 .. k
  /\ \A i, j \in DOMAIN e.line : e.line[i] = e.line[j] => i = j
  /\ e.line = << >> => e.at = "none"
  /\ e.at = "owed" => \A i \in DOMAIN e.line : e.line[i] # e.key

\* What promises, reactions and tasks look like.
CodeShape == [do : Doings, s : Sides, n : Int]
ReactionShape == [onF : CodeShape, onR : CodeShape, to : Nat]
PromiseShape == [state : States, value : Int, handled : BOOLEAN, flagged : BOOLEAN,
                 heard : BOOLEAN, tally : Int, reactions : Seq(ReactionShape)]
TaskShape == [do : {"fulfilled", "rejected", "check"}, v : Int, r : ReactionShape]

PromiseOK(q, p, k, e) ==
  /\ q \in PromiseShape
  /\ \A i \in DOMAIN q.reactions : q.reactions[i] \in Plain(k, e) \/ OnChain(q.reactions[i], p, e)
  /\ \A i, j \in DOMAIN q.reactions :
       OnChain(q.reactions[i], p, e) /\ OnChain(q.reactions[j], p, e) => i = j
  /\ p \in Held(e) => q.state = "pending"
HeapOK(w, e) ==
  /\ w.heap \in Seq(PromiseShape)
  /\ \A p \in All(w) : PromiseOK(w.heap[p], p, Size(w), e)
\* A rejected promise is listened to, was flagged, or will be looked at.
SeenOK(w) ==
  \A p \in All(w) :
    /\ w.heap[p].reactions # << >> \/ w.heap[p].handled => w.heap[p].heard
    /\ w.heap[p].state = "rejected" =>
         \/ w.heap[p].heard \/ w.heap[p].flagged
         \/ \E i \in DOMAIN w.micro : w.micro[i].do = "check" /\ w.micro[i].r.to = p
TaskOK(t, k, e) ==
  /\ t.r \in Plain(k, e) \/ IsToken(t.r, e)
  /\ t.do = "check" => t.r.to \in Free(k, e)
MicroOK(w, e) ==
  /\ w.micro \in Seq(TaskShape)
  /\ \A i \in DOMAIN w.micro : TaskOK(w.micro[i], Size(w), e)
  /\ \A i, j \in DOMAIN w.micro : IsToken(w.micro[i].r, e) /\ IsToken(w.micro[j].r, e) => i = j
OwedOK(w, e) ==
  /\ w.owed \subseteq [who : Asks, p : All(w), n : Int]
  /\ \A o \in w.owed :
       CASE o.who = "sinkStart" -> e.at = "start" /\ o.p = e.line[1]
         [] o.who \in {"write", "close"} -> e.at = "owed" /\ o.p = e.key
         [] OTHER -> o.p \in Free(Size(w), e)
  /\ \A o, q \in w.owed : o.who \in SinkAsks /\ q.who \in SinkAsks => o = q
ReadableShape(k, e) ==
  [queue : Seq(Int), waiters : Seq(Free(k, e)), closed : BOOLEAN, cancelled : BOOLEAN,
   errored : Int, pulling : BOOLEAN, locked : BOOLEAN, closedPromise : Nat]
WritableShape(k) == [closed : BOOLEAN, errored : Int, locked : BOOLEAN, writing : 0 .. k]
StreamsOK(w, e) ==
  LET k == Size(w)
  IN /\ w.rs \in [Readables -> ReadableShape(k, e)]
     /\ \A s \in Readables : w.rs[s].locked => w.rs[s].closedPromise \in Free(k, e)
     /\ w.ws \in [Writables -> WritableShape(k)]
     /\ IF e.line = << >>
        THEN w.ws["dst"].writing # 0 => w.heap[w.ws["dst"].writing].state # "pending"
        ELSE w.ws["dst"].writing = e.line[Len(e.line)]
     /\ \A s \in e.pipes : w.ws[PipesInto(w, s)].writing # 0
ScriptOK(w) ==
  /\ w.plan \in Plans \cup {NoPlan} /\ w.given \in Nat /\ w.over \in BOOLEAN
  /\ w.taken \in [Consumers -> Seq(Int)] /\ w.done \subseteq Consumers /\ w.faults \in Nat
  /\ w.script \in [first : Nat, pipe : Nat, join : Nat, stopped : BOOLEAN,
                   writes : Seq(All(w))]
Fields == {"heap", "micro", "rs", "ws", "owed", "plan", "given", "over", "taken", "done",
           "script", "faults"}
Good(w, e) ==
  /\ w = [f \in Fields |-> w[f]]
  /\ EnvOK(Size(w), e) /\ HeapOK(w, e) /\ SeenOK(w) /\ MicroOK(w, e)
  /\ OwedOK(w, e) /\ StreamsOK(w, e) /\ ScriptOK(w)
\* Names for what is done to sequences and worlds.
Cat(a, b) == a \o b
Keeps(a, c) == \A i \in DOMAIN a : i \in DOMAIN c /\ c[i] = a[i]
Holds(c, t) == \A i \in DOMAIN t : \E j \in DOMAIN c : c[j] = t[i]
PlainTasks(t, k, e) ==
  \A i \in DOMAIN t : t[i].r \in Plain(k, e) /\ (t[i].do = "check" => t[i].r.to \in Free(k, e))
Put(s, i, r) == [s EXCEPT ![i] = r]
Rest(w) == <<w.rs, w.ws, w.owed, w.plan, w.given, w.over, w.taken, w.done, w.script, w.faults>>
IsWorld(w) == w = [f \in Fields |-> w[f]]

HeapMicro(w, h, m) == [w EXCEPT !.heap = h, !.micro = m]
LEMMA HeapMicroSet ==
  ASSUME NEW w, IsWorld(w), NEW h, NEW m
  PROVE  LET x == HeapMicro(w, h, m) IN IsWorld(x) /\ x.heap = h /\ x.micro = m /\ Rest(x) = Rest(w)
<1> DEFINE x == HeapMicro(w, h, m)
<1>1. DOMAIN w = Fields
  BY DEF IsWorld
<1>2. DOMAIN x = Fields /\ x = [f \in DOMAIN x |-> x[f]]
  BY <1>1 DEF HeapMicro
<1>3. /\ x.heap = h /\ x.micro = m
      /\ x.rs = w.rs /\ x.ws = w.ws /\ x.owed = w.owed /\ x.plan = w.plan
      /\ x.given = w.given /\ x.over = w.over /\ x.taken = w.taken /\ x.done = w.done
      /\ x.script = w.script /\ x.faults = w.faults
  BY <1>1 DEF Fields, HeapMicro
<1> QED
  BY <1>2, <1>3 DEF IsWorld, Rest

LEMMA Wider ==
  ASSUME NEW e, NEW k, k \in Nat, NEW m, m \in Nat, k <= m
  PROVE  Free(k, e) \subseteq Free(m, e) /\ Codes(k, e) \subseteq Codes(m, e) /\ Plain(k, e) \subseteq Plain(m, e)
<1>1. Free(k, e) \subseteq Free(m, e)
  BY DEF Free
<1>2. Codes(k, e) \subseteq Codes(m, e)
  BY <1>1 DEF Codes
<1>3. ASSUME NEW r \in Plain(k, e) PROVE r \in Plain(m, e)
  <2>1. r.onF \in Codes(m, e) /\ r.onR \in Codes(m, e) /\ r.to \in {0} \cup Free(m, e)
    BY <1>1, <1>2 DEF Plain
  <2>2. r = [onF |-> r.onF, onR |-> r.onR, to |-> r.to]
    BY DEF Plain
  <2> QED
    BY <2>1, <2>2 DEF Plain
<1> QED
  BY <1>1, <1>2, <1>3

LEMMA HeldIs == ASSUME NEW k, NEW e, EnvOK(k, e) PROVE Held(e) \subseteq 1 .. k
BY DEF EnvOK

LEMMA PlainShape ==
  ASSUME NEW k, k \in Nat, NEW e, NEW r \in Plain(k, e)
  PROVE  r \in ReactionShape
<1>1. r.onF \in CodeShape /\ r.onR \in CodeShape /\ r.to \in Nat
  BY DEF Plain, Codes, CodeShape, Free
<1>2. r = [onF |-> r.onF, onR |-> r.onR, to |-> r.to]
  BY DEF Plain
<1> QED
  BY <1>1, <1>2 DEF ReactionShape

\* A promise that is not held takes no part in the chain.
LEMMA NotChain ==
  ASSUME NEW p, NEW e, p \notin Held(e), e \in Envs, NEW r
  PROVE  ~OnChain(r, p, e)
BY LenProperties DEF OnChain, Held, Envs

\* Nothing that others may do settles a promise of the chain.
LEMMA ChainIsNotPlain ==
  ASSUME NEW p, NEW e, NEW k, k \in Nat, EnvOK(k, e), NEW r, OnChain(r, p, e) \/ IsToken(r, e)
  PROVE  r \notin Plain(k, e)
<1>1. CASE r.onF.do \in SinkCalls /\ r.onF.s = "dst"
  BY <1>1 DEF Plain, Codes, SinkCalls
<1>2. CASE AnswersSink(r, e.line[1]) /\ e.line # << >>
  <2>1. e.line \in Seq(Nat)
    BY DEF EnvOK, Envs
  <2>2. 1 \in DOMAIN e.line
    BY <1>2, <2>1, EmptySeq, LenProperties
  <2>3. e.line[1] \in Held(e)
    BY <2>2 DEF Held
  <2>4. r.onF.do = "resolve" /\ r.onF.n = e.line[1]
    BY <1>2 DEF AnswersSink, Into, Code
  <2> QED
    BY <2>3, <2>4 DEF Plain, Codes, Free, Settling
<1>3. e.at \in {"owed", "answer", "task"} => e.line # << >>
  BY DEF EnvOK
<1> QED
  BY <1>1, <1>2, <1>3 DEF OnChain, IsToken, CallsSink

LEMMA LenHeap ==
  ASSUME NEW w, NEW e, Good(w, e)
  PROVE  /\ Size(w) \in Nat /\ w.heap \in Seq(PromiseShape) /\ w.micro \in Seq(TaskShape)
         /\ IsWorld(w) /\ e \in Envs /\ DOMAIN w.heap = All(w)
<1>1. w.heap \in Seq(PromiseShape)
  BY DEF Good, HeapOK
<1>2. w.micro \in Seq(TaskShape)
  BY DEF Good, MicroOK
<1> QED
  BY <1>1, <1>2, LenProperties DEF Good, IsWorld, EnvOK, Size, All

LEMMA SeqWider ==
  ASSUME NEW S, NEW T, S \subseteq T, NEW s \in Seq(S)
  PROVE  s \in Seq(T)
BY LenProperties, ElementOfSeq, SeqDef

LEMMA ShapesWider ==
  ASSUME NEW e, NEW k, k \in Nat, NEW m, m \in Nat, k <= m
  PROVE  ReadableShape(k, e) \subseteq ReadableShape(m, e) /\ WritableShape(k) \subseteq WritableShape(m)
<1>1. Seq(Free(k, e)) \subseteq Seq(Free(m, e))
  BY Wider, SeqWider
<1>2. ReadableShape(k, e) \subseteq ReadableShape(m, e)
  BY <1>1 DEF ReadableShape
<1>3. 0 .. k \subseteq 0 .. m
  OBVIOUS
<1> QED
  BY <1>2, <1>3 DEF WritableShape

\* What a step on promises leaves as it was.
LEMMA RestStays ==
  ASSUME NEW w, NEW e, Good(w, e), NEW x, Rest(x) = Rest(w),
         Size(x) \in Nat, Size(w) <= Size(x),
         \A p \in All(w) : w.heap[p].state # "pending" => x.heap[p].state # "pending"
  PROVE  EnvOK(Size(x), e) /\ OwedOK(x, e) /\ StreamsOK(x, e) /\ ScriptOK(x)
<1> DEFINE k == Size(w)
           m == Size(x)
<1>1. k \in Nat /\ m \in Nat /\ k <= m
  BY LenHeap
<1>2. /\ x.rs = w.rs /\ x.ws = w.ws /\ x.owed = w.owed /\ x.plan = w.plan
      /\ x.given = w.given /\ x.over = w.over /\ x.taken = w.taken /\ x.done = w.done
      /\ x.script = w.script /\ x.faults = w.faults
  BY DEF Rest
<1>3. EnvOK(k, e) /\ OwedOK(w, e) /\ StreamsOK(w, e) /\ ScriptOK(w)
  BY DEF Good
<1>4. Free(k, e) \subseteq Free(m, e)
  BY <1>1, Wider
<1>5. EnvOK(m, e)
  BY <1>1, <1>3 DEF EnvOK
<1>6. OwedOK(x, e)
  <2>1. x.owed \subseteq [who : Asks, p : 1 .. m, n : Int]
    BY <1>1, <1>2, <1>3 DEF OwedOK, All
  <2>2. ASSUME NEW o \in x.owed
        PROVE  CASE o.who = "sinkStart" -> e.at = "start" /\ o.p = e.line[1]
                 [] o.who \in {"write", "close"} -> e.at = "owed" /\ o.p = e.key
                 [] OTHER -> o.p \in Free(m, e)
    BY <1>2, <1>3, <1>4 DEF OwedOK
  <2>3. \A o, q \in x.owed : o.who \in SinkAsks /\ q.who \in SinkAsks => o = q
    BY <1>2, <1>3 DEF OwedOK
  <2> QED
    BY <2>1, <2>2, <2>3 DEF OwedOK, All
<1>7. StreamsOK(x, e)
  <2> HIDE DEF k, m
  <2>1. w.rs \in [Readables -> ReadableShape(k, e)]
    BY <1>3 DEF StreamsOK, k
  <2>2. ReadableShape(k, e) \subseteq ReadableShape(m, e) /\ WritableShape(k) \subseteq WritableShape(m)
    BY <1>1, ShapesWider
  <2>3. x.rs \in [Readables -> ReadableShape(m, e)]
    BY <1>2, <2>1, <2>2
  <2>4. \A s \in Readables : x.rs[s].locked => x.rs[s].closedPromise \in Free(m, e)
    BY <1>2, <1>3, <1>4 DEF StreamsOK, k
  <2>5. w.ws \in [Writables -> WritableShape(k)]
    BY <1>3 DEF StreamsOK, k
  <2>6. x.ws \in [Writables -> WritableShape(m)]
    BY <1>2, <2>2, <2>5
  <2>7. IF e.line = << >>
        THEN x.ws["dst"].writing # 0 => x.heap[x.ws["dst"].writing].state # "pending"
        ELSE x.ws["dst"].writing = e.line[Len(e.line)]
    <3>1. w.ws["dst"].writing \in 0 .. k
      BY <2>5 DEF Writables, WritableShape
    <3> QED
      BY <1>1, <1>2, <1>3, <3>1 DEF StreamsOK, k, All
  <2>8. \A s \in e.pipes : x.ws[PipesInto(x, s)].writing # 0
    BY <1>2, <1>3 DEF StreamsOK, PipesInto
  <2> QED
    BY <2>3, <2>4, <2>6, <2>7, <2>8 DEF StreamsOK, m
<1>8. ScriptOK(x)
  <2>1. Seq(1 .. k) \subseteq Seq(1 .. m)
    <3>1. 1 .. k \subseteq 1 .. m
      BY <1>1
    <3> QED
      BY <3>1, SeqWider
  <2>2. w.script \in [first : Nat, pipe : Nat, join : Nat, stopped : BOOLEAN, writes : Seq(1 .. k)]
    BY <1>3 DEF ScriptOK, All
  <2> HIDE DEF k, m
  <2>3. x.script \in [first : Nat, pipe : Nat, join : Nat, stopped : BOOLEAN, writes : Seq(1 .. m)]
    BY <1>2, <2>1, <2>2
  <2> QED
    BY <1>2, <1>3, <2>3 DEF ScriptOK, m, All
<1> QED
  BY <1>5, <1>6, <1>7, <1>8

LEMMA PromiseWider ==
  ASSUME NEW q, NEW p, NEW e, NEW k, k \in Nat, NEW m, m \in Nat, k <= m, PromiseOK(q, p, k, e)
  PROVE  PromiseOK(q, p, m, e)
<1>1. Plain(k, e) \subseteq Plain(m, e)
  BY Wider
<1> QED
  BY <1>1 DEF PromiseOK

LEMMA Joined ==
  ASSUME NEW S, NEW a \in Seq(S), NEW b \in Seq(S), NEW c, c = Cat(a, b)
  PROVE  /\ \A i \in DOMAIN c : \/ i \in DOMAIN a /\ c[i] = a[i]
                             \/ \E j \in DOMAIN b : c[i] = b[j]
         /\ \A i \in DOMAIN a : i \in DOMAIN c /\ c[i] = a[i]
         /\ \A i \in DOMAIN b : \E j \in DOMAIN c : c[j] = b[i]
<1>1. /\ c \in Seq(S) /\ Len(c) = Len(a) + Len(b)
      /\ \A i \in 1 .. Len(a) : c[i] = a[i]
      /\ \A i \in 1 .. Len(b) : c[Len(a) + i] = b[i]
  BY DEF Cat
<1>2. Len(a) \in Nat /\ Len(b) \in Nat /\ DOMAIN a = 1 .. Len(a) /\ DOMAIN b = 1 .. Len(b)
      /\ DOMAIN c = 1 .. (Len(a) + Len(b))
  BY <1>1, LenProperties
<1>3. ASSUME NEW i \in 1 .. (Len(a) + Len(b)), i \notin 1 .. Len(a)
      PROVE  i - Len(a) \in 1 .. Len(b) /\ i = Len(a) + (i - Len(a))
  BY <1>2, <1>3
<1>4. ASSUME NEW i \in DOMAIN c, i \notin DOMAIN a
      PROVE  i - Len(a) \in DOMAIN b /\ c[i] = b[i - Len(a)]
  BY <1>1, <1>2, <1>3, <1>4
<1>5. ASSUME NEW i \in DOMAIN b PROVE Len(a) + i \in DOMAIN c /\ c[Len(a) + i] = b[i]
  BY <1>1, <1>2
<1>6. ASSUME NEW i \in DOMAIN c
      PROVE  (i \in DOMAIN a /\ c[i] = a[i]) \/ \E j \in DOMAIN b : c[i] = b[j]
  <2>1. CASE i \in DOMAIN a
    BY <1>1, <1>2, <2>1
  <2>2. CASE i \notin DOMAIN a
    BY <1>4, <2>2
  <2> QED
    BY <2>1, <2>2
<1>7. ASSUME NEW i \in DOMAIN a PROVE i \in DOMAIN c /\ c[i] = a[i]
  BY <1>1, <1>2
<1> QED
  BY <1>5, <1>6, <1>7

\* Tasks of others behind those that wait.
LEMMA MoreTasks ==
  ASSUME NEW w, NEW e, MicroOK(w, e), NEW x, Size(w) \in Nat, Size(x) \in Nat,
         Size(w) <= Size(x), EnvOK(Size(x), e),
         NEW t, t \in Seq(TaskShape), x.micro = Cat(w.micro, t),
         PlainTasks(t, Size(x), e)
  PROVE  MicroOK(x, e) /\ Keeps(w.micro, x.micro) /\ Holds(x.micro, t)
<1> DEFINE m == Size(x)
<1>1. w.micro \in Seq(TaskShape)
  BY DEF MicroOK
<1>2. /\ x.micro \in Seq(TaskShape) /\ Len(x.micro) = Len(w.micro) + Len(t)
      /\ \A i \in 1 .. Len(w.micro) : x.micro[i] = w.micro[i]
      /\ \A i \in 1 .. Len(t) : x.micro[Len(w.micro) + i] = t[i]
  BY <1>1 DEF Cat
<1>3. Len(w.micro) \in Nat /\ Len(t) \in Nat /\ DOMAIN w.micro = 1 .. Len(w.micro) /\ DOMAIN t = 1 .. Len(t)
      /\ DOMAIN x.micro = 1 .. (Len(w.micro) + Len(t))
  BY <1>1, <1>2, LenProperties
<1>4. \A i \in DOMAIN x.micro : \/ i \in DOMAIN w.micro /\ x.micro[i] = w.micro[i]
                                \/ \E j \in DOMAIN t : x.micro[i] = t[j]
  BY <1>1, Joined
<1>5. \A i \in 1 .. Len(w.micro) : TaskOK(w.micro[i], m, e)
  <2>1. Free(Size(w), e) \subseteq Free(m, e) /\ Plain(Size(w), e) \subseteq Plain(m, e)
    BY Wider
  <2> QED
    BY <1>3, <2>1 DEF TaskOK, MicroOK
<1>6. \A i \in 1 .. Len(t) : TaskOK(t[i], m, e) /\ ~IsToken(t[i].r, e)
  BY <1>3, ChainIsNotPlain DEF TaskOK, PlainTasks
<1>7. \A i \in DOMAIN x.micro : TaskOK(x.micro[i], m, e)
  BY <1>3, <1>4, <1>5, <1>6
<1>8. \A i \in DOMAIN x.micro : IsToken(x.micro[i].r, e) => i \in 1 .. Len(w.micro)
  BY <1>3, <1>4, <1>6
<1>9. \A i, j \in 1 .. Len(w.micro) : IsToken(w.micro[i].r, e) /\ IsToken(w.micro[j].r, e) => i = j
  BY <1>3 DEF MicroOK
<1>10. \A i, j \in DOMAIN x.micro : IsToken(x.micro[i].r, e) /\ IsToken(x.micro[j].r, e) => i = j
  BY <1>2, <1>3, <1>8, <1>9
<1>11. MicroOK(x, e)
  BY <1>2, <1>7, <1>10 DEF MicroOK
<1>12. \A i \in DOMAIN w.micro : i \in DOMAIN x.micro /\ x.micro[i] = w.micro[i]
  BY <1>1, Joined
<1>13. ASSUME NEW i \in DOMAIN t PROVE Len(w.micro) + i \in DOMAIN x.micro /\ x.micro[Len(w.micro) + i] = t[i]
  BY <1>2, <1>3
<1> QED
  BY <1>11, <1>12, <1>13 DEF Keeps, Holds

LEMMA NoMoreTasks ==
  ASSUME NEW w, NEW e, MicroOK(w, e), NEW x, Size(w) \in Nat, Size(x) \in Nat,
         Size(w) <= Size(x), x.micro = w.micro
  PROVE  MicroOK(x, e)
<1>1. Free(Size(w), e) \subseteq Free(Size(x), e) /\ Plain(Size(w), e) \subseteq Plain(Size(x), e)
  BY Wider
<1> QED
  BY <1>1 DEF MicroOK, TaskOK

\* Looks that wait for a promise keep waiting.
LEMMA StillSeen ==
  ASSUME NEW w, NEW x, SeenOK(w), Keeps(w.micro, x.micro),
         NEW p, p \in All(w), x.heap[p] = w.heap[p]
  PROVE  /\ x.heap[p].reactions # << >> \/ x.heap[p].handled => x.heap[p].heard
         /\ x.heap[p].state = "rejected" =>
              \/ x.heap[p].heard \/ x.heap[p].flagged
              \/ \E i \in DOMAIN x.micro : x.micro[i].do = "check" /\ x.micro[i].r.to = p
BY DEF SeenOK, Keeps

LEMMA MadeIs ==
  ASSUME NEW w, NEW e, Good(w, e)
  PROVE  /\ Made(w).p = Size(w) + 1 /\ IsWorld(Made(w).w) /\ Made(w).w.micro = w.micro /\ Rest(Made(w).w) = Rest(w)
         /\ Made(w).w.heap \in Seq(PromiseShape) /\ Size(Made(w).w) = Size(w) + 1
         /\ Made(w).w.heap[Size(w) + 1] = Pending
         /\ \A p \in All(w) : Made(w).w.heap[p] = w.heap[p]
<1> DEFINE x == [w EXCEPT !.heap = Append(@, Pending)]
<1>1. w.heap \in Seq(PromiseShape) /\ IsWorld(w)
  BY LenHeap
<1>2. Pending \in PromiseShape
  BY DEF Pending, PromiseShape, States, Undefined
<1> DEFINE h == Append(w.heap, Pending)
<1>3. h \in Seq(PromiseShape) /\ Len(h) = Len(w.heap) + 1 /\ h[Len(w.heap) + 1] = Pending
      /\ \A p \in 1 .. Len(w.heap) : h[p] = w.heap[p]
  BY <1>1, <1>2, AppendProperties
<1>4. x = HeapMicro(w, h, w.micro)
  BY <1>1 DEF IsWorld, HeapMicro
<1>5. Made(w).w = x /\ Made(w).p = Size(w) + 1
  BY DEF Made, Size
<1> HIDE DEF x, h
<1>6. IsWorld(x) /\ x.heap = h /\ x.micro = w.micro /\ Rest(x) = Rest(w)
  BY <1>1, <1>4, HeapMicroSet
<1> QED
  BY <1>3, <1>5, <1>6 DEF Size, All

LEMMA MadeGood ==
  ASSUME NEW w, NEW e, Good(w, e)
  PROVE  /\ Good(Made(w).w, e) /\ Made(w).p = Size(w) + 1 /\ Size(Made(w).w) = Size(w) + 1
         /\ Made(w).p \in Free(Size(Made(w).w), e)
<1>1. Size(w) \in Nat
  BY LenHeap
<1>2. PICK x : x = Made(w).w
  OBVIOUS
<1>3. /\ Made(w).p = Size(w) + 1 /\ IsWorld(x) /\ x.micro = w.micro /\ Rest(x) = Rest(w)
      /\ x.heap \in Seq(PromiseShape) /\ Size(x) = Size(w) + 1
      /\ x.heap[Size(w) + 1] = Pending
      /\ \A p \in All(w) : x.heap[p] = w.heap[p]
  BY <1>2, MadeIs
<1>4. Size(x) \in Nat /\ Size(w) <= Size(x)
  BY <1>1, <1>3
<1>5. EnvOK(Size(x), e) /\ OwedOK(x, e) /\ StreamsOK(x, e) /\ ScriptOK(x)
  BY <1>3, <1>4, RestStays
<1>6. \A p \in All(x) : p \in All(w) \/ p = Size(w) + 1
  BY <1>1, <1>3 DEF All
<1>7. Size(w) + 1 \notin Held(e)
  <2>1. Held(e) \subseteq All(w)
    BY DEF Good, EnvOK, All
  <2> QED
    BY <1>1, <2>1 DEF All
<1>8. HeapOK(x, e)
  <2>1. \A p \in All(w) : PromiseOK(w.heap[p], p, Size(w), e)
    BY DEF Good, HeapOK
  <2>2. \A p \in All(w) : PromiseOK(w.heap[p], p, Size(x), e)
    BY <1>1, <1>4, <2>1, PromiseWider
  <2>3. PromiseOK(Pending, Size(w) + 1, Size(x), e)
    <3>1. Pending \in PromiseShape
      BY DEF Pending, PromiseShape, States, Undefined
    <3> QED
      BY <1>7, <3>1 DEF PromiseOK, Pending
  <2> QED
    BY <1>3, <1>6, <2>2, <2>3 DEF HeapOK
<1>9. SeenOK(x)
  <2>1. SeenOK(w)
    BY DEF Good
  <2>2. Pending.reactions = << >> /\ ~Pending.handled /\ Pending.state # "rejected"
    BY DEF Pending
  <2> QED
    BY <1>3, <1>6, <2>1, <2>2 DEF SeenOK
<1>10. MicroOK(x, e)
  BY <1>1, <1>3, <1>4, NoMoreTasks DEF Good
<1>11. Good(x, e)
  BY <1>3, <1>5, <1>8, <1>9, <1>10 DEF Good, IsWorld
<1>12. Size(w) + 1 \in Free(Size(x), e)
  BY <1>1, <1>3, <1>7 DEF Free
<1> QED
  BY <1>2, <1>3, <1>11, <1>12

LEMMA PromiseAt ==
  ASSUME NEW w, NEW e, Good(w, e), NEW p, p \in All(w)
  PROVE  /\ w.heap[p] \in PromiseShape /\ w.heap[p].reactions \in Seq(ReactionShape)
         /\ w.heap[p].state \in States /\ w.heap[p].value \in Int /\ w.heap[p].tally \in Int
         /\ PromiseOK(w.heap[p], p, Size(w), e)
<1>1. PromiseOK(w.heap[p], p, Size(w), e)
  BY DEF Good, HeapOK
<1>2. w.heap[p] \in PromiseShape
  BY <1>1 DEF PromiseOK
<1> QED
  BY <1>1, <1>2 DEF PromiseShape

LEMMA AtSeq ==
  ASSUME NEW S, NEW s \in Seq(S), NEW i, i \in DOMAIN s, NEW r \in S
  PROVE  /\ Put(s, i, r) \in Seq(S) /\ Len(Put(s, i, r)) = Len(s) /\ DOMAIN Put(s, i, r) = DOMAIN s
         /\ Put(s, i, r)[i] = r /\ \A j \in DOMAIN s : j # i => Put(s, i, r)[j] = s[j]
BY ExceptSeq, LenProperties DEF Put

LEMMA OneTask ==
  ASSUME NEW t \in TaskShape
  PROVE  <<t>> \in Seq(TaskShape) /\ DOMAIN <<t>> = {1} /\ <<t>>[1] = t
OBVIOUS

\* The tasks that a promise q, number p, leaves when it settles.
Leaves(q, p, state, v) ==
  IF state = "rejected" /\ q.reactions = << >> THEN <<Check(p)>>
  ELSE [i \in DOMAIN q.reactions |-> Task(q.reactions[i], state, v)]
Settles(q, state, v) ==
  [q EXCEPT !.state = state, !.value = v, !.reactions = << >>,
            !.handled = IF state = "rejected" THEN q.reactions # << >> ELSE @]

LeftBy(t, q, p, state) ==
  \A i \in DOMAIN t :
    \/ t[i] = Check(p)
    \/ i \in DOMAIN q.reactions /\ t[i].r = q.reactions[i] /\ t[i].do = state

LEMMA LeavesIs ==
  ASSUME NEW w, NEW e, Good(w, e), NEW p, p \in All(w), NEW q, q = w.heap[p],
         NEW state, state \in Outcomes, NEW v, v \in Values,
         NEW t, t = Leaves(q, p, state, v)
  PROVE  /\ t \in Seq(TaskShape)
         /\ LeftBy(t, q, p, state)
         /\ state = "rejected" /\ ~HadHandlers(q) => \E i \in DOMAIN t : t[i] = Check(p)
<1>0. p \in Nat /\ q \in PromiseShape
  BY LenHeap, PromiseAt DEF All
<1>1. CASE state = "rejected" /\ q.reactions = << >>
  <2> DEFINE c == Check(p)
  <2>1. c \in TaskShape
    BY <1>0 DEF Check, TaskShape, ReactionShape, CodeShape, NoCode, Code, Doings, Sides, Undefined
  <2> HIDE DEF c
  <2>2. t = <<c>>
    BY <1>1 DEF Leaves, c
  <2>3. <<c>> \in Seq(TaskShape) /\ DOMAIN <<c>> = {1} /\ <<c>>[1] = c
    BY <2>1, OneTask
  <2>4. t \in Seq(TaskShape) /\ DOMAIN t = {1} /\ t[1] = c
    BY <2>2, <2>3
  <2> QED
    BY <2>4 DEF c, LeftBy
<1>2. CASE ~(state = "rejected" /\ q.reactions = << >>)
  <2>1. q.reactions \in Seq(ReactionShape)
    BY <1>0 DEF PromiseShape
  <2>2. t = [i \in DOMAIN q.reactions |-> Task(q.reactions[i], state, v)]
    BY <1>2 DEF Leaves
  <2>3. \A i \in DOMAIN q.reactions : q.reactions[i] \in ReactionShape
    BY <2>1, ElementOfSeq, LenProperties
  <2>4. \A i \in DOMAIN q.reactions : Task(q.reactions[i], state, v) \in TaskShape
    BY <2>3 DEF Task, TaskShape, Outcomes, Values
  <2>5. t \in Seq(TaskShape)
    <3>1. DOMAIN q.reactions = 1 .. Len(q.reactions) /\ Len(q.reactions) \in Nat
      BY <2>1, LenProperties
    <3>2. t \in [1 .. Len(q.reactions) -> TaskShape]
      BY <2>2, <2>4, <3>1
    <3> QED
      BY <3>1, <3>2, SeqDef
  <2>6. \A i \in DOMAIN t : i \in DOMAIN q.reactions /\ t[i].r = q.reactions[i] /\ t[i].do = state
    BY <2>2 DEF Task
  <2> QED
    BY <1>2, <2>5, <2>6 DEF HadHandlers, LeftBy
<1> QED
  BY <1>1, <1>2

LEMMA SettledIs ==
  ASSUME NEW w, NEW e, Good(w, e), NEW p, p \in All(w), w.heap[p].state = "pending",
         NEW state, state \in Outcomes, NEW v, v \in Values
  PROVE  LET x == Settled(w, p, state, v)
         IN  /\ IsWorld(x) /\ Rest(x) = Rest(w) /\ x.micro = Cat(w.micro, Leaves(w.heap[p], p, state, v))
             /\ x.heap = Put(w.heap, p, Settles(w.heap[p], state, v))
<1> DEFINE q == w.heap[p]
           h == Put(w.heap, p, Settles(q, state, v))
           m == Cat(w.micro, Leaves(q, p, state, v))
           x == Settled(w, p, state, v)
           a == [i \in DOMAIN q.reactions |-> Task(q.reactions[i], state, v)]
           b == IF state = "rejected" /\ ~HadHandlers(q) THEN <<Check(p)>> ELSE << >>
<1>1. IsWorld(w) /\ w.micro \in Seq(TaskShape) /\ w.heap \in Seq(PromiseShape) /\ DOMAIN w.heap = All(w)
  BY LenHeap
<1>2. q \in PromiseShape
  BY PromiseAt
<1>3. (w.micro \o a) \o b = w.micro \o Leaves(q, p, state, v)
  <2>1. CASE state = "rejected" /\ q.reactions = << >>
    <3>1. b = <<Check(p)>> /\ Leaves(q, p, state, v) = <<Check(p)>>
      BY <2>1 DEF HadHandlers, Leaves
    <3>2. a = << >>
      BY <2>1
    <3>3. w.micro \o << >> = w.micro
      BY <1>1
    <3> QED
      BY <3>1, <3>2, <3>3
  <2>2. CASE ~(state = "rejected" /\ q.reactions = << >>)
    <3>1. b = << >> /\ Leaves(q, p, state, v) = a
      BY <2>2 DEF HadHandlers, Leaves
    <3>2. a \in Seq(TaskShape)
      <4>1. q = w.heap[p]
        OBVIOUS
      <4> HIDE DEF q, a
      <4>2. PICK t : t = Leaves(q, p, state, v)
        OBVIOUS
      <4>3. t \in Seq(TaskShape)
        BY <1>2, <4>1, <4>2, LeavesIs
      <4> QED
        BY <3>1, <4>2, <4>3
    <3> HIDE DEF a
    <3>3. (w.micro \o a) \in Seq(TaskShape)
      BY <1>1, <3>2
    <3>4. (w.micro \o a) \o << >> = w.micro \o a
      BY <3>3
    <3> QED
      BY <3>1, <3>4
  <2> QED
    BY <2>1, <2>2
<1>4. x = HeapMicro(w, h, (w.micro \o a) \o b)
  BY <1>1 DEF Settled, HeapMicro, Settles, HadHandlers, IsWorld, Put
<1> HIDE DEF h, m, x, a, b, q
<1>5. x = HeapMicro(w, h, m)
  BY <1>3, <1>4 DEF m, Cat
<1>6. IsWorld(x) /\ x.heap = h /\ x.micro = m /\ Rest(x) = Rest(w)
  BY <1>1, <1>5, HeapMicroSet
<1> QED
  BY <1>6 DEF x, h, m, q


\* Promise p becomes r, and the tasks t wait behind the others.
LEMMA SeenAfter ==
  ASSUME NEW w, NEW x, SeenOK(w), Size(x) = Size(w), NEW p, p \in All(w),
         \A z \in All(w) : z # p => x.heap[z] = w.heap[z],
         Keeps(w.micro, x.micro),
         NEW r, x.heap[p] = r, r.reactions # << >> \/ r.handled => r.heard,
         r.state = "rejected" =>
           \/ r.heard \/ r.flagged
           \/ \E i \in DOMAIN x.micro : x.micro[i].do = "check" /\ x.micro[i].r.to = p
           \/ w.heap[p].state = "rejected" /\ ~w.heap[p].heard /\ ~w.heap[p].flagged
  PROVE  SeenOK(x)
<1>1. ASSUME NEW z \in All(w), z # p
      PROVE  /\ x.heap[z].reactions # << >> \/ x.heap[z].handled => x.heap[z].heard
             /\ x.heap[z].state = "rejected" =>
                  \/ x.heap[z].heard \/ x.heap[z].flagged
                  \/ \E i \in DOMAIN x.micro : x.micro[i].do = "check" /\ x.micro[i].r.to = z
  BY <1>1, StillSeen
<1>2. ASSUME r.state = "rejected"
      PROVE  \/ r.heard \/ r.flagged
             \/ \E i \in DOMAIN x.micro : x.micro[i].do = "check" /\ x.micro[i].r.to = p
  <2>1. CASE w.heap[p].state = "rejected" /\ ~w.heap[p].heard /\ ~w.heap[p].flagged
    <3>1. PICK i \in DOMAIN w.micro : w.micro[i].do = "check" /\ w.micro[i].r.to = p
      BY <2>1 DEF SeenOK
    <3> QED
      BY <3>1 DEF Keeps
  <2> QED
    BY <1>2, <2>1
<1> QED
  BY <1>1, <1>2 DEF SeenOK, All

\* A rejection is not lost when promise p becomes r.
StaysSeen(w, p, r, t) ==
  /\ r.reactions # << >> \/ r.handled => r.heard
  /\ r.state = "rejected" =>
       \/ r.heard \/ r.flagged
       \/ \E i \in DOMAIN t : t[i].do = "check" /\ t[i].r.to = p
       \/ w.heap[p].state = "rejected" /\ ~w.heap[p].heard /\ ~w.heap[p].flagged

LEMMA Changed ==
  ASSUME NEW w, NEW e, Good(w, e), NEW p, p \in All(w),
         NEW r, PromiseOK(r, p, Size(w), e), w.heap[p].state # "pending" => r.state # "pending",
         NEW t, t \in Seq(TaskShape), PlainTasks(t, Size(w), e), StaysSeen(w, p, r, t),
         NEW x, IsWorld(x), Rest(x) = Rest(w), x.micro = Cat(w.micro, t), x.heap = Put(w.heap, p, r)
  PROVE  Good(x, e) /\ Size(x) = Size(w)
<1>1. /\ Size(w) \in Nat /\ w.heap \in Seq(PromiseShape) /\ r \in PromiseShape
  BY LenHeap DEF PromiseOK
<1>2. /\ x.heap \in Seq(PromiseShape) /\ Size(x) = Size(w) /\ x.heap[p] = r
      /\ \A z \in All(w) : z # p => x.heap[z] = w.heap[z]
  <2>1. DOMAIN w.heap = All(w)
    BY LenHeap
  <2>3. PICK h : h = x.heap
    OBVIOUS
  <2>4. h = Put(w.heap, p, r) /\ p \in DOMAIN w.heap
    BY <2>1, <2>3
  <2>5. h \in Seq(PromiseShape) /\ Len(h) = Len(w.heap)
    BY <1>1, <2>4, AtSeq
  <2>6. h[p] = r
    BY <1>1, <2>4, AtSeq
  <2>7. \A z \in DOMAIN w.heap : z # p => h[z] = w.heap[z]
    BY <1>1, <2>4, AtSeq
  <2> QED
    BY <2>1, <2>3, <2>5, <2>6, <2>7 DEF Size
<1>3. EnvOK(Size(w), e) /\ OwedOK(x, e) /\ StreamsOK(x, e) /\ ScriptOK(x)
  <2>1. \A z \in All(w) : w.heap[z].state # "pending" => x.heap[z].state # "pending"
    BY <1>2
  <2>2. Size(x) \in Nat /\ Size(w) <= Size(x)
    BY <1>1, <1>2
  <2>3. EnvOK(Size(x), e) /\ OwedOK(x, e) /\ StreamsOK(x, e) /\ ScriptOK(x)
    BY <2>1, <2>2, RestStays
  <2> QED
    BY <1>2, <2>3
<1>4. HeapOK(x, e)
  BY <1>2 DEF Good, HeapOK, All
<1>5. MicroOK(w, e) /\ SeenOK(w)
  BY DEF Good
<1>6. /\ MicroOK(x, e)
      /\ Keeps(w.micro, x.micro)
      /\ Holds(x.micro, t)
  BY <1>1, <1>2, <1>3, <1>5, MoreTasks
<1>7. SeenOK(x)
  BY <1>2, <1>5, <1>6, SeenAfter DEF StaysSeen, Holds
<1> QED
  BY <1>2, <1>3, <1>4, <1>6, <1>7 DEF Good, IsWorld

LEMMA SettlesIs ==
  ASSUME NEW q, q \in PromiseShape, NEW state, state \in Outcomes, NEW v, v \in Values,
         NEW r, r = Settles(q, state, v)
  PROVE  /\ r \in PromiseShape /\ r.reactions = << >> /\ r.state = state /\ r.heard = q.heard /\ r.flagged = q.flagged
         /\ r.handled => q.handled \/ q.reactions # << >>
<1>1. CASE state = "rejected"
  <2>1. r = [state |-> state, value |-> v, reactions |-> << >>, handled |-> (q.reactions # << >>),
             flagged |-> q.flagged, heard |-> q.heard, tally |-> q.tally]
    BY <1>1 DEF Settles, PromiseShape
  <2> QED
    BY <2>1 DEF PromiseShape, States, Outcomes, Values
<1>2. CASE state # "rejected"
  <2>1. r = [state |-> state, value |-> v, reactions |-> << >>, handled |-> q.handled,
             flagged |-> q.flagged, heard |-> q.heard, tally |-> q.tally]
    BY <1>2 DEF Settles, PromiseShape
  <2> QED
    BY <2>1 DEF PromiseShape, States, Outcomes, Values
<1> QED
  BY <1>1, <1>2

LEMMA NoCodeIs ==
  ASSUME NEW k, NEW e
  PROVE  NoCode \in Codes(k, e) /\ Noop \in Codes(k, e)
<1>1. NoCode \in Codes(k, e)
  <2>1. NoCode.do = "none" /\ NoCode \in CodeShape
    BY DEF NoCode, Code, CodeShape, Doings, Sides
  <2>2. "none" \notin Settling /\ "none" \notin SinkCalls
    BY DEF Settling, SinkCalls
  <2> QED
    BY <2>1, <2>2 DEF Codes, CodeShape
<1>2. Noop \in Codes(k, e)
  <2>1. Noop.do = "noop" /\ Noop \in CodeShape
    BY DEF Noop, Code, CodeShape, Doings, Sides
  <2>2. "noop" \notin Settling /\ "noop" \notin SinkCalls
    BY DEF Settling, SinkCalls
  <2> QED
    BY <2>1, <2>2 DEF Codes, CodeShape
<1> QED
  BY <1>1, <1>2

LEMMA CheckIs ==
  ASSUME NEW k, NEW e, NEW p, p \in Free(k, e)
  PROVE  Check(p).r \in Plain(k, e) /\ Check(p).do = "check" /\ Check(p).r.to = p
BY NoCodeIs DEF Check, Plain

\* Settling a promise that is not of the chain.
LEMMA SettledGood ==
  ASSUME NEW w, NEW e, Good(w, e), NEW p, p \in Free(Size(w), e),
         NEW state, state \in Outcomes, NEW v, v \in Values
  PROVE  LET x == Settled(w, p, state, v)
         IN  /\ Good(x, e) /\ Rest(x) = Rest(w) /\ Size(x) = Size(w)
<1>1. p \in All(w) /\ p \notin Held(e) /\ e \in Envs /\ p \in Nat
  BY LenHeap DEF Free, All
<1>3. CASE w.heap[p].state # "pending"
  BY <1>3 DEF Settled
<1>4. CASE w.heap[p].state = "pending"
  <2>1. PICK q : q = w.heap[p]
    OBVIOUS
  <2>2. PICK t : t = Leaves(q, p, state, v)
    OBVIOUS
  <2>3. PICK r : r = Settles(q, state, v)
    OBVIOUS
  <2>4. PICK x : x = Settled(w, p, state, v)
    OBVIOUS
  <2>5. IsWorld(x) /\ Rest(x) = Rest(w) /\ x.micro = Cat(w.micro, t) /\ x.heap = Put(w.heap, p, r)
    BY <1>1, <1>4, <2>1, <2>2, <2>3, <2>4, SettledIs
  <2>6. q \in PromiseShape /\ PromiseOK(q, p, Size(w), e)
    BY <1>1, <2>1, PromiseAt
  <2>7. /\ r \in PromiseShape /\ r.reactions = << >> /\ r.state = state /\ r.heard = q.heard /\ r.flagged = q.flagged
        /\ r.handled => q.handled \/ q.reactions # << >>
    <3>1. q \in PromiseShape
      BY <2>6
    <3>2. r \in PromiseShape
      BY <2>3, <3>1, SettlesIs
    <3>3. r.reactions = << >>
      BY <2>3, <3>1, SettlesIs
    <3>6. r.state = state
      BY <2>3, <3>1, SettlesIs
    <3>4. r.heard = q.heard
      BY <2>3, <3>1, SettlesIs
    <3>7. r.flagged = q.flagged
      BY <2>3, <3>1, SettlesIs
    <3>5. r.handled => q.handled \/ q.reactions # << >>
      BY <2>3, <3>1, SettlesIs
    <3> QED
      BY <3>2, <3>3, <3>4, <3>5, <3>6, <3>7
  <2>8. /\ t \in Seq(TaskShape)
        /\ \A i \in DOMAIN t :
             \/ t[i] = Check(p)
             \/ i \in DOMAIN q.reactions /\ t[i].r = q.reactions[i] /\ t[i].do = state
        /\ state = "rejected" /\ ~HadHandlers(q) => \E i \in DOMAIN t : t[i] = Check(p)
    <3>2. t \in Seq(TaskShape)
      BY <1>1, <2>1, <2>2, LeavesIs
    <3>3. LeftBy(t, q, p, state)
      BY <1>1, <2>1, <2>2, LeavesIs
    <3>4. state = "rejected" /\ ~HadHandlers(q) => \E i \in DOMAIN t : t[i] = Check(p)
      BY <1>1, <2>1, <2>2, LeavesIs
    <3> QED
      BY <3>2, <3>3, <3>4 DEF LeftBy
  <2>9. /\ Check(p).r \in Plain(Size(w), e) /\ Check(p).do = "check" /\ Check(p).r.to = p
    BY CheckIs
  <2>10. \A i \in DOMAIN q.reactions : q.reactions[i] \in Plain(Size(w), e)
    BY <1>1, <2>6, NotChain DEF PromiseOK
  <2>11. \A i \in DOMAIN t : t[i].r \in Plain(Size(w), e) /\ (t[i].do = "check" => t[i].r.to \in Free(Size(w), e))
    <3>1. SUFFICES ASSUME NEW i \in DOMAIN t
                   PROVE  t[i].r \in Plain(Size(w), e) /\ (t[i].do = "check" => t[i].r.to \in Free(Size(w), e))
      OBVIOUS
    <3>2. CASE t[i] = Check(p)
      BY <2>9, <3>2
    <3>3. CASE i \in DOMAIN q.reactions /\ t[i].r = q.reactions[i] /\ t[i].do = state
      BY <2>10, <3>3 DEF Outcomes
    <3> QED
      BY <2>8, <3>2, <3>3
  <2>12. PromiseOK(r, p, Size(w), e)
    BY <1>1, <2>7 DEF PromiseOK
  <2>13. q.reactions # << >> \/ q.handled => q.heard
    BY <1>1, <2>1 DEF Good, SeenOK
  <2>14. ASSUME r.state = "rejected", ~r.heard
         PROVE  \E i \in DOMAIN t : t[i].do = "check" /\ t[i].r.to = p
    BY <2>7, <2>8, <2>9, <2>13, <2>14 DEF HadHandlers
  <2>15. PlainTasks(t, Size(w), e)
    BY <2>11 DEF PlainTasks
  <2>16. StaysSeen(w, p, r, t)
    BY <2>7, <2>13, <2>14 DEF StaysSeen
  <2>17. r.state # "pending"
    BY <2>7 DEF Outcomes
  <2>18. Good(x, e) /\ Size(x) = Size(w)
    BY <1>1, <2>5, <2>8, <2>12, <2>15, <2>16, <2>17, Changed
  <2> QED
    BY <2>4, <2>5, <2>18
<1> QED
  BY <1>3, <1>4


\* What then() makes of a promise q.
Hears(q, g) == [q EXCEPT !.heard = TRUE, !.handled = @ \/ g # NoCode, !.flagged = @ /\ g = NoCode]
Reacts(q, r) == [q EXCEPT !.reactions = Append(@, r)]

LEMMA HearsIs ==
  ASSUME NEW q, q \in PromiseShape, NEW g, NEW h, h = Hears(q, g)
  PROVE  /\ h \in PromiseShape /\ h.heard = TRUE /\ h.state = q.state /\ h.value = q.value /\ h.reactions = q.reactions
<1>1. CASE g = NoCode
  <2>1. h = [state |-> q.state, value |-> q.value, reactions |-> q.reactions, handled |-> q.handled,
             flagged |-> q.flagged, heard |-> TRUE, tally |-> q.tally]
    BY <1>1 DEF Hears, PromiseShape
  <2> QED
    BY <2>1 DEF PromiseShape
<1>2. CASE g # NoCode
  <2>1. h = [state |-> q.state, value |-> q.value, reactions |-> q.reactions, handled |-> TRUE,
             flagged |-> FALSE, heard |-> TRUE, tally |-> q.tally]
    BY <1>2 DEF Hears, PromiseShape
  <2> QED
    BY <2>1 DEF PromiseShape
<1> QED
  BY <1>1, <1>2

LEMMA OneMore ==
  ASSUME NEW S, NEW s, s \in Seq(S), NEW r, r \in S, NEW t, t = Append(s, r)
  PROVE  /\ t \in Seq(S) /\ t # << >>
         /\ \A i \in DOMAIN t : (i \in DOMAIN s /\ t[i] = s[i]) \/ (i \notin DOMAIN s /\ t[i] = r)
         /\ \A i, j \in DOMAIN t : i \notin DOMAIN s /\ j \notin DOMAIN s => i = j
<1>1. /\ t \in Seq(S) /\ Len(t) = Len(s) + 1 /\ t[Len(s) + 1] = r
      /\ \A i \in 1 .. Len(s) : t[i] = s[i]
  BY AppendProperties
<1>2. Len(s) \in Nat /\ DOMAIN s = 1 .. Len(s) /\ DOMAIN t = 1 .. (Len(s) + 1)
  BY <1>1, LenProperties
<1>3. ASSUME NEW i \in 1 .. (Len(s) + 1), i \notin 1 .. Len(s) PROVE i = Len(s) + 1
  BY <1>2, <1>3
<1>4. t # << >>
  BY <1>1, <1>2
<1> QED
  BY <1>1, <1>2, <1>3, <1>4

LEMMA ReactsIs ==
  ASSUME NEW q, NEW p, NEW k, NEW e, EnvOK(k, e), PromiseOK(q, p, k, e),
         NEW r, r \in ReactionShape, r \in Plain(k, e) \/ OnChain(r, p, e),
         OnChain(r, p, e) => \A i \in DOMAIN q.reactions : ~OnChain(q.reactions[i], p, e),
         NEW h, h = Reacts(q, r)
  PROVE  PromiseOK(h, p, k, e) /\ h.heard = q.heard /\ h.state = q.state /\ h.handled = q.handled /\ h.flagged = q.flagged
<1>1. q \in PromiseShape /\ q.reactions \in Seq(ReactionShape)
  BY DEF PromiseOK, PromiseShape
<1>2. PICK t : t = Append(q.reactions, r)
  OBVIOUS
<1>3. /\ t \in Seq(ReactionShape) /\ t # << >>
      /\ \A i \in DOMAIN t : (i \in DOMAIN q.reactions /\ t[i] = q.reactions[i]) \/ (i \notin DOMAIN q.reactions /\ t[i] = r)
      /\ \A i, j \in DOMAIN t : i \notin DOMAIN q.reactions /\ j \notin DOMAIN q.reactions => i = j
  <2>1. PICK s : s = q.reactions
    OBVIOUS
  <2>2. t = Append(s, r) /\ s \in Seq(ReactionShape)
    BY <1>1, <1>2, <2>1
  <2>3. t \in Seq(ReactionShape) /\ t # << >>
    BY <2>2, OneMore
  <2>4. \A i \in DOMAIN t : (i \in DOMAIN s /\ t[i] = s[i]) \/ (i \notin DOMAIN s /\ t[i] = r)
    BY <2>2, OneMore
  <2>5. \A i, j \in DOMAIN t : i \notin DOMAIN s /\ j \notin DOMAIN s => i = j
    BY <2>2, OneMore
  <2> QED
    BY <2>1, <2>3, <2>4, <2>5
<1>4. h = [state |-> q.state, value |-> q.value, reactions |-> t, handled |-> q.handled,
           flagged |-> q.flagged, heard |-> q.heard, tally |-> q.tally]
  BY <1>1, <1>2 DEF Reacts, PromiseShape
<1>5. h \in PromiseShape
  BY <1>1, <1>3, <1>4 DEF PromiseShape
<1>6. h.reactions = t /\ h.state = q.state /\ h.heard = q.heard /\ h.handled = q.handled /\ h.flagged = q.flagged
  BY <1>4
<1>7. \A i \in DOMAIN t : t[i] \in Plain(k, e) \/ OnChain(t[i], p, e)
  BY <1>3 DEF PromiseOK
<1>8. ASSUME NEW i \in DOMAIN t, NEW j \in DOMAIN t, OnChain(t[i], p, e), OnChain(t[j], p, e) PROVE i = j
  <2>1. CASE i \in DOMAIN q.reactions /\ j \in DOMAIN q.reactions
    BY <1>3, <1>8, <2>1 DEF PromiseOK
  <2>2. CASE i \notin DOMAIN q.reactions /\ j \notin DOMAIN q.reactions
    BY <1>3, <2>2
  <2>3. CASE i \in DOMAIN q.reactions /\ j \notin DOMAIN q.reactions
    BY <1>3, <1>8, <2>3
  <2>4. CASE i \notin DOMAIN q.reactions /\ j \in DOMAIN q.reactions
    BY <1>3, <1>8, <2>4
  <2> QED
    BY <2>1, <2>2, <2>3, <2>4
<1>9. p \in Held(e) => h.state = "pending"
  BY <1>6 DEF PromiseOK
<1>10. PromiseOK(h, p, k, e)
  BY <1>5, <1>6, <1>7, <1>8, <1>9 DEF PromiseOK
<1> QED
  BY <1>6, <1>10

\* What then() does to the world: the promise hears, and takes the reaction or leaves a task.
LEMMA SubscribedIs ==
  ASSUME NEW w, NEW e, Good(w, e), NEW p, p \in All(w), NEW f, NEW g, NEW to,
         NEW r, r = [onF |-> f, onR |-> g, to |-> to], NEW q, q = Hears(w.heap[p], g),
         NEW x, x = Subscribed(w, p, f, g, to)
  PROVE  /\ IsWorld(x) /\ Rest(x) = Rest(w)
         /\ q.state = "pending" => x.heap = Put(w.heap, p, Reacts(q, r)) /\ x.micro = w.micro
         /\ q.state # "pending" => x.heap = Put(w.heap, p, q) /\ x.micro = Append(w.micro, Task(r, q.state, q.value))
<1>1. IsWorld(w)
  BY LenHeap
<1>2. CASE q.state = "pending"
  <2>1. PICK h : h = Put(w.heap, p, Reacts(q, r))
    OBVIOUS
  <2>2. x = HeapMicro(w, h, w.micro)
    <3>1. x = [w EXCEPT !.heap = h]
      BY <1>2, <2>1 DEF Subscribed, Put, Reacts, Hears
    <3> QED
      BY <1>1, <3>1 DEF HeapMicro, IsWorld
  <2>3. IsWorld(x) /\ x.heap = h /\ x.micro = w.micro /\ Rest(x) = Rest(w)
    BY <1>1, <2>2, HeapMicroSet
  <2> QED
    BY <1>2, <2>1, <2>3
<1>3. CASE q.state # "pending"
  <2>1. PICK h : h = Put(w.heap, p, q)
    OBVIOUS
  <2>2. PICK m : m = Append(w.micro, Task(r, q.state, q.value))
    OBVIOUS
  <2>3. x = HeapMicro(w, h, m)
    BY <1>1, <1>3, <2>1, <2>2 DEF Subscribed, HeapMicro, Put, Hears, IsWorld
  <2>4. IsWorld(x) /\ x.heap = h /\ x.micro = m /\ Rest(x) = Rest(w)
    BY <1>1, <2>3, HeapMicroSet
  <2> QED
    BY <1>3, <2>1, <2>2, <2>4
<1> QED
  BY <1>2, <1>3


LEMMA NoTasks ==
  ASSUME NEW s, s \in Seq(TaskShape)
  PROVE  \E t : t \in Seq(TaskShape) /\ DOMAIN t = {} /\ s = Cat(s, t)
<1>1. << >> \in Seq(TaskShape) /\ DOMAIN << >> = {}
  OBVIOUS
<1>2. s = s \o << >>
  OBVIOUS
<1> QED
  BY <1>1, <1>2 DEF Cat

LEMMA TaskLast ==
  ASSUME NEW s, s \in Seq(TaskShape), NEW a, a \in TaskShape
  PROVE  \E t : t \in Seq(TaskShape) /\ (\A i \in DOMAIN t : t[i] = a) /\ (\E i \in DOMAIN t : t[i] = a) /\ Append(s, a) = Cat(s, t)
<1>1. <<a>> \in Seq(TaskShape) /\ DOMAIN <<a>> = {1} /\ <<a>>[1] = a
  BY OneTask
<1>2. Append(s, a) = s \o <<a>>
  OBVIOUS
<1> QED
  BY <1>1, <1>2 DEF Cat

LEMMA SubscribedGood ==
  ASSUME NEW w, NEW e, Good(w, e), NEW p, p \in All(w),
         NEW f, f \in Codes(Size(w), e), NEW g, g \in Codes(Size(w), e),
         NEW to, to \in {0} \cup Free(Size(w), e)
  PROVE  /\ Good(Subscribed(w, p, f, g, to), e) /\ Rest(Subscribed(w, p, f, g, to)) = Rest(w)
         /\ Size(Subscribed(w, p, f, g, to)) = Size(w)
<1>1. PICK x : x = Subscribed(w, p, f, g, to)
  OBVIOUS
<1>2. PICK r : r = [onF |-> f, onR |-> g, to |-> to]
  OBVIOUS
<1>3. PICK q : q = Hears(w.heap[p], g)
  OBVIOUS
<1>4. /\ IsWorld(x) /\ Rest(x) = Rest(w)
      /\ q.state = "pending" => x.heap = Put(w.heap, p, Reacts(q, r)) /\ x.micro = w.micro
      /\ q.state # "pending" => x.heap = Put(w.heap, p, q) /\ x.micro = Append(w.micro, Task(r, q.state, q.value))
  BY <1>1, <1>2, <1>3, SubscribedIs
<1>5. Size(w) \in Nat /\ EnvOK(Size(w), e) /\ w.micro \in Seq(TaskShape)
  BY LenHeap DEF Good
<1>6. r \in Plain(Size(w), e)
  BY <1>2 DEF Plain
<1>7. r \in ReactionShape /\ ~OnChain(r, p, e)
  BY <1>5, <1>6, PlainShape, ChainIsNotPlain
<1>8. PromiseOK(w.heap[p], p, Size(w), e) /\ w.heap[p] \in PromiseShape
  BY PromiseAt
<1>9. /\ q \in PromiseShape /\ q.heard = TRUE /\ q.state = w.heap[p].state /\ q.value = w.heap[p].value
      /\ q.reactions = w.heap[p].reactions
  <2>1. PICK b : b = w.heap[p]
    OBVIOUS
  <2>2. b \in PromiseShape /\ q = Hears(b, g)
    BY <1>3, <1>8, <2>1
  <2>3. q \in PromiseShape
    BY <2>2, HearsIs
  <2>4. q.heard = TRUE
    BY <2>2, HearsIs
  <2>5. q.state = b.state
    BY <2>2, HearsIs
  <2>6. q.value = b.value
    BY <2>2, HearsIs
  <2>7. q.reactions = b.reactions
    BY <2>2, HearsIs
  <2> QED
    BY <2>1, <2>3, <2>4, <2>5, <2>6, <2>7
<1>10. PromiseOK(q, p, Size(w), e)
  BY <1>8, <1>9 DEF PromiseOK
<1>11. CASE q.state = "pending"
  <2>1. PICK h : h = Reacts(q, r)
    OBVIOUS
  <2>2. PromiseOK(h, p, Size(w), e) /\ h.heard = q.heard /\ h.state = q.state
    <3>1. PromiseOK(h, p, Size(w), e)
      BY <1>5, <1>6, <1>7, <1>10, <2>1, ReactsIs
    <3>2. h.heard = q.heard
      BY <1>5, <1>6, <1>7, <1>10, <2>1, ReactsIs
    <3>3. h.state = q.state
      BY <1>5, <1>6, <1>7, <1>10, <2>1, ReactsIs
    <3> QED
      BY <3>1, <3>2, <3>3
  <2>3. x.heap = Put(w.heap, p, h) /\ x.micro = w.micro
    BY <1>4, <1>11, <2>1
  <2>4. PICK t : t \in Seq(TaskShape) /\ DOMAIN t = {} /\ w.micro = Cat(w.micro, t)
    BY <1>5, NoTasks
  <2>5. x.micro = Cat(w.micro, t)
    BY <2>3, <2>4
  <2>6. h.heard /\ h.state = "pending"
    BY <1>9, <1>11, <2>2
  <2>7. PlainTasks(t, Size(w), e) /\ StaysSeen(w, p, h, t)
    BY <2>4, <2>6 DEF PlainTasks, StaysSeen
  <2>8. w.heap[p].state = "pending"
    BY <1>9, <1>11
  <2>9. IsWorld(x) /\ Rest(x) = Rest(w)
    BY <1>4
  <2>10. Good(x, e) /\ Size(x) = Size(w)
    <3>1. x.heap = Put(w.heap, p, h)
      BY <2>3
    <3>2. t \in Seq(TaskShape)
      BY <2>4
    <3> QED
      BY <2>2, <2>5, <2>7, <2>8, <2>9, <3>1, <3>2, Changed
  <2> QED
    BY <1>1, <1>4, <2>10
<1>12. CASE q.state # "pending"
  <2>1. PICK a : a = Task(r, q.state, q.value)
    OBVIOUS
  <2>2. a \in TaskShape /\ a.r = r /\ a.do # "check"
    BY <1>7, <1>9, <1>12, <2>1 DEF Task, TaskShape, PromiseShape, States
  <2>3. PICK t : t \in Seq(TaskShape) /\ (\A i \in DOMAIN t : t[i] = a) /\ (\E i \in DOMAIN t : t[i] = a) /\ Append(w.micro, a) = Cat(w.micro, t)
    BY <1>5, <2>2, TaskLast
  <2>4. x.heap = Put(w.heap, p, q) /\ x.micro = Cat(w.micro, t)
    BY <1>4, <1>12, <2>1, <2>3
  <2>5. PlainTasks(t, Size(w), e)
    BY <1>6, <2>2, <2>3 DEF PlainTasks
  <2>6. StaysSeen(w, p, q, t)
    BY <1>9 DEF StaysSeen
  <2>7. Good(x, e) /\ Size(x) = Size(w)
    BY <1>4, <1>9, <1>10, <1>12, <2>3, <2>4, <2>5, <2>6, Changed
  <2> QED
    BY <1>1, <1>4, <2>7
<1> QED
  BY <1>11, <1>12


\* From w, where the chain stands at e, the program has come to x, where it stands at f.
Goes(w, e, x, f) ==
  /\ Good(x, f) /\ Size(w) <= Size(x) /\ x.plan = w.plan
  /\ \A s \in Writables : w.ws[s].writing # 0 => x.ws[s].writing # 0
  /\ e.pipes \subseteq f.pipes /\ Free(Size(w), e) \subseteq Free(Size(x), f)

LEMMA GoesFurther ==
  ASSUME NEW w, NEW e, NEW x, NEW f, NEW y, NEW g, Good(w, e), Goes(w, e, x, f), Goes(x, f, y, g)
  PROVE  Goes(w, e, y, g)
<1>1. Good(x, f) /\ Good(y, g)
  BY DEF Goes
<1>2. Size(w) \in Nat /\ Size(x) \in Nat /\ Size(y) \in Nat
  BY <1>1, LenHeap
<1> QED
  BY <1>2 DEF Goes

LEMMA GoesNowhere ==
  ASSUME NEW w, NEW e, Good(w, e)
  PROVE  Goes(w, e, w, e)
BY LenHeap DEF Goes

\* A step on promises alone.
LEMMA GoesPromises ==
  ASSUME NEW w, NEW e, Good(w, e), NEW x, Good(x, e), Rest(x) = Rest(w), Size(w) <= Size(x)
  PROVE  Goes(w, e, x, e)
<1>1. Size(w) \in Nat /\ Size(x) \in Nat
  BY LenHeap
<1>2. x.plan = w.plan /\ x.ws = w.ws
  BY DEF Rest
<1> QED
  BY <1>1, <1>2, Wider DEF Goes

LEMMA GoesWider ==
  ASSUME NEW w, NEW e, Good(w, e), NEW x, NEW f, Goes(w, e, x, f)
  PROVE  /\ Good(x, f) /\ All(w) \subseteq All(x) /\ Free(Size(w), e) \subseteq Free(Size(x), f)
         /\ Codes(Size(w), e) \subseteq Codes(Size(x), f)
<1>1. Good(x, f) /\ Free(Size(w), e) \subseteq Free(Size(x), f) /\ e.pipes \subseteq f.pipes
  BY DEF Goes
<1>2. Size(w) \in Nat /\ Size(x) \in Nat /\ Size(w) <= Size(x)
  BY <1>1, LenHeap DEF Goes
<1>3. All(w) \subseteq All(x)
  BY <1>2 DEF All
<1>4. Codes(Size(w), e) \subseteq Codes(Size(x), f)
  BY <1>1 DEF Codes
<1> QED
  BY <1>1, <1>3, <1>4

LEMMA FreeIsMade ==
  ASSUME NEW w, NEW e, NEW p, p \in Free(Size(w), e)
  PROVE  p \in All(w)
BY DEF Free, All

\* What a call that returns [w, p] or [w, a] gives.
Makes(w, e, r, f) == Goes(w, e, r.w, f) /\ r.p \in Free(Size(r.w), f)
Answer(a, w) ==
  \/ a.how \in {"value", "throw"} /\ a.v \in Values
  \/ a.how = "promise" /\ a.v \in All(w)

LEMMA MadeGoes ==
  ASSUME NEW w, NEW e, Good(w, e)
  PROVE  Makes(w, e, Made(w), e) /\ Rest(Made(w).w) = Rest(w)
<1>1. Size(w) \in Nat
  BY LenHeap
<1>2. Good(Made(w).w, e) /\ Size(Made(w).w) = Size(w) + 1 /\ Made(w).p \in Free(Size(Made(w).w), e)
  BY MadeGood
<1>3. Rest(Made(w).w) = Rest(w)
  BY MadeIs
<1>4. Size(w) <= Size(Made(w).w)
  BY <1>1, <1>2
<1> QED
  BY <1>2, <1>3, <1>4, GoesPromises DEF Makes

LEMMA SettledGoes ==
  ASSUME NEW w, NEW e, Good(w, e), NEW p, p \in Free(Size(w), e),
         NEW state, state \in Outcomes, NEW v, v \in Values
  PROVE  Goes(w, e, Settled(w, p, state, v), e) /\ Rest(Settled(w, p, state, v)) = Rest(w)
<1>1. Size(w) \in Nat
  BY LenHeap
<1>2. PICK x : x = Settled(w, p, state, v)
  OBVIOUS
<1>3. Good(x, e) /\ Rest(x) = Rest(w) /\ Size(x) = Size(w)
  BY <1>2, SettledGood
<1> QED
  BY <1>1, <1>2, <1>3, GoesPromises

LEMMA SubscribedGoes ==
  ASSUME NEW w, NEW e, Good(w, e), NEW p, p \in All(w),
         NEW f, f \in Codes(Size(w), e), NEW g, g \in Codes(Size(w), e),
         NEW to, to \in {0} \cup Free(Size(w), e)
  PROVE  Goes(w, e, Subscribed(w, p, f, g, to), e) /\ Rest(Subscribed(w, p, f, g, to)) = Rest(w)
<1>1. Size(w) \in Nat
  BY LenHeap
<1>2. PICK x : x = Subscribed(w, p, f, g, to)
  OBVIOUS
<1>3. Good(x, e) /\ Rest(x) = Rest(w) /\ Size(x) = Size(w)
  BY <1>2, SubscribedGood
<1> QED
  BY <1>1, <1>2, <1>3, GoesPromises

LEMMA ThenGoes ==
  ASSUME NEW w, NEW e, Good(w, e), NEW p, p \in All(w),
         NEW f, f \in Codes(Size(w), e), NEW g, g \in Codes(Size(w), e)
  PROVE  Makes(w, e, Then(w, p, f, g), e) /\ Rest(Then(w, p, f, g).w) = Rest(w)
<1>1. PICK m : m = Made(w)
  OBVIOUS
<1>2. Goes(w, e, m.w, e) /\ m.p \in Free(Size(m.w), e) /\ Rest(m.w) = Rest(w)
  BY <1>1, MadeGoes DEF Makes
<1>3. PICK n : n = m.w
  OBVIOUS
<1>4. Good(n, e) /\ p \in All(n) /\ f \in Codes(Size(n), e) /\ g \in Codes(Size(n), e) /\ m.p \in {0} \cup Free(Size(n), e)
  BY <1>2, <1>3, GoesWider
<1>5. PICK x : x = Subscribed(n, p, f, g, m.p)
  OBVIOUS
<1>6. Goes(n, e, x, e) /\ Rest(x) = Rest(n)
  BY <1>4, <1>5, SubscribedGoes
<1>7. Goes(w, e, x, e) /\ m.p \in Free(Size(x), e)
  BY <1>2, <1>3, <1>4, <1>6, GoesFurther DEF Goes
<1>8. Then(w, p, f, g).w = x /\ Then(w, p, f, g).p = m.p
  BY <1>1, <1>3, <1>5 DEF Then, ThenTo
<1> QED
  BY <1>2, <1>3, <1>6, <1>7, <1>8 DEF Makes

LEMMA IntoIs ==
  ASSUME NEW k, NEW e, NEW p, p \in Free(k, e)
  PROVE  Into("resolve", p) \in Codes(k, e) /\ Into("reject", p) \in Codes(k, e)
<1>1. p \in Int
  BY DEF Free
<1>2. Into("resolve", p) \in CodeShape /\ Into("resolve", p).do = "resolve" /\ Into("resolve", p).n = p
  BY <1>1 DEF Into, Code, CodeShape, Doings, Settling, Sides
<1>3. Into("reject", p) \in CodeShape /\ Into("reject", p).do = "reject" /\ Into("reject", p).n = p
  BY <1>1 DEF Into, Code, CodeShape, Doings, Settling, Sides
<1>4. "resolve" \notin SinkCalls /\ "reject" \notin SinkCalls
  BY DEF SinkCalls
<1> QED
  BY <1>2, <1>3, <1>4 DEF Codes, CodeShape

LEMMA ResolvedGoes ==
  ASSUME NEW w, NEW e, Good(w, e), NEW p, p \in Free(Size(w), e), NEW a, Answer(a, w)
  PROVE  Goes(w, e, Resolved(w, p, a), e) /\ Rest(Resolved(w, p, a)) = Rest(w)
<1>1. CASE a.how = "promise" /\ w.heap[p].state # "pending"
  <2>1. Resolved(w, p, a) = w
    BY <1>1 DEF Resolved
  <2> QED
    BY <2>1, GoesNowhere
<1>2. CASE a.how = "promise" /\ w.heap[p].state = "pending"
  <2>1. PICK f : f = Into("resolve", p)
    OBVIOUS
  <2>2. PICK g : g = Into("reject", p)
    OBVIOUS
  <2>3. f \in Codes(Size(w), e) /\ g \in Codes(Size(w), e)
    BY <2>1, <2>2, IntoIs
  <2>4. PICK q : q = a.v
    OBVIOUS
  <2>5. q \in All(w)
    BY <1>2, <2>4 DEF Answer
  <2>6. Resolved(w, p, a) = Subscribed(w, q, f, g, 0)
    BY <1>2, <2>1, <2>2, <2>4 DEF Resolved
  <2>7. 0 \in {0} \cup Free(Size(w), e)
    OBVIOUS
  <2>8. Goes(w, e, Subscribed(w, q, f, g, 0), e) /\ Rest(Subscribed(w, q, f, g, 0)) = Rest(w)
    BY <2>3, <2>5, <2>7, SubscribedGoes
  <2> QED
    BY <2>6, <2>8
<1>3. CASE a.how # "promise"
  <2>1. PICK state : state = IF a.how = "throw" THEN "rejected" ELSE "fulfilled"
    OBVIOUS
  <2>2. PICK v : v = a.v
    OBVIOUS
  <2>3. state \in Outcomes /\ v \in Values
    BY <1>3, <2>1, <2>2 DEF Answer, Outcomes
  <2>4. Resolved(w, p, a) = Settled(w, p, state, v)
    BY <1>3, <2>1, <2>2 DEF Resolved
  <2> QED
    BY <2>3, <2>4, SettledGoes
<1> QED
  BY <1>1, <1>2, <1>3


LEMMA AnswerIs ==
  ASSUME NEW w, NEW v, v \in Values
  PROVE  Answer(Value(v), w) /\ Answer(Throws(v), w) /\ Value(v).how # "promise" /\ Throws(v).how # "promise"
BY DEF Answer, Value, Throws

LEMMA PromiseAnswerIs ==
  ASSUME NEW w, NEW p, p \in All(w)
  PROVE  Answer(Promised(p), w)
BY DEF Answer, Promised

LEMMA AnswerStays ==
  ASSUME NEW w, NEW x, All(w) \subseteq All(x), NEW a, Answer(a, w)
  PROVE  Answer(a, x)
BY DEF Answer

LEMMA PromiseResolveGoes ==
  ASSUME NEW w, NEW e, Good(w, e), NEW a, Answer(a, w)
  PROVE  /\ Goes(w, e, PromiseResolve(w, a).w, e) /\ Rest(PromiseResolve(w, a).w) = Rest(w)
         /\ PromiseResolve(w, a).p \in All(PromiseResolve(w, a).w)
         /\ a.how # "promise" => Makes(w, e, PromiseResolve(w, a), e)
<1>1. CASE a.how = "promise"
  <2>1. PromiseResolve(w, a).w = w /\ PromiseResolve(w, a).p = a.v
    BY <1>1 DEF PromiseResolve
  <2>2. a.v \in All(w)
    BY <1>1 DEF Answer
  <2> QED
    BY <1>1, <2>1, <2>2, GoesNowhere
<1>2. CASE a.how # "promise"
  <2>1. PICK m : m = Made(w)
    OBVIOUS
  <2>2. Goes(w, e, m.w, e) /\ m.p \in Free(Size(m.w), e) /\ Rest(m.w) = Rest(w)
    BY <2>1, MadeGoes DEF Makes
  <2>3. PICK n : n = m.w
    OBVIOUS
  <2>4. PICK p : p = m.p
    OBVIOUS
  <2>5. Good(n, e) /\ Answer(a, n) /\ p \in Free(Size(n), e)
    BY <2>2, <2>3, <2>4, GoesWider, AnswerStays
  <2>6. PICK x : x = Resolved(n, p, a)
    OBVIOUS
  <2>7. Goes(n, e, x, e) /\ Rest(x) = Rest(n)
    BY <2>5, <2>6, ResolvedGoes
  <2>8. Goes(w, e, x, e) /\ p \in Free(Size(x), e)
    BY <2>2, <2>3, <2>5, <2>7, GoesFurther DEF Goes
  <2>9. PromiseResolve(w, a).w = x /\ PromiseResolve(w, a).p = p
    BY <1>2, <2>1, <2>3, <2>4, <2>6 DEF PromiseResolve
  <2>10. p \in All(x)
    BY <2>8, FreeIsMade
  <2> QED
    BY <2>2, <2>3, <2>7, <2>8, <2>9, <2>10 DEF Makes
<1> QED
  BY <1>1, <1>2

LEMMA ResolvesValue ==
  ASSUME NEW w, NEW e, Good(w, e), NEW v, v \in Values
  PROVE  Makes(w, e, PromiseResolve(w, Value(v)), e) /\ Rest(PromiseResolve(w, Value(v)).w) = Rest(w)
<1>1. PICK a : a = Value(v)
  OBVIOUS
<1>2. Answer(a, w) /\ a.how # "promise"
  BY <1>1, AnswerIs
<1>3. Makes(w, e, PromiseResolve(w, a), e) /\ Rest(PromiseResolve(w, a).w) = Rest(w)
  BY <1>2, PromiseResolveGoes
<1> QED
  BY <1>1, <1>3

LEMMA RejectGoes ==
  ASSUME NEW w, NEW e, Good(w, e), NEW v, v \in Values
  PROVE  Makes(w, e, PromiseReject(w, v), e) /\ Rest(PromiseReject(w, v).w) = Rest(w)
<1>1. PICK a : a = Throws(v)
  OBVIOUS
<1>2. Answer(a, w) /\ a.how # "promise"
  BY <1>1, AnswerIs
<1>3. Makes(w, e, PromiseResolve(w, a), e) /\ Rest(PromiseResolve(w, a).w) = Rest(w)
  BY <1>2, PromiseResolveGoes
<1>4. PromiseReject(w, v) = PromiseResolve(w, a)
  BY <1>1 DEF PromiseReject
<1> QED
  BY <1>3, <1>4

\* What then() is given of a call that returned [w, p].
LEMMA ThenOfGoes ==
  ASSUME NEW w, NEW e, Good(w, e), NEW r, NEW h, Goes(w, e, r.w, h), r.p \in All(r.w),
         NEW f, f \in Codes(Size(w), e), NEW g, g \in Codes(Size(w), e)
  PROVE  Makes(w, e, ThenOf(r, f, g), h) /\ Rest(ThenOf(r, f, g).w) = Rest(r.w)
<1>1. PICK n : n = r.w
  OBVIOUS
<1>2. PICK p : p = r.p
  OBVIOUS
<1>3. Good(n, h) /\ p \in All(n) /\ f \in Codes(Size(n), h) /\ g \in Codes(Size(n), h)
  BY <1>1, <1>2, GoesWider
<1>4. PICK t : t = Then(n, p, f, g)
  OBVIOUS
<1>5. Goes(n, h, t.w, h) /\ t.p \in Free(Size(t.w), h) /\ Rest(t.w) = Rest(n)
  BY <1>3, <1>4, ThenGoes DEF Makes
<1>6. Goes(w, e, t.w, h)
  BY <1>1, <1>5, GoesFurther
<1>7. ThenOf(r, f, g) = t
  BY <1>1, <1>2, <1>4 DEF ThenOf
<1> QED
  BY <1>1, <1>5, <1>6, <1>7 DEF Makes

\* The counters of all() and any().
Tally(w, p, n) == [w EXCEPT !.heap[p].tally = n]
LEMMA TallyGoes ==
  ASSUME NEW w, NEW e, Good(w, e), NEW p, p \in All(w), NEW n, n \in Values
  PROVE  Goes(w, e, Tally(w, p, n), e) /\ Rest(Tally(w, p, n)) = Rest(w) /\ Size(Tally(w, p, n)) = Size(w)
<1>1. PICK q : q = w.heap[p]
  OBVIOUS
<1>2. q \in PromiseShape /\ PromiseOK(q, p, Size(w), e)
  BY <1>1, PromiseAt
<1>3. PICK r : r = [q EXCEPT !.tally = n]
  OBVIOUS
<1>4. r = [state |-> q.state, value |-> q.value, reactions |-> q.reactions, handled |-> q.handled,
           flagged |-> q.flagged, heard |-> q.heard, tally |-> n]
  BY <1>2, <1>3 DEF PromiseShape
<1>5. r \in PromiseShape
  BY <1>2, <1>4 DEF PromiseShape, Values
<1>6. r.reactions = q.reactions /\ r.state = q.state
  BY <1>4
<1>7. PromiseOK(r, p, Size(w), e)
  BY <1>2, <1>5, <1>6 DEF PromiseOK
<1>8. IsWorld(w) /\ w.micro \in Seq(TaskShape) /\ Size(w) \in Nat
  BY LenHeap
<1>9. PICK t : t \in Seq(TaskShape) /\ DOMAIN t = {} /\ w.micro = Cat(w.micro, t)
  BY <1>8, NoTasks
<1>10. PICK h : h = Put(w.heap, p, r)
  OBVIOUS
<1>11. PICK x : x = Tally(w, p, n)
  OBVIOUS
<1>12. IsWorld(x) /\ x.heap = h /\ x.micro = w.micro /\ Rest(x) = Rest(w)
  <2>1. x = [w EXCEPT !.heap = h]
    BY <1>1, <1>3, <1>10, <1>11 DEF Tally, Put
  <2>2. x = HeapMicro(w, h, w.micro)
    BY <1>8, <2>1 DEF HeapMicro, IsWorld
  <2> QED
    BY <1>8, <2>2, HeapMicroSet
<1>13. StaysSeen(w, p, r, t)
  <2>1. q.reactions # << >> \/ q.handled => q.heard
    BY <1>1 DEF Good, SeenOK
  <2> QED
    BY <1>1, <1>4, <2>1 DEF StaysSeen
<1>14. PlainTasks(t, Size(w), e)
  BY <1>9 DEF PlainTasks
<1>15. x.micro = Cat(w.micro, t) /\ x.heap = Put(w.heap, p, r)
  BY <1>9, <1>10, <1>12
<1>16. w.heap[p].state # "pending" => r.state # "pending"
  BY <1>1, <1>6
<1>17. Good(x, e) /\ Size(x) = Size(w)
  <2>1. t \in Seq(TaskShape) /\ IsWorld(x) /\ Rest(x) = Rest(w)
    BY <1>9, <1>12
  <2> QED
    BY <1>7, <1>13, <1>14, <1>15, <1>16, <2>1, Changed
<1> QED
  BY <1>8, <1>11, <1>12, <1>17, GoesPromises


-----------------------------------------------------------------------------
(* InOrder: a loop over a sequence, one element after the other.            *)

\* Induction over the naturals, for sets.  (The library's theorem is about an operator.)
LEMMA Induction ==
  ASSUME NEW N, N \subseteq Nat, 0 \in N, \A n \in N : n + 1 \in N
  PROVE  N = Nat
<1> DEFINE T == Nat \ N
<1>1. SUFFICES ASSUME T # {} PROVE FALSE
  OBVIOUS
<1>2. PICK m \in T : \A n \in T : <<n, m>> \notin OpToRel(<, Nat)
  <2> HIDE DEF T
  <2> T \subseteq Nat
    BY DEF T
  <2> QED
    BY <1>1, NatLessThanWellFounded, WFMin
<1>3. \A a, b \in Nat : a < b => <<a, b>> \in OpToRel(<, Nat)
  BY DEF OpToRel
<1>4. m \in Nat /\ m \notin N /\ m # 0
  OBVIOUS
<1>5. m - 1 \in Nat /\ m - 1 < m
  BY <1>4
<1>6. m - 1 \in N
  BY <1>2, <1>3, <1>4, <1>5
<1>7. (m - 1) + 1 \in N
  BY <1>6
<1> QED
  BY <1>4, <1>7

\* What holds at first, and at each index if it holds at the one before, holds at all of them.
LEMMA UpTo ==
  ASSUME NEW n, n \in Nat, NEW G, 0 \in G, \A i \in 1 .. n : i - 1 \in G => i \in G
  PROVE  n \in G
<1> DEFINE N == {i \in Nat : i <= n => i \in G}
<1>1. 0 \in N
  OBVIOUS
<1>2. ASSUME NEW i \in N PROVE i + 1 \in N
  <2>1. CASE i + 1 <= n
    <3>1. i \in G /\ i + 1 \in 1 .. n /\ (i + 1) - 1 = i
      BY <2>1
    <3> QED
      BY <3>1
  <2>2. CASE ~(i + 1 <= n)
    BY <2>2
  <2> QED
    BY <2>1, <2>2
<1>3. N = Nat
  <2> HIDE DEF N
  <2>1. N \subseteq Nat
    BY DEF N
  <2> QED
    BY <1>1, <1>2, <2>1, Induction
<1> QED
  BY <1>3

\* What the loops of the model come to, whatever they do at each step.
Answers(b, s, state, v, n) ==
  CHOOSE k : k = [i \in 0 .. n |-> IF i = 0 THEN b ELSE Settled(k[i - 1], s[i], state, v)]
LEMMA AnswersIs ==
  ASSUME NEW b, NEW s, NEW state, NEW v, NEW n, n \in Nat, NEW k, k = Answers(b, s, state, v, n)
  PROVE  k[0] = b /\ \A i \in 1 .. n : k[i] = Settled(k[i - 1], s[i], state, v)
<1> DEFINE Loops(h, m) == h = [i \in 0 .. m |-> IF i = 0 THEN b ELSE Settled(h[i - 1], s[i], state, v)]
           N == {m \in Nat : \E h : Loops(h, m)}
<1>1. 0 \in N
  <2>1. Loops([i \in 0 .. 0 |-> b], 0)
    OBVIOUS
  <2> QED
    BY <2>1
<1>2. ASSUME NEW m \in N PROVE m + 1 \in N
  <2>1. PICK h : Loops(h, m)
    OBVIOUS
  <2> DEFINE g == [i \in 0 .. (m + 1) |-> IF i = m + 1 THEN Settled(h[m], s[m + 1], state, v) ELSE h[i]]
  <2>2. ASSUME NEW i \in 0 .. (m + 1)
        PROVE  g[i] = IF i = 0 THEN b ELSE Settled(g[i - 1], s[i], state, v)
    <3>1. CASE i = m + 1
      <4>1. g[i] = Settled(h[m], s[m + 1], state, v) /\ i # 0 /\ i - 1 = m /\ g[m] = h[m]
        BY <3>1
      <4> QED
        BY <3>1, <4>1
    <3>2. CASE i # m + 1
      <4>1. i \in 0 .. m /\ g[i] = h[i]
        BY <3>2
      <4>2. h[i] = IF i = 0 THEN b ELSE Settled(h[i - 1], s[i], state, v)
        BY <2>1, <4>1
      <4>3. i # 0 => i - 1 \in 0 .. m /\ g[i - 1] = h[i - 1]
        BY <4>1
      <4> QED
        BY <4>1, <4>2, <4>3
    <3> QED
      BY <3>1, <3>2
  <2>3. Loops(g, m + 1)
    <3>1. g = [i \in 0 .. (m + 1) |-> g[i]]
      OBVIOUS
    <3> HIDE DEF g
    <3> QED
      BY <2>2, <3>1
  <2> HIDE DEF g, Loops
  <2>4. m \in Nat /\ \E z : Loops(z, m + 1)
    BY <2>3
  <2> QED
    BY <2>4
<1>3. N = Nat
  <2> HIDE DEF N
  <2>1. N \subseteq Nat
    BY DEF N
  <2> QED
    BY <1>1, <1>2, <2>1, Induction
<1>4. \E h : Loops(h, n)
  BY <1>3
<1>5. Loops(CHOOSE h : Loops(h, n), n)
  <2> HIDE DEF Loops
  <2> QED
    BY <1>4
<1>6. Loops(k, n)
  BY <1>5 DEF Answers
<1>7. k[0] = b
  BY <1>6
<1>8. ASSUME NEW i \in 1 .. n PROVE k[i] = Settled(k[i - 1], s[i], state, v)
  <2>1. i \in 0 .. n /\ i # 0
    OBVIOUS
  <2> QED
    BY <1>6, <2>1
<1> QED
  BY <1>7, <1>8

Subscribes(b, s, f, g0, n) ==
  CHOOSE k : k = [i \in 0 .. n |-> IF i = 0 THEN b ELSE Then(k[i - 1], s[i], f, g0).w]
LEMMA SubscribesIs ==
  ASSUME NEW b, NEW s, NEW f, NEW g0, NEW n, n \in Nat, NEW k, k = Subscribes(b, s, f, g0, n)
  PROVE  k[0] = b /\ \A i \in 1 .. n : k[i] = Then(k[i - 1], s[i], f, g0).w
<1> DEFINE Loops(h, m) == h = [i \in 0 .. m |-> IF i = 0 THEN b ELSE Then(h[i - 1], s[i], f, g0).w]
           N == {m \in Nat : \E h : Loops(h, m)}
<1>1. 0 \in N
  <2>1. Loops([i \in 0 .. 0 |-> b], 0)
    OBVIOUS
  <2> QED
    BY <2>1
<1>2. ASSUME NEW m \in N PROVE m + 1 \in N
  <2>1. PICK h : Loops(h, m)
    OBVIOUS
  <2> DEFINE g == [i \in 0 .. (m + 1) |-> IF i = m + 1 THEN Then(h[m], s[m + 1], f, g0).w ELSE h[i]]
  <2>2. ASSUME NEW i \in 0 .. (m + 1)
        PROVE  g[i] = IF i = 0 THEN b ELSE Then(g[i - 1], s[i], f, g0).w
    <3>1. CASE i = m + 1
      <4>1. g[i] = Then(h[m], s[m + 1], f, g0).w /\ i # 0 /\ i - 1 = m /\ g[m] = h[m]
        BY <3>1
      <4> QED
        BY <3>1, <4>1
    <3>2. CASE i # m + 1
      <4>1. i \in 0 .. m /\ g[i] = h[i]
        BY <3>2
      <4>2. h[i] = IF i = 0 THEN b ELSE Then(h[i - 1], s[i], f, g0).w
        BY <2>1, <4>1
      <4>3. i # 0 => i - 1 \in 0 .. m /\ g[i - 1] = h[i - 1]
        BY <4>1
      <4> QED
        BY <4>1, <4>2, <4>3
    <3> QED
      BY <3>1, <3>2
  <2>3. Loops(g, m + 1)
    <3>1. g = [i \in 0 .. (m + 1) |-> g[i]]
      OBVIOUS
    <3> HIDE DEF g
    <3> QED
      BY <2>2, <3>1
  <2> HIDE DEF g, Loops
  <2>4. m \in Nat /\ \E z : Loops(z, m + 1)
    BY <2>3
  <2> QED
    BY <2>4
<1>3. N = Nat
  <2> HIDE DEF N
  <2>1. N \subseteq Nat
    BY DEF N
  <2> QED
    BY <1>1, <1>2, <2>1, Induction
<1>4. \E h : Loops(h, n)
  BY <1>3
<1>5. Loops(CHOOSE h : Loops(h, n), n)
  <2> HIDE DEF Loops
  <2> QED
    BY <1>4
<1>6. Loops(k, n)
  BY <1>5 DEF Subscribes
<1>7. k[0] = b
  BY <1>6
<1>8. ASSUME NEW i \in 1 .. n PROVE k[i] = Then(k[i - 1], s[i], f, g0).w
  <2>1. i \in 0 .. n /\ i # 0
    OBVIOUS
  <2> QED
    BY <1>6, <2>1
<1> QED
  BY <1>7, <1>8

Collected(y, p) ==
  [w |-> Then(y.w, p, Noop, Noop).w, ps |-> Append(y.ps, Then(y.w, p, Noop, Noop).p)]
Collects(b, s, n) ==
  CHOOSE k : k = [i \in 0 .. n |-> IF i = 0 THEN b ELSE Collected(k[i - 1], s[i])]
LEMMA CollectsIs ==
  ASSUME NEW b, NEW s, NEW n, n \in Nat, NEW k, k = Collects(b, s, n)
  PROVE  k[0] = b /\ \A i \in 1 .. n : k[i] = Collected(k[i - 1], s[i])
<1> DEFINE Loops(h, m) == h = [i \in 0 .. m |-> IF i = 0 THEN b ELSE Collected(h[i - 1], s[i])]
           N == {m \in Nat : \E h : Loops(h, m)}
<1>1. 0 \in N
  <2>1. Loops([i \in 0 .. 0 |-> b], 0)
    OBVIOUS
  <2> QED
    BY <2>1
<1>2. ASSUME NEW m \in N PROVE m + 1 \in N
  <2>1. PICK h : Loops(h, m)
    OBVIOUS
  <2> DEFINE g == [i \in 0 .. (m + 1) |-> IF i = m + 1 THEN Collected(h[m], s[m + 1]) ELSE h[i]]
  <2>2. ASSUME NEW i \in 0 .. (m + 1)
        PROVE  g[i] = IF i = 0 THEN b ELSE Collected(g[i - 1], s[i])
    <3>1. CASE i = m + 1
      <4>1. g[i] = Collected(h[m], s[m + 1]) /\ i # 0 /\ i - 1 = m /\ g[m] = h[m]
        BY <3>1
      <4> QED
        BY <3>1, <4>1
    <3>2. CASE i # m + 1
      <4>1. i \in 0 .. m /\ g[i] = h[i]
        BY <3>2
      <4>2. h[i] = IF i = 0 THEN b ELSE Collected(h[i - 1], s[i])
        BY <2>1, <4>1
      <4>3. i # 0 => i - 1 \in 0 .. m /\ g[i - 1] = h[i - 1]
        BY <4>1
      <4> QED
        BY <4>1, <4>2, <4>3
    <3> QED
      BY <3>1, <3>2
  <2>3. Loops(g, m + 1)
    <3>1. g = [i \in 0 .. (m + 1) |-> g[i]]
      OBVIOUS
    <3> HIDE DEF g
    <3> QED
      BY <2>2, <3>1
  <2> HIDE DEF g, Loops
  <2>4. m \in Nat /\ \E z : Loops(z, m + 1)
    BY <2>3
  <2> QED
    BY <2>4
<1>3. N = Nat
  <2> HIDE DEF N
  <2>1. N \subseteq Nat
    BY DEF N
  <2> QED
    BY <1>1, <1>2, <2>1, Induction
<1>4. \E h : Loops(h, n)
  BY <1>3
<1>5. Loops(CHOOSE h : Loops(h, n), n)
  <2> HIDE DEF Loops
  <2> QED
    BY <1>4
<1>6. Loops(k, n)
  BY <1>5 DEF Collects
<1>7. k[0] = b
  BY <1>6
<1>8. ASSUME NEW i \in 1 .. n PROVE k[i] = Collected(k[i - 1], s[i])
  <2>1. i \in 0 .. n /\ i # 0
    OBVIOUS
  <2> QED
    BY <1>6, <2>1
<1> QED
  BY <1>7, <1>8

GivesOn(b, s, n) ==
  CHOOSE k : k = [i \in 0 .. n |-> IF i = 0 THEN b ELSE Gives(k[i - 1])]
LEMMA GivesOnIs ==
  ASSUME NEW b, NEW s, NEW n, n \in Nat, NEW k, k = GivesOn(b, s, n)
  PROVE  k[0] = b /\ \A i \in 1 .. n : k[i] = Gives(k[i - 1])
<1> DEFINE Loops(h, m) == h = [i \in 0 .. m |-> IF i = 0 THEN b ELSE Gives(h[i - 1])]
           N == {m \in Nat : \E h : Loops(h, m)}
<1>1. 0 \in N
  <2>1. Loops([i \in 0 .. 0 |-> b], 0)
    OBVIOUS
  <2> QED
    BY <2>1
<1>2. ASSUME NEW m \in N PROVE m + 1 \in N
  <2>1. PICK h : Loops(h, m)
    OBVIOUS
  <2> DEFINE g == [i \in 0 .. (m + 1) |-> IF i = m + 1 THEN Gives(h[m]) ELSE h[i]]
  <2>2. ASSUME NEW i \in 0 .. (m + 1)
        PROVE  g[i] = IF i = 0 THEN b ELSE Gives(g[i - 1])
    <3>1. CASE i = m + 1
      <4>1. g[i] = Gives(h[m]) /\ i # 0 /\ i - 1 = m /\ g[m] = h[m]
        BY <3>1
      <4> QED
        BY <3>1, <4>1
    <3>2. CASE i # m + 1
      <4>1. i \in 0 .. m /\ g[i] = h[i]
        BY <3>2
      <4>2. h[i] = IF i = 0 THEN b ELSE Gives(h[i - 1])
        BY <2>1, <4>1
      <4>3. i # 0 => i - 1 \in 0 .. m /\ g[i - 1] = h[i - 1]
        BY <4>1
      <4> QED
        BY <4>1, <4>2, <4>3
    <3> QED
      BY <3>1, <3>2
  <2>3. Loops(g, m + 1)
    <3>1. g = [i \in 0 .. (m + 1) |-> g[i]]
      OBVIOUS
    <3> HIDE DEF g
    <3> QED
      BY <2>2, <3>1
  <2> HIDE DEF g, Loops
  <2>4. m \in Nat /\ \E z : Loops(z, m + 1)
    BY <2>3
  <2> QED
    BY <2>4
<1>3. N = Nat
  <2> HIDE DEF N
  <2>1. N \subseteq Nat
    BY DEF N
  <2> QED
    BY <1>1, <1>2, <2>1, Induction
<1>4. \E h : Loops(h, n)
  BY <1>3
<1>5. Loops(CHOOSE h : Loops(h, n), n)
  <2> HIDE DEF Loops
  <2> QED
    BY <1>4
<1>6. Loops(k, n)
  BY <1>5 DEF GivesOn
<1>7. k[0] = b
  BY <1>6
<1>8. ASSUME NEW i \in 1 .. n PROVE k[i] = Gives(k[i - 1])
  <2>1. i \in 0 .. n /\ i # 0
    OBVIOUS
  <2> QED
    BY <1>6, <2>1
<1> QED
  BY <1>7, <1>8


\* The loop that settles the promises of a sequence.
LEMMA AnswersGo ==
  ASSUME NEW b, NEW e, Good(b, e), NEW s, NEW n, n \in Nat, \A i \in 1 .. n : s[i] \in Free(Size(b), e),
         NEW state, state \in Outcomes, NEW v, v \in Values
  PROVE  Goes(b, e, Answers(b, s, state, v, n)[n], e)
<1>1. PICK k : k = Answers(b, s, state, v, n)
  OBVIOUS
<1>2. k[0] = b /\ \A i \in 1 .. n : k[i] = Settled(k[i - 1], s[i], state, v)
  BY <1>1, AnswersIs
<1> DEFINE G == {i \in 0 .. n : Goes(b, e, k[i], e)}
<1>3. 0 \in G
  <2>1. 0 \in 0 .. n
    OBVIOUS
  <2> QED
    BY <1>2, <2>1, GoesNowhere
<1>4. ASSUME NEW i \in 1 .. n, i - 1 \in G PROVE i \in G
  <2>1. PICK x : x = k[i - 1]
    OBVIOUS
  <2>2. PICK p : p = s[i]
    OBVIOUS
  <2>3. Goes(b, e, x, e) /\ p \in Free(Size(b), e)
    BY <1>4, <2>1, <2>2
  <2>4. Good(x, e) /\ p \in Free(Size(x), e)
    BY <2>3, GoesWider
  <2>5. PICK y : y = Settled(x, p, state, v)
    OBVIOUS
  <2>6. Goes(x, e, y, e)
    BY <2>4, <2>5, SettledGoes
  <2>7. Goes(b, e, y, e)
    BY <2>3, <2>6, GoesFurther
  <2>8. k[i] = y /\ i \in 0 .. n
    BY <1>2, <2>1, <2>2, <2>5
  <2> QED
    BY <2>7, <2>8
<1>5. n \in G
  <2> HIDE DEF G
  <2> QED
    BY <1>3, <1>4, UpTo
<1> QED
  BY <1>1, <1>5


-----------------------------------------------------------------------------
(* What the streams and the world outside keep beside the promises.         *)

LEMMA SameHeap ==
  ASSUME NEW w, NEW e, Good(w, e), NEW x, IsWorld(x), x.heap = w.heap, x.micro = w.micro,
         OwedOK(x, e), StreamsOK(x, e), ScriptOK(x)
  PROVE  Good(x, e) /\ Size(x) = Size(w) /\ All(x) = All(w)
<1>1. Size(x) = Size(w) /\ All(x) = All(w)
  BY DEF Size, All
<1>2. EnvOK(Size(x), e) /\ HeapOK(x, e) /\ MicroOK(x, e)
  BY <1>1 DEF Good, HeapOK, MicroOK
<1>3. SeenOK(x)
  BY <1>1 DEF Good, SeenOK
<1> QED
  BY <1>1, <1>2, <1>3 DEF Good, IsWorld

Streams(w, r, s) == [w EXCEPT !.rs = r, !.ws = s]
LEMMA StreamsSet ==
  ASSUME NEW w, IsWorld(w), NEW r, NEW s
  PROVE  LET x == Streams(w, r, s) IN
         /\ IsWorld(x) /\ x.rs = r /\ x.ws = s /\ x.heap = w.heap /\ x.micro = w.micro /\ x.owed = w.owed
         /\ x.plan = w.plan /\ x.given = w.given /\ x.over = w.over /\ x.taken = w.taken /\ x.done = w.done
         /\ x.script = w.script /\ x.faults = w.faults
<1> DEFINE x == Streams(w, r, s)
<1>1. DOMAIN w = Fields
  BY DEF IsWorld
<1>2. DOMAIN x = Fields /\ x = [f \in DOMAIN x |-> x[f]]
  BY <1>1 DEF Streams
<1>3. /\ x.rs = r /\ x.ws = s /\ x.heap = w.heap /\ x.micro = w.micro /\ x.owed = w.owed
      /\ x.plan = w.plan /\ x.given = w.given /\ x.over = w.over /\ x.taken = w.taken /\ x.done = w.done
      /\ x.script = w.script /\ x.faults = w.faults
  BY <1>1 DEF Fields, Streams
<1> QED
  BY <1>2, <1>3 DEF IsWorld

WithRs(w, r) == [w EXCEPT !.rs = r]
WithWs(w, s) == [w EXCEPT !.ws = s]
LEMMA OneStream ==
  ASSUME NEW w, IsWorld(w), NEW g
  PROVE  WithRs(w, g) = Streams(w, g, w.ws) /\ WithWs(w, g) = Streams(w, w.rs, g)
<1>1. WithRs(w, g) = Streams(w, g, w.ws)
  BY DEF IsWorld, Streams, WithRs
<1>2. WithWs(w, g) = Streams(w, w.rs, g)
  BY DEF IsWorld, Streams, WithWs
<1> QED
  BY <1>1, <1>2

Scripts(w, g, o, t, d, s, f) ==
  [w EXCEPT !.given = g, !.over = o, !.taken = t, !.done = d, !.script = s, !.faults = f]
LEMMA ScriptsSet ==
  ASSUME NEW w, IsWorld(w), NEW g, NEW o, NEW t, NEW d, NEW s, NEW f
  PROVE  LET x == Scripts(w, g, o, t, d, s, f) IN
         /\ IsWorld(x) /\ x.rs = w.rs /\ x.ws = w.ws /\ x.heap = w.heap /\ x.micro = w.micro /\ x.owed = w.owed
         /\ x.plan = w.plan /\ x.given = g /\ x.over = o /\ x.taken = t /\ x.done = d
         /\ x.script = s /\ x.faults = f
<1> DEFINE x == Scripts(w, g, o, t, d, s, f)
<1>1. DOMAIN w = Fields
  BY DEF IsWorld
<1>2. DOMAIN x = Fields /\ x = [z \in DOMAIN x |-> x[z]]
  BY <1>1 DEF Scripts
<1>3. /\ x.rs = w.rs /\ x.ws = w.ws /\ x.heap = w.heap /\ x.micro = w.micro /\ x.owed = w.owed
      /\ x.plan = w.plan /\ x.given = g /\ x.over = o /\ x.taken = t /\ x.done = d
      /\ x.script = s /\ x.faults = f
  BY <1>1 DEF Fields, Scripts
<1> QED
  BY <1>2, <1>3 DEF IsWorld

Owing(w, o) == [w EXCEPT !.owed = o]
LEMMA OwingSet ==
  ASSUME NEW w, IsWorld(w), NEW o
  PROVE  LET x == Owing(w, o) IN
         /\ IsWorld(x) /\ x.rs = w.rs /\ x.ws = w.ws /\ x.heap = w.heap /\ x.micro = w.micro /\ x.owed = o
         /\ x.plan = w.plan /\ x.given = w.given /\ x.over = w.over /\ x.taken = w.taken /\ x.done = w.done
         /\ x.script = w.script /\ x.faults = w.faults
<1> DEFINE x == Owing(w, o)
<1>1. DOMAIN w = Fields
  BY DEF IsWorld
<1>2. DOMAIN x = Fields /\ x = [z \in DOMAIN x |-> x[z]]
  BY <1>1 DEF Owing
<1>3. /\ x.rs = w.rs /\ x.ws = w.ws /\ x.heap = w.heap /\ x.micro = w.micro /\ x.owed = o
      /\ x.plan = w.plan /\ x.given = w.given /\ x.over = w.over /\ x.taken = w.taken /\ x.done = w.done
      /\ x.script = w.script /\ x.faults = w.faults
  BY <1>1 DEF Fields, Owing
<1> QED
  BY <1>2, <1>3 DEF IsWorld

\* A readable stream becomes r.
Reader(w, s, r) == [w EXCEPT !.rs[s] = r]
LEMMA ReadableGoes ==
  ASSUME NEW w, NEW e, Good(w, e), NEW s, s \in Readables, NEW r, r \in ReadableShape(Size(w), e),
         r.locked => r.closedPromise \in Free(Size(w), e),
         NEW x, x = Reader(w, s, r)
  PROVE  /\ Goes(w, e, x, e) /\ Size(x) = Size(w) /\ x.rs[s] = r /\ \A z \in Readables \ {s} : x.rs[z] = w.rs[z]
         /\ x.ws = w.ws /\ x.given = w.given
<1>1. IsWorld(w) /\ Size(w) \in Nat
  BY LenHeap
<1>2. PICK g : g = [w.rs EXCEPT ![s] = r]
  OBVIOUS
<1>3. x = Streams(w, g, w.ws)
  <2>1. x = WithRs(w, g)
    BY <1>2 DEF WithRs, Reader
  <2> QED
    BY <1>1, <2>1, OneStream
<1>4. /\ IsWorld(x) /\ x.rs = g /\ x.ws = w.ws /\ x.heap = w.heap /\ x.micro = w.micro /\ x.owed = w.owed
      /\ x.plan = w.plan /\ x.given = w.given /\ x.over = w.over /\ x.taken = w.taken /\ x.done = w.done
      /\ x.script = w.script /\ x.faults = w.faults
  BY <1>1, <1>3, StreamsSet
<1>5. Size(x) = Size(w) /\ All(x) = All(w)
  BY <1>4 DEF Size, All
<1>6. w.rs \in [Readables -> ReadableShape(Size(w), e)] /\ \A z \in Readables : w.rs[z].locked => w.rs[z].closedPromise \in Free(Size(w), e)
  BY DEF Good, StreamsOK
<1>7. /\ g \in [Readables -> ReadableShape(Size(w), e)] /\ g[s] = r /\ \A z \in Readables \ {s} : g[z] = w.rs[z]
  BY <1>2, <1>6
<1>8. \A z \in Readables : g[z].locked => g[z].closedPromise \in Free(Size(w), e)
  BY <1>6, <1>7
<1>9. StreamsOK(x, e)
  BY <1>4, <1>5, <1>7, <1>8 DEF Good, StreamsOK, PipesInto
<1>10. OwedOK(x, e) /\ ScriptOK(x)
  BY <1>4, <1>5 DEF Good, OwedOK, ScriptOK
<1>11. Good(x, e)
  BY <1>4, <1>9, <1>10, SameHeap
<1>12. Goes(w, e, x, e)
  BY <1>1, <1>4, <1>5, <1>11 DEF Goes
<1> QED
  BY <1>4, <1>5, <1>7, <1>12

\* A writable stream becomes r; where its chain of writes ends does not change.
Writer(w, s, r) == [w EXCEPT !.ws[s] = r]
LEMMA WritableGoes ==
  ASSUME NEW w, NEW e, Good(w, e), NEW s, s \in Writables, NEW r, r \in WritableShape(Size(w)),
         r.writing = w.ws[s].writing, NEW x, x = Writer(w, s, r)
  PROVE  Goes(w, e, x, e) /\ Size(x) = Size(w) /\ x.rs = w.rs /\ x.ws = [w.ws EXCEPT ![s] = r]
<1>1. IsWorld(w) /\ Size(w) \in Nat
  BY LenHeap
<1>2. PICK g : g = [w.ws EXCEPT ![s] = r]
  OBVIOUS
<1>3. x = Streams(w, w.rs, g)
  <2>1. x = WithWs(w, g)
    BY <1>2 DEF WithWs, Writer
  <2> QED
    BY <1>1, <2>1, OneStream
<1>4. /\ IsWorld(x) /\ x.rs = w.rs /\ x.ws = g /\ x.heap = w.heap /\ x.micro = w.micro /\ x.owed = w.owed
      /\ x.plan = w.plan /\ x.given = w.given /\ x.over = w.over /\ x.taken = w.taken /\ x.done = w.done
      /\ x.script = w.script /\ x.faults = w.faults
  BY <1>1, <1>3, StreamsSet
<1>5. Size(x) = Size(w) /\ All(x) = All(w)
  BY <1>4 DEF Size, All
<1>6. w.ws \in [Writables -> WritableShape(Size(w))]
  BY DEF Good, StreamsOK
<1>7. g \in [Writables -> WritableShape(Size(w))] /\ \A z \in Writables : g[z].writing = w.ws[z].writing
  BY <1>2, <1>6
<1>8. StreamsOK(x, e)
  <2>1. "dst" \in Writables /\ \A z \in Readables : PipesInto(w, z) \in Writables /\ PipesInto(x, z) = PipesInto(w, z)
    BY <1>4 DEF Writables, PipesInto
  <2>2. e.pipes \subseteq Readables
    BY DEF Good, EnvOK, Envs
  <2> QED
    BY <1>4, <1>5, <1>7, <2>1, <2>2 DEF Good, StreamsOK
<1>9. OwedOK(x, e) /\ ScriptOK(x)
  <2>1. "dst" \in Writables
    BY DEF Writables
  <2> QED
    BY <1>4, <1>5, <1>7, <2>1 DEF Good, OwedOK, ScriptOK
<1>10. Good(x, e)
  BY <1>4, <1>8, <1>9, SameHeap
<1>11. Goes(w, e, x, e)
  BY <1>1, <1>4, <1>5, <1>7, <1>10 DEF Goes
<1> QED
  BY <1>2, <1>4, <1>5, <1>11


ScriptShape(w) ==
  [first : Nat, pipe : Nat, join : Nat, stopped : BOOLEAN, writes : Seq(All(w))]
Takings == [Consumers -> Seq(Int)]
LEMMA ScriptGoes ==
  ASSUME NEW w, NEW e, Good(w, e), NEW g, g \in Nat, NEW o, o \in BOOLEAN, NEW t, t \in Takings,
         NEW d, d \subseteq Consumers, NEW s, s \in ScriptShape(w), NEW f, f \in Nat
  PROVE  LET x == Scripts(w, g, o, t, d, s, f) IN Goes(w, e, x, e) /\ Size(x) = Size(w) /\ x.rs = w.rs /\ x.ws = w.ws /\ x.owed = w.owed
<1> DEFINE x == Scripts(w, g, o, t, d, s, f)
<1>1. IsWorld(w) /\ Size(w) \in Nat
  BY LenHeap
<1>2. /\ IsWorld(x) /\ x.rs = w.rs /\ x.ws = w.ws /\ x.heap = w.heap /\ x.micro = w.micro /\ x.owed = w.owed
      /\ x.plan = w.plan /\ x.given = g /\ x.over = o /\ x.taken = t /\ x.done = d
      /\ x.script = s /\ x.faults = f
  BY <1>1, ScriptsSet
<1> HIDE DEF x
<1>3. Size(x) = Size(w) /\ All(x) = All(w)
  BY <1>2 DEF Size, All
<1>4. StreamsOK(x, e) /\ OwedOK(x, e)
  BY <1>2, <1>3 DEF Good, StreamsOK, OwedOK, PipesInto
<1>5. ScriptOK(x)
  BY <1>2, <1>3 DEF Good, ScriptOK, ScriptShape, Takings
<1>6. Good(x, e)
  BY <1>2, <1>4, <1>5, SameHeap
<1>7. Goes(w, e, x, e)
  BY <1>1, <1>2, <1>3, <1>6 DEF Goes
<1> QED
  BY <1>2, <1>3, <1>7 DEF x

LEMMA ScriptIs ==
  ASSUME NEW w, NEW e, Good(w, e)
  PROVE  /\ w.given \in Nat /\ w.over \in BOOLEAN /\ w.taken \in Takings /\ w.done \subseteq Consumers
         /\ w.script \in ScriptShape(w) /\ w.faults \in Nat
BY DEF Good, ScriptOK, ScriptShape, Takings

WithGiven(w, g) == [w EXCEPT !.given = g]
WithOver(w, o) == [w EXCEPT !.over = o]
WithTaken(w, t) == [w EXCEPT !.taken = t]
WithDone(w, d) == [w EXCEPT !.done = d]
WithScript(w, s) == [w EXCEPT !.script = s]
WithFaults(w, f) == [w EXCEPT !.faults = f]
LEMMA ScriptsIs ==
  ASSUME NEW w, IsWorld(w), NEW z
  PROVE  /\ WithGiven(w, z) = Scripts(w, z, w.over, w.taken, w.done, w.script, w.faults)
         /\ WithOver(w, z) = Scripts(w, w.given, z, w.taken, w.done, w.script, w.faults)
         /\ WithTaken(w, z) = Scripts(w, w.given, w.over, z, w.done, w.script, w.faults)
         /\ WithDone(w, z) = Scripts(w, w.given, w.over, w.taken, z, w.script, w.faults)
         /\ WithScript(w, z) = Scripts(w, w.given, w.over, w.taken, w.done, z, w.faults)
         /\ WithFaults(w, z) = Scripts(w, w.given, w.over, w.taken, w.done, w.script, z)
<1>1. WithGiven(w, z) = Scripts(w, z, w.over, w.taken, w.done, w.script, w.faults)
  BY DEF WithGiven, Scripts, IsWorld
<1>2. WithOver(w, z) = Scripts(w, w.given, z, w.taken, w.done, w.script, w.faults)
  BY DEF WithOver, Scripts, IsWorld
<1>3. WithTaken(w, z) = Scripts(w, w.given, w.over, z, w.done, w.script, w.faults)
  BY DEF WithTaken, Scripts, IsWorld
<1>4. WithDone(w, z) = Scripts(w, w.given, w.over, w.taken, z, w.script, w.faults)
  BY DEF WithDone, Scripts, IsWorld
<1>5. WithScript(w, z) = Scripts(w, w.given, w.over, w.taken, w.done, z, w.faults)
  BY DEF WithScript, Scripts, IsWorld
<1>6. WithFaults(w, z) = Scripts(w, w.given, w.over, w.taken, w.done, w.script, z)
  BY DEF WithFaults, Scripts, IsWorld
<1> QED
  BY <1>1, <1>2, <1>3, <1>4, <1>5, <1>6

\* What is kept beside the promises and the streams may change as it likes.
Alike(w, x) == Size(x) = Size(w) /\ x.rs = w.rs /\ x.ws = w.ws /\ x.owed = w.owed
LEMMA GivenGoes ==
  ASSUME NEW w, NEW e, Good(w, e), NEW z, z \in Nat
  PROVE  Goes(w, e, WithGiven(w, z), e) /\ Alike(w, WithGiven(w, z))
<1>1. WithGiven(w, z) = Scripts(w, z, w.over, w.taken, w.done, w.script, w.faults)
  BY LenHeap, ScriptsIs
<1> QED
  BY <1>1, ScriptIs, ScriptGoes DEF Alike
LEMMA OverGoes ==
  ASSUME NEW w, NEW e, Good(w, e), NEW z, z \in BOOLEAN
  PROVE  Goes(w, e, WithOver(w, z), e) /\ Alike(w, WithOver(w, z))
BY LenHeap, ScriptIs, ScriptsIs, ScriptGoes DEF Alike
LEMMA TakenGoes ==
  ASSUME NEW w, NEW e, Good(w, e), NEW z, z \in Takings
  PROVE  Goes(w, e, WithTaken(w, z), e) /\ Alike(w, WithTaken(w, z))
BY LenHeap, ScriptIs, ScriptsIs, ScriptGoes DEF Alike
LEMMA DoneGoes ==
  ASSUME NEW w, NEW e, Good(w, e), NEW z, z \subseteq Consumers
  PROVE  Goes(w, e, WithDone(w, z), e) /\ Alike(w, WithDone(w, z))
BY LenHeap, ScriptIs, ScriptsIs, ScriptGoes DEF Alike
LEMMA ScriptSetGoes ==
  ASSUME NEW w, NEW e, Good(w, e), NEW z, z \in ScriptShape(w)
  PROVE  Goes(w, e, WithScript(w, z), e) /\ Alike(w, WithScript(w, z))
BY LenHeap, ScriptIs, ScriptsIs, ScriptGoes DEF Alike
LEMMA FaultsGoes ==
  ASSUME NEW w, NEW e, Good(w, e), NEW z, z \in Nat
  PROVE  Goes(w, e, WithFaults(w, z), e) /\ Alike(w, WithFaults(w, z))
BY LenHeap, ScriptIs, ScriptsIs, ScriptGoes DEF Alike


\* The answers that the world outside owes.
LEMMA OwingGoes ==
  ASSUME NEW w, NEW e, Good(w, e), NEW o, NEW x, x = Owing(w, o), OwedOK(x, e)
  PROVE  Goes(w, e, x, e) /\ Size(x) = Size(w) /\ x.rs = w.rs /\ x.ws = w.ws
<1>1. IsWorld(w) /\ Size(w) \in Nat
  BY LenHeap
<1>2. /\ IsWorld(x) /\ x.rs = w.rs /\ x.ws = w.ws /\ x.heap = w.heap /\ x.micro = w.micro /\ x.owed = o
      /\ x.plan = w.plan /\ x.given = w.given /\ x.over = w.over /\ x.taken = w.taken /\ x.done = w.done
      /\ x.script = w.script /\ x.faults = w.faults
  BY <1>1, OwingSet
<1>3. Size(x) = Size(w) /\ All(x) = All(w)
  BY <1>2 DEF Size, All
<1>4. StreamsOK(x, e) /\ ScriptOK(x)
  BY <1>2, <1>3 DEF Good, StreamsOK, ScriptOK, PipesInto
<1>5. Good(x, e)
  BY <1>2, <1>4, SameHeap
<1>6. Goes(w, e, x, e)
  BY <1>1, <1>2, <1>3, <1>5 DEF Goes
<1> QED
  BY <1>2, <1>3, <1>6

\* One answer less.
LEMMA OwesLessGoes ==
  ASSUME NEW w, NEW e, Good(w, e), NEW o, o \subseteq w.owed
  PROVE  Goes(w, e, Owing(w, o), e) /\ Size(Owing(w, o)) = Size(w) /\ Owing(w, o).ws = w.ws
<1>1. PICK x : x = Owing(w, o)
  OBVIOUS
<1>2. IsWorld(w)
  BY LenHeap
<1>3. x.owed = o /\ x.heap = w.heap
  BY <1>1, <1>2, OwingSet
<1>4. OwedOK(x, e)
  BY <1>3 DEF Good, OwedOK, All, Size
<1> QED
  BY <1>1, <1>4, OwingGoes

\* One answer more, which is not the sink's.
LEMMA OwesMoreGoes ==
  ASSUME NEW w, NEW e, Good(w, e), NEW p, p \in Free(Size(w), e),
         NEW who, who \in Asks \ SinkAsks, NEW n, n \in Values,
         NEW o, o = w.owed \cup {[who |-> who, p |-> p, n |-> n]}
  PROVE  Goes(w, e, Owing(w, o), e) /\ Size(Owing(w, o)) = Size(w) /\ Owing(w, o).ws = w.ws
<1>1. PICK x : x = Owing(w, o)
  OBVIOUS
<1>2. IsWorld(w)
  BY LenHeap
<1>3. x.owed = o /\ x.heap = w.heap
  BY <1>1, <1>2, OwingSet
<1>4. Size(x) = Size(w) /\ All(x) = All(w)
  BY <1>3 DEF Size, All
<1>5. PICK a : a = [who |-> who, p |-> p, n |-> n]
  OBVIOUS
<1>6. a \in [who : Asks, p : All(w), n : Int] /\ a.who = who /\ a.p = p
  BY <1>5, FreeIsMade DEF Values
<1>7. who \notin {"sinkStart", "write", "close"}
  BY DEF SinkAsks
<1>8. o = w.owed \cup {a}
  BY <1>5
<1>9. OwedOK(w, e)
  BY DEF Good
<1>10. OwedOK(x, e)
  <2>1. x.owed \subseteq [who : Asks, p : All(x), n : Int]
    BY <1>3, <1>4, <1>6, <1>8, <1>9 DEF OwedOK
  <2>2. ASSUME NEW b \in x.owed
        PROVE  CASE b.who = "sinkStart" -> e.at = "start" /\ b.p = e.line[1]
                 [] b.who \in {"write", "close"} -> e.at = "owed" /\ b.p = e.key
                 [] OTHER -> b.p \in Free(Size(x), e)
    <3>1. CASE b \in w.owed
      BY <1>4, <1>9, <3>1 DEF OwedOK
    <3>2. CASE b = a
      BY <1>4, <1>6, <1>7, <3>2
    <3> QED
      BY <1>3, <1>8, <3>1, <3>2
  <2>3. \A b, q \in x.owed : b.who \in SinkAsks /\ q.who \in SinkAsks => b = q
    BY <1>3, <1>6, <1>8, <1>9 DEF OwedOK
  <2> QED
    BY <2>1, <2>2, <2>3 DEF OwedOK
<1> QED
  BY <1>1, <1>10, OwingGoes

\* A promise that the source or the transformer settles later.
LEMMA OwesGoes ==
  ASSUME NEW w, NEW e, Good(w, e), NEW who, who \in Asks \ SinkAsks, NEW n, n \in Values
  PROVE  /\ Goes(w, e, Owes(w, who, n).w, e) /\ Owes(w, who, n).a.how = "promise"
         /\ Owes(w, who, n).a.v \in Free(Size(Owes(w, who, n).w), e)
<1>1. PICK m : m = Made(w)
  OBVIOUS
<1>2. PICK y : y = m.w
  OBVIOUS
<1>3. PICK p : p = m.p
  OBVIOUS
<1>4. Goes(w, e, y, e) /\ p \in Free(Size(y), e)
  BY <1>1, <1>2, <1>3, MadeGoes DEF Makes
<1>5. Good(y, e)
  BY <1>4 DEF Goes
<1>6. PICK o : o = y.owed \cup {[who |-> who, p |-> p, n |-> n]}
  OBVIOUS
<1>7. PICK x : x = Owing(y, o)
  OBVIOUS
<1>8. Goes(y, e, x, e) /\ Size(x) = Size(y)
  BY <1>4, <1>5, <1>6, <1>7, OwesMoreGoes
<1>9. Goes(w, e, x, e)
  BY <1>4, <1>8, GoesFurther
<1>10. Owes(w, who, n).w = x /\ Owes(w, who, n).a = Promised(p)
  BY <1>1, <1>2, <1>3, <1>6, <1>7 DEF Owes, Owing
<1>11. Promised(p).how = "promise" /\ Promised(p).v = p
  BY DEF Promised
<1> QED
  BY <1>4, <1>8, <1>9, <1>10, <1>11


-----------------------------------------------------------------------------
(* Readable streams *)

RQueue(r, q) == [r EXCEPT !.queue = q]
RWaiters(r, t) == [r EXCEPT !.waiters = t]
RClosed(r, c) == [r EXCEPT !.closed = c]
RCancelled(r, c) == [r EXCEPT !.cancelled = c]
RErrored(r, v) == [r EXCEPT !.errored = v]
RPulling(r, c) == [r EXCEPT !.pulling = c]
\* The lock is left alone.
LockStays(r, y, k, e) == y \in ReadableShape(k, e) /\ y.locked = r.locked /\ y.closedPromise = r.closedPromise
LEMMA FieldsStay ==
  ASSUME NEW k, NEW e, NEW r, r \in ReadableShape(k, e)
  PROVE  /\ \A q \in Seq(Int) : LockStays(r, RQueue(r, q), k, e)
         /\ \A t \in Seq(Free(k, e)) : LockStays(r, RWaiters(r, t), k, e)
         /\ \A c \in BOOLEAN : LockStays(r, RClosed(r, c), k, e)
         /\ \A c \in BOOLEAN : LockStays(r, RCancelled(r, c), k, e)
         /\ \A v \in Values : LockStays(r, RErrored(r, v), k, e)
         /\ \A c \in BOOLEAN : LockStays(r, RPulling(r, c), k, e)
<1>1. ASSUME NEW q \in Seq(Int) PROVE LockStays(r, RQueue(r, q), k, e)
  BY DEF LockStays, RQueue, ReadableShape
<1>2. ASSUME NEW t \in Seq(Free(k, e)) PROVE LockStays(r, RWaiters(r, t), k, e)
  BY DEF LockStays, RWaiters, ReadableShape
<1>3. ASSUME NEW c \in BOOLEAN PROVE LockStays(r, RClosed(r, c), k, e)
  BY DEF LockStays, RClosed, ReadableShape
<1>4. ASSUME NEW c \in BOOLEAN PROVE LockStays(r, RCancelled(r, c), k, e)
  BY DEF LockStays, RCancelled, ReadableShape
<1>5. ASSUME NEW v \in Values PROVE LockStays(r, RErrored(r, v), k, e)
  BY DEF LockStays, RErrored, ReadableShape, Values
<1>6. ASSUME NEW c \in BOOLEAN PROVE LockStays(r, RPulling(r, c), k, e)
  BY DEF LockStays, RPulling, ReadableShape
<1> QED
  BY <1>1, <1>2, <1>3, <1>4, <1>5, <1>6

LEMMA ReadableAt ==
  ASSUME NEW w, NEW e, Good(w, e), NEW s, s \in Readables
  PROVE  w.rs[s] \in ReadableShape(Size(w), e) /\ (w.rs[s].locked => w.rs[s].closedPromise \in Free(Size(w), e))
BY DEF Good, StreamsOK

LEMMA ReadableParts ==
  ASSUME NEW k, NEW e, NEW r, r \in ReadableShape(k, e)
  PROVE  /\ r.queue \in Seq(Int) /\ r.waiters \in Seq(Free(k, e)) /\ r.errored \in Values
BY DEF ReadableShape, Values

\* A readable stream keeps its lock when the rest of it changes.
LEMMA ReaderGoes ==
  ASSUME NEW w, NEW e, Good(w, e), NEW s, s \in Readables, NEW y, LockStays(w.rs[s], y, Size(w), e)
  PROVE  Goes(w, e, Reader(w, s, y), e) /\ Size(Reader(w, s, y)) = Size(w)
         /\ Reader(w, s, y).rs[s] = y
<1>1. y \in ReadableShape(Size(w), e) /\ (y.locked => y.closedPromise \in Free(Size(w), e))
  BY ReadableAt DEF LockStays
<1> QED
  BY <1>1, ReadableGoes

\* The end of a stream settles the reads that wait.
LEMMA WaitersGo ==
  ASSUME NEW w, NEW e, Good(w, e), NEW s, s \in Readables,
         NEW state, state \in Outcomes, NEW v, v \in Values
  PROVE  Goes(w, e, AnswerWaiters(w, s, state, v), e)
<1>1. PICK r : r = w.rs[s]
  OBVIOUS
<1>2. r \in ReadableShape(Size(w), e) /\ r.waiters \in Seq(Free(Size(w), e))
  BY <1>1, ReadableAt, ReadableParts
<1>3. PICK ps : ps = r.waiters
  OBVIOUS
<1>4. ps \in Seq(Free(Size(w), e)) /\ << >> \in Seq(Free(Size(w), e))
  BY <1>2, <1>3
<1>5. PICK n : n = Len(ps)
  OBVIOUS
<1>6. n \in Nat /\ \A i \in 1 .. n : ps[i] \in Free(Size(w), e)
  BY <1>4, <1>5, ElementOfSeq, LenProperties
<1>7. PICK y : y = RWaiters(r, << >>)
  OBVIOUS
<1>8. PICK b : b = Reader(w, s, y)
  OBVIOUS
<1>9. LockStays(r, y, Size(w), e)
  BY <1>2, <1>4, <1>7, FieldsStay
<1>10. Goes(w, e, b, e) /\ Size(b) = Size(w)
  BY <1>1, <1>8, <1>9, ReaderGoes
<1>11. Good(b, e)
  BY <1>10 DEF Goes
<1>12. PICK k : k = Answers(b, ps, state, v, n)
  OBVIOUS
<1>13. AnswerWaiters(w, s, state, v) = k[n]
  <2>1. b = [w EXCEPT !.rs[s].waiters = << >>]
    BY <1>1, <1>7, <1>8 DEF Reader, RWaiters
  <2> QED
    BY <1>1, <1>3, <1>5, <1>12, <2>1 DEF AnswerWaiters, InOrder, Answers
<1>14. Goes(b, e, k[n], e)
  BY <1>6, <1>10, <1>11, <1>12, AnswersGo
<1>15. Goes(w, e, k[n], e)
  BY <1>10, <1>14, GoesFurther
<1> QED
  BY <1>13, <1>15


LEMMA CloseGoes ==
  ASSUME NEW w, NEW e, Good(w, e), NEW s, s \in Readables
  PROVE  Goes(w, e, CloseReadable(w, s), e)
<1>1. CASE Over(w.rs[s])
  BY <1>1, GoesNowhere DEF CloseReadable
<1>2. CASE ~Over(w.rs[s])
  <2>1. PICK r : r = w.rs[s]
    OBVIOUS
  <2>2. PICK x : x = Reader(w, s, RClosed(r, TRUE))
    OBVIOUS
  <2>3. LockStays(r, RClosed(r, TRUE), Size(w), e)
    BY <2>1, ReadableAt, FieldsStay
  <2>4. Goes(w, e, x, e)
    BY <2>1, <2>2, <2>3, ReaderGoes
  <2>5. Good(x, e) /\ "fulfilled" \in Outcomes /\ Done \in Values
    BY <2>4 DEF Goes, Outcomes, Values, Done
  <2>6. PICK y : y = AnswerWaiters(x, s, "fulfilled", Done)
    OBVIOUS
  <2>7. Goes(x, e, y, e)
    BY <2>5, <2>6, WaitersGo
  <2>8. CloseReadable(w, s) = y
    BY <1>2, <2>1, <2>2, <2>6 DEF CloseReadable, Reader, RClosed
  <2> QED
    BY <2>4, <2>7, <2>8, GoesFurther
<1> QED
  BY <1>1, <1>2

LEMMA ErrorGoes ==
  ASSUME NEW w, NEW e, Good(w, e), NEW s, s \in Readables, NEW v, v \in Values
  PROVE  Goes(w, e, ErrorReadable(w, s, v), e)
<1>1. CASE Over(w.rs[s])
  BY <1>1, GoesNowhere DEF ErrorReadable
<1>2. CASE ~Over(w.rs[s])
  <2>1. PICK r : r = w.rs[s]
    OBVIOUS
  <2>2. PICK x : x = Reader(w, s, RErrored(r, v))
    OBVIOUS
  <2>3. LockStays(r, RErrored(r, v), Size(w), e)
    BY <2>1, ReadableAt, FieldsStay
  <2>4. Goes(w, e, x, e)
    BY <2>1, <2>2, <2>3, ReaderGoes
  <2>5. Good(x, e) /\ "rejected" \in Outcomes
    BY <2>4 DEF Goes, Outcomes
  <2>6. PICK y : y = AnswerWaiters(x, s, "rejected", v)
    OBVIOUS
  <2>7. Goes(x, e, y, e)
    BY <2>5, <2>6, WaitersGo
  <2>8. ErrorReadable(w, s, v) = y
    BY <1>2, <2>1, <2>2, <2>6 DEF ErrorReadable, Reader, RErrored
  <2> QED
    BY <2>4, <2>7, <2>8, GoesFurther
<1> QED
  BY <1>1, <1>2

\* One element less, and one more.
LEMMA SeqFirst ==
  ASSUME NEW S, NEW t, t \in Seq(S), t # << >>
  PROVE  RemoveAt(t, 1) \in Seq(S) /\ t[1] \in S /\ Tail(t) \in Seq(S) /\ Head(t) \in S
<1>1. Len(t) \in Nat /\ Len(t) >= 1 /\ 1 \in DOMAIN t
  BY EmptySeq, LenProperties
<1>2. RemoveAt(t, 1) \in Seq(S)
  BY <1>1 DEF RemoveAt
<1>3. t[1] \in S /\ Head(t) \in S /\ Tail(t) \in Seq(S)
  BY <1>1
<1> QED
  BY <1>2, <1>3
LEMMA SeqLast ==
  ASSUME NEW S, NEW t, t \in Seq(S), NEW a, a \in S
  PROVE  Append(t, a) \in Seq(S)
OBVIOUS

LEMMA EnqueueGoes ==
  ASSUME NEW w, NEW e, Good(w, e), NEW s, s \in Readables, NEW c, c \in Values
  PROVE  Goes(w, e, Enqueue(w, s, c), e)
<1>1. PICK r : r = w.rs[s]
  OBVIOUS
<1>2. /\ r \in ReadableShape(Size(w), e) /\ r.queue \in Seq(Int) /\ r.waiters \in Seq(Free(Size(w), e))
  BY <1>1, ReadableAt, ReadableParts
<1>3. CASE Over(r)
  BY <1>1, <1>3, GoesNowhere DEF Enqueue
<1>4. CASE ~Over(r) /\ r.waiters = << >>
  <2>1. PICK q : q = Append(r.queue, c)
    OBVIOUS
  <2>2. q \in Seq(Int)
    BY <1>2, <2>1, SeqLast DEF Values
  <2>3. LockStays(r, RQueue(r, q), Size(w), e)
    BY <1>2, <2>2, FieldsStay
  <2>4. Enqueue(w, s, c) = Reader(w, s, RQueue(r, q))
    BY <1>1, <1>4, <2>1 DEF Enqueue, Reader, RQueue
  <2> QED
    BY <1>1, <2>3, <2>4, ReaderGoes
<1>5. CASE ~Over(r) /\ r.waiters # << >>
  <2>1. PICK t : t = r.waiters
    OBVIOUS
  <2>2. PICK u : u = RemoveAt(t, 1)
    OBVIOUS
  <2>3. PICK p : p = t[1]
    OBVIOUS
  <2>4. u \in Seq(Free(Size(w), e)) /\ p \in Free(Size(w), e)
    <3>1. t \in Seq(Free(Size(w), e)) /\ t # << >>
      BY <1>2, <1>5, <2>1
    <3> QED
      BY <2>2, <2>3, <3>1, SeqFirst
  <2>5. LockStays(r, RWaiters(r, u), Size(w), e)
    BY <1>2, <2>4, FieldsStay
  <2>6. PICK x : x = Reader(w, s, RWaiters(r, u))
    OBVIOUS
  <2>7. Goes(w, e, x, e) /\ Size(x) = Size(w)
    BY <1>1, <2>5, <2>6, ReaderGoes
  <2>8. Good(x, e) /\ p \in Free(Size(x), e) /\ "fulfilled" \in Outcomes
    BY <2>4, <2>7 DEF Goes, Outcomes
  <2>9. PICK y : y = Settled(x, p, "fulfilled", c)
    OBVIOUS
  <2>10. Goes(x, e, y, e)
    BY <2>8, <2>9, SettledGoes
  <2>11. Enqueue(w, s, c) = y
    <3>1. ForWaiter(r.waiters) = 1
      BY DEF ForWaiter
    <3>2. x = [w EXCEPT !.rs[s].waiters = RemoveAt(@, 1)]
      BY <1>1, <2>1, <2>2, <2>6 DEF Reader, RWaiters
    <3> QED
      BY <1>1, <1>5, <2>1, <2>3, <2>9, <3>1, <3>2 DEF Enqueue
  <2> QED
    BY <2>7, <2>10, <2>11, GoesFurther
<1> QED
  BY <1>3, <1>4, <1>5


LEMMA CodeIs ==
  ASSUME NEW k, NEW e, NEW do, do \in Doings \ (Settling \cup SinkCalls \cup {"pulled", "pullFailed", "got", "none"}),
         NEW s, s \in Sides, NEW n, n \in Values
  PROVE  Code(do, s, n) \in Codes(k, e)
<1>1. PICK f : f = Code(do, s, n)
  OBVIOUS
<1>2. f \in [do : Doings, s : Sides, n : Int] /\ f.do = do
  BY <1>1 DEF Code, Values
<1>3. /\ f.do \notin Settling /\ f.do \notin SinkCalls /\ f.do \notin {"pulled", "pullFailed"}
      /\ f.do # "got" /\ f.do # "none"
  BY <1>2
<1>4. f.do \notin {"piped", "step", "pipeEnd"}
  BY <1>3 DEF Settling
<1> QED
  BY <1>1, <1>2, <1>3, <1>4 DEF Codes

LEMMA BareCodes ==
  ASSUME NEW k, NEW e
  PROVE  /\ Code("startFailed", "", 0) \in Codes(k, e) /\ Code("teeRead", "", 0) \in Codes(k, e)
         /\ Code("flushed", "", 0) \in Codes(k, e)
<1>1. {"startFailed", "teeRead", "flushed"} \subseteq Doings \ (Settling \cup SinkCalls \cup {"pulled", "pullFailed", "got", "none"})
  BY DEF Doings, Settling, SinkCalls
<1>2. "" \in Sides /\ 0 \in Values
  BY DEF Sides, Values
<1> QED
  BY <1>1, <1>2, CodeIs

LEMMA PullCodes ==
  ASSUME NEW k, NEW e, NEW s, s \in Readables
  PROVE  Code("pulled", s, 0) \in Codes(k, e) /\ Code("pullFailed", s, 0) \in Codes(k, e)
<1>1. ASSUME NEW do \in {"pulled", "pullFailed"} PROVE Code(do, s, 0) \in Codes(k, e)
  <2>1. PICK f : f = Code(do, s, 0)
    OBVIOUS
  <2>2. f \in [do : Doings, s : Sides, n : Int] /\ f.do = do /\ f.s = s
    <3>1. do \in Doings /\ s \in Sides
      BY DEF Doings, Sides
    <3> QED
      BY <2>1, <3>1 DEF Code
  <2>3. f.do \notin Settling /\ f.do \notin SinkCalls /\ f.do \notin {"piped", "step", "pipeEnd"} /\ f.do # "got"
    BY <2>2 DEF Settling, SinkCalls
  <2> QED
    BY <2>1, <2>2, <2>3 DEF Codes
<1> QED
  BY <1>1

LEMMA GotCode ==
  ASSUME NEW k, NEW e, NEW s, s \in {"src", "left", "right"}
  PROVE  Code("got", s, 0) \in Codes(k, e)
<1>1. PICK f : f = Code("got", s, 0)
  OBVIOUS
<1>2. f \in [do : Doings, s : Sides, n : Int] /\ f.do = "got" /\ f.s = s
  <2>1. "got" \in Doings /\ s \in Sides
    BY DEF Doings, Sides, Readables
  <2> QED
    BY <1>1, <2>1 DEF Code
<1>3. f.do \notin Settling /\ f.do \notin SinkCalls /\ f.do \notin {"piped", "step", "pipeEnd"} /\ f.do \notin {"pulled", "pullFailed"}
  BY <1>2 DEF Settling, SinkCalls
<1> QED
  BY <1>1, <1>2, <1>3 DEF Codes

LEMMA PipeCodes ==
  ASSUME NEW k, NEW e, EnvOK(k, e), NEW s, s \in e.pipes, NEW p, p \in Free(k, e),
         NEW do, do \in {"piped", "step", "pipeEnd"}
  PROVE  Code(do, s, p) \in Codes(k, e)
<1>1. PICK f : f = Code(do, s, p)
  OBVIOUS
<1>2. f \in [do : Doings, s : Sides, n : Int] /\ f.do = do /\ f.s = s /\ f.n = p
  <2>1. s \in Readables /\ p \in Int
    BY DEF EnvOK, Envs, Free
  <2> QED
    BY <1>1, <2>1 DEF Code, Doings, Settling, Sides
<1>3. f.do \notin SinkCalls /\ f.do # "got" /\ f.do \notin {"pulled", "pullFailed"}
  BY <1>2 DEF SinkCalls
<1> QED
  BY <1>1, <1>2, <1>3 DEF Codes

LEMMA InCodes ==
  ASSUME NEW k, NEW e, NEW n, n \in Values, NEW do, do \in SinkCalls
  PROVE  Code(do, "in", n) \in Codes(k, e)
<1>1. PICK f : f = Code(do, "in", n)
  OBVIOUS
<1>2. f \in [do : Doings, s : Sides, n : Int] /\ f.do = do /\ f.s = "in"
  BY <1>1 DEF Code, Doings, SinkCalls, Sides, Writables, Values
<1>3. /\ f.do \notin Settling /\ f.do \notin {"got", "none", "pulled", "pullFailed"}
      /\ f.do \notin {"piped", "step", "pipeEnd"}
  BY <1>2 DEF SinkCalls, Settling
<1> QED
  BY <1>1, <1>2, <1>3 DEF Codes

LEMMA CountCodes ==
  ASSUME NEW k, NEW e, NEW p, p \in Free(k, e)
  PROVE  Code("one", "", p) \in Codes(k, e) /\ Code("failed", "", p) \in Codes(k, e)
<1>1. ASSUME NEW do \in {"one", "failed"} PROVE Code(do, "", p) \in Codes(k, e)
  <2>1. PICK f : f = Code(do, "", p)
    OBVIOUS
  <2>2. f \in [do : Doings, s : Sides, n : Int] /\ f.do = do /\ f.n = p
    <3>1. do \in Doings /\ "" \in Sides /\ p \in Int
      BY DEF Doings, Settling, Sides, Free
    <3> QED
      BY <2>1, <3>1 DEF Code
  <2>3. f.do \notin SinkCalls /\ f.do \notin {"piped", "step", "pipeEnd"} /\ f.do # "got" /\ f.do \notin {"pulled", "pullFailed"}
    BY <2>2 DEF SinkCalls
  <2> QED
    BY <2>1, <2>2, <2>3 DEF Codes
<1> QED
  BY <1>1


LEMMA CancelGoes ==
  ASSUME NEW w, NEW e, Good(w, e), NEW s, s \in Readables
  PROVE  Goes(w, e, Cancel(w, s).w, e)
<1>1. PICK r : r = w.rs[s]
  OBVIOUS
<1>2. r \in ReadableShape(Size(w), e) /\ r.errored \in Values /\ Undefined \in Values
  BY <1>1, ReadableAt, ReadableParts DEF Values, Undefined
<1>3. CASE r.errored # Undefined
  <2>1. Cancel(w, s) = PromiseReject(w, r.errored)
    BY <1>1, <1>3 DEF Cancel
  <2> QED
    BY <1>2, <2>1, RejectGoes DEF Makes
<1>4. CASE r.errored = Undefined /\ r.closed
  <2>1. Cancel(w, s) = PromiseResolve(w, Value(Undefined))
    BY <1>1, <1>4 DEF Cancel
  <2> QED
    BY <1>2, <2>1, ResolvesValue DEF Makes
<1>5. CASE r.errored = Undefined /\ ~r.closed
  <2>1. PICK a : a = RClosed(r, TRUE)
    OBVIOUS
  <2>2. PICK b : b = RCancelled(a, TRUE)
    OBVIOUS
  <2>3. PICK c : c = RQueue(b, << >>)
    OBVIOUS
  <2>4. LockStays(r, c, Size(w), e)
    <3>1. LockStays(r, a, Size(w), e)
      BY <1>2, <2>1, FieldsStay
    <3>2. LockStays(a, b, Size(w), e)
      <4>1. a \in ReadableShape(Size(w), e)
        BY <3>1 DEF LockStays
      <4> QED
        BY <2>2, <4>1, FieldsStay
    <3>3. LockStays(b, c, Size(w), e)
      <4>1. b \in ReadableShape(Size(w), e) /\ << >> \in Seq(Int)
        BY <3>2 DEF LockStays
      <4> QED
        BY <2>3, <4>1, FieldsStay
    <3> QED
      BY <3>1, <3>2, <3>3 DEF LockStays
  <2>5. PICK x : x = Reader(w, s, c)
    OBVIOUS
  <2>6. Goes(w, e, x, e)
    BY <1>1, <2>4, <2>5, ReaderGoes
  <2>7. x = [w EXCEPT !.rs[s].closed = TRUE, !.rs[s].cancelled = TRUE, !.rs[s].queue = << >>]
    BY <1>1, <2>1, <2>2, <2>3, <2>5 DEF Reader, RClosed, RCancelled, RQueue
  <2>8. PICK y : y = AnswerWaiters(x, s, "fulfilled", Done)
    OBVIOUS
  <2>9. Good(x, e) /\ "fulfilled" \in Outcomes /\ Done \in Values
    BY <2>6 DEF Goes, Outcomes, Values, Done
  <2>10. Goes(x, e, y, e)
    BY <2>8, <2>9, WaitersGo
  <2>11. Goes(w, e, y, e) /\ Good(y, e)
    BY <2>6, <2>10, GoesFurther DEF Goes
  <2>12. PICK z : z = PromiseResolve(y, Value(Undefined))
    OBVIOUS
  <2>13. Goes(y, e, z.w, e) /\ z.p \in Free(Size(z.w), e)
    BY <1>2, <2>11, <2>12, ResolvesValue DEF Makes
  <2>14. Goes(w, e, z.w, e) /\ z.p \in All(z.w)
    BY <2>11, <2>13, GoesFurther, FreeIsMade
  <2>15. Makes(w, e, ThenOf(z, Noop, NoCode), e)
    BY <2>14, NoCodeIs, ThenOfGoes
  <2>16. Cancel(w, s) = ThenOf(z, Noop, NoCode)
    BY <1>1, <1>5, <2>7, <2>8, <2>12 DEF Cancel
  <2> QED
    BY <2>15, <2>16 DEF Makes
<1> QED
  BY <1>3, <1>4, <1>5

\* What a pull() answered.
LEMMA PullAnswersGo ==
  ASSUME NEW w, NEW e, NEW s, s \in Readables, NEW a, Good(w, e), Goes(w, e, a.w, e), Answer(a.a, a.w)
  PROVE  Goes(w, e, PullAnswers(s, a), e)
<1>1. PICK x : x = a.w
  OBVIOUS
<1>2. PICK b : b = a.a
  OBVIOUS
<1>3. Goes(w, e, x, e) /\ Good(x, e) /\ Answer(b, x)
  BY <1>1, <1>2 DEF Goes
<1>4. CASE b.how = "throw"
  <2>1. PICK r : r = x.rs[s]
    OBVIOUS
  <2>2. LockStays(r, RPulling(r, FALSE), Size(x), e)
    BY <1>3, <2>1, ReadableAt, FieldsStay
  <2>3. PICK y : y = Reader(x, s, RPulling(r, FALSE))
    OBVIOUS
  <2>4. Goes(x, e, y, e)
    BY <1>3, <2>1, <2>2, <2>3, ReaderGoes
  <2>5. Good(y, e) /\ b.v \in Values
    BY <1>3, <1>4, <2>4 DEF Goes, Answer
  <2>6. PICK v : v = b.v
    OBVIOUS
  <2>7. PICK z : z = ErrorReadable(y, s, v)
    OBVIOUS
  <2>8. Goes(y, e, z, e)
    BY <2>5, <2>6, <2>7, ErrorGoes
  <2>9. PullAnswers(s, a) = z
    <3>1. y = [x EXCEPT !.rs[s].pulling = FALSE]
      BY <2>1, <2>3 DEF Reader, RPulling
    <3> QED
      BY <1>1, <1>2, <1>4, <2>6, <2>7, <3>1 DEF PullAnswers
  <2>10. Goes(x, e, z, e)
    BY <1>3, <2>4, <2>8, GoesFurther
  <2> QED
    BY <1>3, <2>9, <2>10, GoesFurther
<1>5. CASE b.how # "throw"
  <2>1. PICK r : r = PromiseResolve(x, b)
    OBVIOUS
  <2>2. Goes(x, e, r.w, e) /\ r.p \in All(r.w)
    BY <1>3, <2>1, PromiseResolveGoes
  <2>3. PICK f : f = Code("pulled", s, 0)
    OBVIOUS
  <2>4. PICK g : g = Code("pullFailed", s, 0)
    OBVIOUS
  <2>5. f \in Codes(Size(x), e) /\ g \in Codes(Size(x), e)
    BY <2>3, <2>4, PullCodes
  <2>6. PICK t : t = ThenOf(r, f, g)
    OBVIOUS
  <2>7. Makes(x, e, t, e)
    BY <1>3, <2>2, <2>5, <2>6, ThenOfGoes
  <2>8. PullAnswers(s, a) = t.w
    BY <1>1, <1>2, <1>5, <2>1, <2>3, <2>4, <2>6 DEF PullAnswers
  <2>9. Goes(x, e, t.w, e)
    BY <2>7 DEF Makes
  <2> QED
    BY <1>3, <2>8, <2>9, GoesFurther
<1> QED
  BY <1>4, <1>5

\* read() makes a promise, or takes one that is settled.
LEMMA ReadBeginsGoes ==
  ASSUME NEW w, NEW e, Good(w, e), NEW s, s \in Readables
  PROVE  Makes(w, e, ReadBegins(w, s), e)
<1>1. PICK r : r = w.rs[s]
  OBVIOUS
<1>2. /\ r \in ReadableShape(Size(w), e) /\ r.errored \in Values /\ Undefined \in Values /\ Released \in Values
      /\ r.queue \in Seq(Int) /\ r.waiters \in Seq(Free(Size(w), e)) /\ Done \in Values
  BY <1>1, ReadableAt, ReadableParts DEF Values, Undefined, Released, Done
<1>3. r.locked => r.closedPromise \in Free(Size(w), e)
  BY <1>1, ReadableAt
<1>4. ASSUME NEW a PROVE Ends(a).w = a.w /\ Ends(a).p = a.p /\ AsksForMore(a).w = a.w /\ AsksForMore(a).p = a.p
  BY DEF Ends, AsksForMore
<1>5. CASE ~r.locked
  <2>1. ReadBegins(w, s) = Ends(PromiseReject(w, Released))
    BY <1>1, <1>5 DEF ReadBegins
  <2>2. Makes(w, e, PromiseReject(w, Released), e)
    BY <1>2, RejectGoes
  <2> QED
    BY <1>4, <2>1, <2>2 DEF Makes
<1>6. CASE r.locked /\ r.errored # Undefined
  <2>1. PICK p : p = r.closedPromise
    OBVIOUS
  <2>2. PICK v : v = r.errored
    OBVIOUS
  <2>3. p \in Free(Size(w), e) /\ v \in Values /\ "rejected" \in Outcomes
    BY <1>2, <1>3, <1>6, <2>1, <2>2 DEF Outcomes
  <2>4. PICK x : x = Settled(w, p, "rejected", v)
    OBVIOUS
  <2>5. Goes(w, e, x, e) /\ Good(x, e)
    BY <2>3, <2>4, SettledGoes DEF Goes
  <2>6. PICK z : z = PromiseReject(x, v)
    OBVIOUS
  <2>7. Goes(x, e, z.w, e) /\ z.p \in Free(Size(z.w), e)
    BY <2>3, <2>5, <2>6, RejectGoes DEF Makes
  <2>8. ReadBegins(w, s) = Ends(z)
    BY <1>1, <1>6, <2>1, <2>2, <2>4, <2>6 DEF ReadBegins
  <2>9. Goes(w, e, z.w, e)
    BY <2>5, <2>7, GoesFurther
  <2> QED
    BY <1>4, <2>7, <2>8, <2>9 DEF Makes
<1>7. CASE r.locked /\ r.errored = Undefined /\ EndsRead(r)
  <2>1. PICK p : p = r.closedPromise
    OBVIOUS
  <2>3. p \in Free(Size(w), e) /\ "fulfilled" \in Outcomes
    BY <1>2, <1>3, <1>7, <2>1 DEF Outcomes
  <2>4. PICK x : x = Settled(w, p, "fulfilled", Undefined)
    OBVIOUS
  <2>5. Goes(w, e, x, e) /\ Good(x, e)
    BY <1>2, <2>3, <2>4, SettledGoes DEF Goes
  <2>6. PICK z : z = PromiseResolve(x, Value(Done))
    OBVIOUS
  <2>7. Goes(x, e, z.w, e) /\ z.p \in Free(Size(z.w), e)
    BY <1>2, <2>5, <2>6, ResolvesValue DEF Makes
  <2>8. ReadBegins(w, s) = Ends(z)
    BY <1>1, <1>7, <2>1, <2>4, <2>6 DEF ReadBegins
  <2>9. Goes(w, e, z.w, e)
    BY <2>5, <2>7, GoesFurther
  <2> QED
    BY <1>4, <2>7, <2>8, <2>9 DEF Makes
<1>8. CASE r.locked /\ r.errored = Undefined /\ ~EndsRead(r) /\ r.queue # << >>
  <2>1. PICK q : q = Tail(r.queue)
    OBVIOUS
  <2>2. PICK v : v = Head(r.queue)
    OBVIOUS
  <2>3. q \in Seq(Int) /\ v \in Values
    BY <1>2, <1>8, <2>1, <2>2, SeqFirst DEF Values
  <2>4. PICK x : x = Reader(w, s, RQueue(r, q))
    OBVIOUS
  <2>5. Goes(w, e, x, e) /\ Good(x, e)
    <3>1. LockStays(r, RQueue(r, q), Size(w), e)
      BY <1>2, <2>3, FieldsStay
    <3> QED
      BY <1>1, <2>4, <3>1, ReaderGoes DEF Goes
  <2>6. PICK z : z = PromiseResolve(x, Value(v))
    OBVIOUS
  <2>7. Goes(x, e, z.w, e) /\ z.p \in Free(Size(z.w), e)
    BY <2>3, <2>5, <2>6, ResolvesValue DEF Makes
  <2>8. ReadBegins(w, s) = AsksForMore(z)
    <3>1. x = [w EXCEPT !.rs[s].queue = Tail(@)]
      BY <1>1, <2>1, <2>4 DEF Reader, RQueue
    <3> QED
      BY <1>1, <1>8, <2>2, <2>6, <3>1 DEF ReadBegins
  <2>9. Goes(w, e, z.w, e)
    BY <2>5, <2>7, GoesFurther
  <2> QED
    BY <1>4, <2>7, <2>8, <2>9 DEF Makes
<1>9. CASE r.locked /\ r.errored = Undefined /\ ~EndsRead(r) /\ r.queue = << >>
  <2>1. PICK m : m = Made(w)
    OBVIOUS
  <2>2. PICK y : y = m.w
    OBVIOUS
  <2>3. PICK p : p = m.p
    OBVIOUS
  <2>4. Goes(w, e, y, e) /\ p \in Free(Size(y), e) /\ Rest(y) = Rest(w) /\ Good(y, e)
    BY <2>1, <2>2, <2>3, MadeGoes DEF Makes, Goes
  <2>5. PICK h : h = y.rs[s]
    OBVIOUS
  <2>6. h \in ReadableShape(Size(y), e) /\ h.waiters \in Seq(Free(Size(y), e))
    BY <2>4, <2>5, ReadableAt, ReadableParts
  <2>7. PICK t : t = Append(h.waiters, p)
    OBVIOUS
  <2>8. t \in Seq(Free(Size(y), e))
    BY <2>4, <2>6, <2>7, SeqLast
  <2>9. LockStays(h, RWaiters(h, t), Size(y), e)
    BY <2>6, <2>8, FieldsStay
  <2>10. PICK x : x = Reader(y, s, RWaiters(h, t))
    OBVIOUS
  <2>11. Goes(y, e, x, e) /\ Size(x) = Size(y)
    BY <2>4, <2>5, <2>9, <2>10, ReaderGoes
  <2>12. Goes(w, e, x, e) /\ p \in Free(Size(x), e)
    BY <2>4, <2>11, GoesFurther
  <2>13. PICK z : z = [w |-> x, p |-> p]
    OBVIOUS
  <2>14. z.w = x /\ z.p = p
    BY <2>13
  <2>15. ReadBegins(w, s) = AsksForMore(z)
    <3>1. x = [y EXCEPT !.rs[s].waiters = Append(@, m.p)]
      BY <2>3, <2>5, <2>7, <2>10 DEF Reader, RWaiters
    <3>2. z = [w |-> [m.w EXCEPT !.rs[s].waiters = Append(@, m.p)], p |-> m.p]
      <4>1. x = [m.w EXCEPT !.rs[s].waiters = Append(@, m.p)]
        BY <2>2, <3>1, Zenon
      <4>2. z = [w |-> x, p |-> m.p]
        BY <2>3, <2>13
      <4> QED
        BY <4>1, <4>2, Zenon
    <3> QED
      BY <1>1, <1>9, <2>1, <3>2 DEF ReadBegins
  <2> QED
    BY <1>4, <2>12, <2>14, <2>15 DEF Makes
<1> QED
  BY <1>5, <1>6, <1>7, <1>8, <1>9


LEMMA ReadBeginsIs ==
  ASSUME NEW w, NEW s
  PROVE  DOMAIN ReadBegins(w, s) = {"w", "p", "pulls"}
<1>1. ASSUME NEW a PROVE DOMAIN Ends(a) = {"w", "p", "pulls"} /\ DOMAIN AsksForMore(a) = {"w", "p", "pulls"}
  BY DEF Ends, AsksForMore
<1>2. \E a : ReadBegins(w, s) = Ends(a) \/ ReadBegins(w, s) = AsksForMore(a)
  BY DEF ReadBegins
<1> QED
  BY <1>1, <1>2

RLocked(r, n) == [r EXCEPT !.locked = TRUE, !.closedPromise = n]
RReleased(r) == [r EXCEPT !.locked = FALSE]
LEMMA LockedIs ==
  ASSUME NEW k, NEW e, NEW r, r \in ReadableShape(k, e), NEW n, n \in Free(k, e)
  PROVE  RLocked(r, n) \in ReadableShape(k, e) /\ RLocked(r, n).closedPromise = n
<1>1. n \in Nat
  BY DEF Free
<1> QED
  BY <1>1 DEF RLocked, ReadableShape

LEMMA GetReaderGoes ==
  ASSUME NEW w, NEW e, Good(w, e), NEW s, s \in Readables
  PROVE  Goes(w, e, GetReader(w, s), e)
<1>1. PICK m : m = Made(w)
  OBVIOUS
<1>2. PICK y : y = m.w
  OBVIOUS
<1>3. PICK p : p = m.p
  OBVIOUS
<1>4. Goes(w, e, y, e) /\ p \in Free(Size(y), e) /\ Good(y, e)
  BY <1>1, <1>2, <1>3, MadeGoes DEF Makes, Goes
<1>5. PICK z : z = Then(y, p, NoCode, Noop).w
  OBVIOUS
<1>6. Goes(y, e, z, e)
  BY <1>4, <1>5, NoCodeIs, FreeIsMade, ThenGoes DEF Makes
<1>7. Good(z, e) /\ p \in Free(Size(z), e)
  BY <1>4, <1>6 DEF Goes
<1>8. PICK r : r = z.rs[s]
  OBVIOUS
<1>9. PICK h : h = RLocked(r, p)
  OBVIOUS
<1>10. h \in ReadableShape(Size(z), e) /\ h.closedPromise \in Free(Size(z), e)
  <2>1. r \in ReadableShape(Size(z), e)
    BY <1>7, <1>8, ReadableAt
  <2>2. h \in ReadableShape(Size(z), e)
    BY <1>7, <1>9, <2>1, LockedIs
  <2>3. h.closedPromise = p
    BY <1>7, <1>9, <2>1, LockedIs
  <2> QED
    BY <1>7, <2>2, <2>3
<1>11. PICK x : x = Reader(z, s, h)
  OBVIOUS
<1>12. Goes(z, e, x, e)
  BY <1>7, <1>10, <1>11, ReadableGoes
<1>13. GetReader(w, s) = x
  BY <1>1, <1>2, <1>3, <1>5, <1>8, <1>9, <1>11 DEF GetReader, Catch, Reader, RLocked
<1>14. Goes(w, e, z, e)
  BY <1>4, <1>6, GoesFurther
<1> QED
  BY <1>12, <1>13, <1>14, GoesFurther

LEMMA ReleaseGoes ==
  ASSUME NEW w, NEW e, Good(w, e), NEW s, s \in Readables
  PROVE  Goes(w, e, ReleaseReader(w, s), e)
<1>1. PICK r : r = w.rs[s]
  OBVIOUS
<1>2. PICK h : h = RReleased(r)
  OBVIOUS
<1>3. h \in ReadableShape(Size(w), e) /\ ~h.locked
  BY <1>1, <1>2, ReadableAt DEF RReleased, ReadableShape
<1>4. PICK x : x = Reader(w, s, h)
  OBVIOUS
<1>5. Goes(w, e, x, e)
  BY <1>3, <1>4, ReadableGoes
<1>6. ReleaseReader(w, s) = x
  BY <1>1, <1>2, <1>4 DEF ReleaseReader, Reader, RReleased
<1> QED
  BY <1>5, <1>6

-----------------------------------------------------------------------------
(* The source *)

LEMMA GivesGoes ==
  ASSUME NEW w, NEW e, Good(w, e)
  PROVE  Goes(w, e, Gives(w), e)
<1>1. CASE Over(w.rs["src"])
  BY <1>1, GoesNowhere DEF Gives
<1>2. CASE ~Over(w.rs["src"])
  <2>1. PICK n : n = w.given + 1
    OBVIOUS
  <2>2. n \in Nat /\ n \in Values
    BY <2>1, ScriptIs DEF Values
  <2>3. PICK x : x = WithGiven(w, n)
    OBVIOUS
  <2>4. Goes(w, e, x, e) /\ Good(x, e)
    BY <2>2, <2>3, GivenGoes DEF Goes
  <2>5. PICK y : y = Enqueue(x, "src", n)
    OBVIOUS
  <2>6. "src" \in Readables
    BY DEF Readables
  <2>7. Goes(x, e, y, e)
    BY <2>2, <2>4, <2>5, <2>6, EnqueueGoes
  <2>8. Gives(w) = y
    <3>1. x = [w EXCEPT !.given = @ + 1]
      BY <2>1, <2>3 DEF WithGiven
    <3> QED
      BY <1>2, <2>1, <2>5, <3>1 DEF Gives
  <2> QED
    BY <2>4, <2>7, <2>8, GoesFurther
<1> QED
  BY <1>1, <1>2

LEMMA ClosesSourceGoes ==
  ASSUME NEW w, NEW e, Good(w, e)
  PROVE  Goes(w, e, ClosesSource(w), e)
<1>1. PICK o : o = (w.over \/ ~Over(w.rs["src"]))
  OBVIOUS
<1>2. o \in BOOLEAN
  BY <1>1
<1>3. PICK x : x = WithOver(w, o)
  OBVIOUS
<1>4. Goes(w, e, x, e) /\ Good(x, e)
  BY <1>2, <1>3, OverGoes DEF Goes
<1>5. PICK y : y = CloseReadable(x, "src")
  OBVIOUS
<1>6. "src" \in Readables
  BY DEF Readables
<1>7. Goes(x, e, y, e)
  BY <1>4, <1>5, <1>6, CloseGoes
<1>8. ClosesSource(w) = y
  <2>1. x = [w EXCEPT !.over = @ \/ ~Over(w.rs["src"])]
    BY <1>1, <1>3 DEF WithOver
  <2> QED
    BY <1>5, <2>1 DEF ClosesSource
<1> QED
  BY <1>4, <1>7, <1>8, GoesFurther

\* A call that returns [w, a].
Gets(w, e, r, f) == Goes(w, e, r.w, f) /\ Answer(r.a, r.w)
LEMMA ReturnsGets ==
  ASSUME NEW w, NEW e, NEW x, NEW f, Goes(w, e, x, f)
  PROVE  Gets(w, e, Returns(x), f)
<1>1. Undefined \in Values
  BY DEF Undefined, Values
<1>2. Returns(x).w = x /\ Returns(x).a = Value(Undefined)
  BY DEF Returns
<1> QED
  BY <1>1, <1>2, AnswerIs DEF Gets

LEMMA GivesNextGets ==
  ASSUME NEW w, NEW e, Good(w, e)
  PROVE  Gets(w, e, GivesNext(w), e)
<1>1. PICK x : x = Gives(w)
  OBVIOUS
<1>2. Goes(w, e, x, e) /\ Good(x, e)
  BY <1>1, GivesGoes DEF Goes
<1>3. Goes(w, e, ClosesSource(x), e) /\ Goes(w, e, ClosesSource(w), e)
  <2>1. Goes(x, e, ClosesSource(x), e)
    BY <1>2, ClosesSourceGoes
  <2> QED
    BY <1>2, <2>1, ClosesSourceGoes, GoesFurther
<1>4. CASE w.given < Chunks
  <2>1. \/ GivesNext(w) = Returns(x)
        \/ GivesNext(w) = Returns(ClosesSource(x))
    BY <1>1, <1>4 DEF GivesNext
  <2> QED
    BY <1>2, <1>3, <2>1, ReturnsGets
<1>5. CASE ~(w.given < Chunks) /\ w.plan.fails
  <2>1. GivesNext(w) = [w |-> w, a |-> Throws(Boom)]
    BY <1>5 DEF GivesNext
  <2>2. Boom \in Values
    BY DEF Boom, Values
  <2>3. Answer(Throws(Boom), w) /\ Goes(w, e, w, e)
    BY <2>2, AnswerIs, GoesNowhere
  <2> QED
    BY <2>1, <2>3 DEF Gets
<1>6. CASE ~(w.given < Chunks) /\ ~w.plan.fails
  <2>1. GivesNext(w) = Returns(ClosesSource(w))
    BY <1>6 DEF GivesNext
  <2> QED
    BY <1>3, <2>1, ReturnsGets
<1> QED
  BY <1>4, <1>5, <1>6

LEMMA OwesGets ==
  ASSUME NEW w, NEW e, Good(w, e), NEW who, who \in Asks \ SinkAsks, NEW n, n \in Values
  PROVE  Gets(w, e, Owes(w, who, n), e)
<1>1. PICK r : r = Owes(w, who, n)
  OBVIOUS
<1>2. Goes(w, e, r.w, e) /\ r.a.how = "promise" /\ r.a.v \in Free(Size(r.w), e)
  BY <1>1, OwesGoes
<1>3. r.a.v \in All(r.w)
  BY <1>2, FreeIsMade
<1> QED
  BY <1>1, <1>2, <1>3 DEF Gets, Answer

LEMMA SourcePullGets ==
  ASSUME NEW w, NEW e, Good(w, e)
  PROVE  Gets(w, e, SourcePull(w), e)
<1>1. "source" \in Asks \ SinkAsks /\ 0 \in Values
  BY DEF Asks, SinkAsks, Values
<1> QED
  BY <1>1, GivesNextGets, OwesGets DEF SourcePull

LEMMA PullingGoes ==
  ASSUME NEW w, NEW e, Good(w, e), NEW s, s \in Readables
  PROVE  Goes(w, e, Pulling(w, s), e)
<1>1. PICK r : r = w.rs[s]
  OBVIOUS
<1>2. PICK h : h = RPulling(r, TRUE)
  OBVIOUS
<1>3. LockStays(r, h, Size(w), e)
  BY <1>1, <1>2, ReadableAt, FieldsStay
<1>4. PICK x : x = Reader(w, s, h)
  OBVIOUS
<1>5. Goes(w, e, x, e)
  BY <1>1, <1>3, <1>4, ReaderGoes
<1>6. Pulling(w, s) = x
  BY <1>1, <1>2, <1>4 DEF Pulling, Reader, RPulling
<1> QED
  BY <1>5, <1>6


LEMMA PullSourceGoes ==
  ASSUME NEW w, NEW e, Good(w, e)
  PROVE  Goes(w, e, PullSource(w), e)
<1>1. CASE ~MayPull(w, "src")
  BY <1>1, GoesNowhere DEF PullSource
<1>2. CASE MayPull(w, "src")
  <2>1. PICK x : x = Pulling(w, "src")
    OBVIOUS
  <2>2. "src" \in Readables
    BY DEF Readables
  <2>3. Goes(w, e, x, e) /\ Good(x, e)
    BY <2>1, <2>2, PullingGoes DEF Goes
  <2>4. PICK a : a = SourcePull(x)
    OBVIOUS
  <2>5. Goes(x, e, a.w, e) /\ Answer(a.a, a.w)
    BY <2>3, <2>4, SourcePullGets DEF Gets
  <2>6. Goes(w, e, a.w, e)
    BY <2>3, <2>5, GoesFurther
  <2>7. Goes(w, e, PullAnswers("src", a), e)
    BY <2>2, <2>5, <2>6, PullAnswersGo
  <2>8. PullSource(w) = PullAnswers("src", a)
    BY <1>2, <2>1, <2>4 DEF PullSource
  <2> QED
    BY <2>7, <2>8
<1> QED
  BY <1>1, <1>2

LEMMA ReadSourceMakes ==
  ASSUME NEW w, NEW e, Good(w, e), NEW r, Makes(w, e, r, e), DOMAIN r = {"w", "p", "pulls"}
  PROVE  Makes(w, e, ReadSource(r), e)
<1>1. CASE ~r.pulls
  BY <1>1 DEF ReadSource
<1>2. CASE r.pulls
  <2>1. PICK y : y = r.w
    OBVIOUS
  <2>2. Goes(w, e, y, e) /\ Good(y, e) /\ r.p \in Free(Size(y), e)
    BY <2>1 DEF Makes, Goes
  <2>3. PICK x : x = PullSource(y)
    OBVIOUS
  <2>4. Goes(y, e, x, e)
    BY <2>2, <2>3, PullSourceGoes
  <2>5. Goes(w, e, x, e) /\ r.p \in Free(Size(x), e)
    <3>1. Free(Size(y), e) \subseteq Free(Size(x), e)
      BY <2>4 DEF Goes
    <3> QED
      BY <2>2, <2>4, <3>1, GoesFurther
  <2>6. ReadSource(r).w = x /\ ReadSource(r).p = r.p
    <3>1. ReadSource(r) = [r EXCEPT !.w = x]
      BY <1>2, <2>1, <2>3 DEF ReadSource
    <3> QED
      BY <3>1
  <2> QED
    BY <2>5, <2>6 DEF Makes
<1> QED
  BY <1>1, <1>2

LEMMA TeePullGets ==
  ASSUME NEW w, NEW e, Good(w, e)
  PROVE  Gets(w, e, TeePull(w), e)
<1>1. PICK b : b = ReadBegins(w, "src")
  OBVIOUS
<1>2. "src" \in Readables
  BY DEF Readables
<1>3. Makes(w, e, b, e) /\ DOMAIN b = {"w", "p", "pulls"}
  BY <1>1, <1>2, ReadBeginsGoes, ReadBeginsIs
<1>4. PICK r : r = ReadSource(b)
  OBVIOUS
<1>5. Makes(w, e, r, e)
  BY <1>3, <1>4, ReadSourceMakes
<1>6. Goes(w, e, r.w, e) /\ r.p \in All(r.w)
  BY <1>5, FreeIsMade DEF Makes
<1>7. PICK f : f = Code("teeRead", "", 0)
  OBVIOUS
<1>8. f \in Codes(Size(w), e) /\ NoCode \in Codes(Size(w), e)
  BY <1>7, BareCodes, NoCodeIs
<1>9. PICK t : t = ThenOf(r, f, NoCode)
  OBVIOUS
<1>10. Goes(w, e, t.w, e) /\ t.p \in Free(Size(t.w), e)
  BY <1>6, <1>8, <1>9, ThenOfGoes DEF Makes
<1>11. t.p \in All(t.w)
  BY <1>10, FreeIsMade
<1>12. TeePull(w).w = t.w /\ TeePull(w).a = Promised(t.p)
  BY <1>1, <1>4, <1>7, <1>9 DEF TeePull, Answered
<1> QED
  BY <1>10, <1>11, <1>12, PromiseAnswerIs DEF Gets

LEMMA PullIfNeededGoes ==
  ASSUME NEW w, NEW e, Good(w, e), NEW s, s \in Readables
  PROVE  Goes(w, e, PullIfNeeded(w, s), e)
<1>1. CASE s = "src"
  BY <1>1, PullSourceGoes DEF PullIfNeeded
<1>2. CASE s # "src" /\ ~MayPull(w, s)
  BY <1>2, GoesNowhere DEF PullIfNeeded
<1>3. CASE s # "src" /\ MayPull(w, s)
  <2>1. PICK x : x = Pulling(w, s)
    OBVIOUS
  <2>3. Goes(w, e, x, e) /\ Good(x, e)
    BY <2>1, PullingGoes DEF Goes
  <2>4. PICK a : a = TeePull(x)
    OBVIOUS
  <2>5. Goes(x, e, a.w, e) /\ Answer(a.a, a.w)
    BY <2>3, <2>4, TeePullGets DEF Gets
  <2>6. Goes(w, e, a.w, e)
    BY <2>3, <2>5, GoesFurther
  <2>7. Goes(w, e, PullAnswers(s, a), e)
    BY <2>5, <2>6, PullAnswersGo
  <2>8. PullIfNeeded(w, s) = PullAnswers(s, a)
    BY <1>3, <2>1, <2>4 DEF PullIfNeeded
  <2> QED
    BY <2>7, <2>8
<1> QED
  BY <1>1, <1>2, <1>3

LEMMA ReadMakes ==
  ASSUME NEW w, NEW e, Good(w, e), NEW s, s \in Readables
  PROVE  Makes(w, e, Read(w, s), e)
<1>1. PICK r : r = ReadBegins(w, s)
  OBVIOUS
<1>2. Makes(w, e, r, e) /\ DOMAIN r = {"w", "p", "pulls"}
  BY <1>1, ReadBeginsGoes, ReadBeginsIs
<1>3. CASE ~r.pulls
  BY <1>1, <1>2, <1>3 DEF Read, ReadAfter
<1>4. CASE r.pulls
  <2>1. PICK y : y = r.w
    OBVIOUS
  <2>2. Goes(w, e, y, e) /\ Good(y, e) /\ r.p \in Free(Size(y), e)
    BY <1>2, <2>1 DEF Makes, Goes
  <2>3. PICK x : x = PullIfNeeded(y, s)
    OBVIOUS
  <2>4. Goes(y, e, x, e)
    BY <2>2, <2>3, PullIfNeededGoes
  <2>5. Goes(w, e, x, e) /\ r.p \in Free(Size(x), e)
    <3>1. Free(Size(y), e) \subseteq Free(Size(x), e)
      BY <2>4 DEF Goes
    <3> QED
      BY <2>2, <2>4, <3>1, GoesFurther
  <2>6. Read(w, s).w = x /\ Read(w, s).p = r.p
    <3>1. Read(w, s) = [r EXCEPT !.w = x]
      BY <1>1, <1>4, <2>1, <2>3 DEF Read, ReadAfter
    <3> QED
      BY <1>2, <3>1
  <2> QED
    BY <2>5, <2>6 DEF Makes
<1> QED
  BY <1>3, <1>4

\* What is done with what read() returned.
LEMMA ReadThenGoes ==
  ASSUME NEW w, NEW e, Good(w, e), NEW s, s \in Readables,
         NEW f, f \in Codes(Size(w), e), NEW g, g \in Codes(Size(w), e)
  PROVE  Goes(w, e, ThenOf(Read(w, s), f, g).w, e)
<1>1. PICK r : r = Read(w, s)
  OBVIOUS
<1>2. Goes(w, e, r.w, e) /\ r.p \in Free(Size(r.w), e)
  BY <1>1, ReadMakes DEF Makes
<1>3. r.p \in All(r.w)
  BY <1>2, FreeIsMade
<1>4. Makes(w, e, ThenOf(r, f, g), e)
  BY <1>2, <1>3, ThenOfGoes
<1> QED
  BY <1>1, <1>4 DEF Makes

LEMMA LoopGoes ==
  ASSUME NEW w, NEW e, Good(w, e), NEW s, s \in {"src", "left", "right"}
  PROVE  Goes(w, e, Loop(w, s), e)
<1>1. PICK f : f = Code("got", s, 0)
  OBVIOUS
<1>2. f \in Codes(Size(w), e) /\ Noop \in Codes(Size(w), e) /\ s \in Readables
  BY <1>1, GotCode, NoCodeIs DEF Readables
<1>3. Loop(w, s) = ThenOf(Read(w, s), f, Noop).w
  BY <1>1 DEF Loop
<1> QED
  BY <1>2, <1>3, ReadThenGoes

LEMMA PipeStepGoes ==
  ASSUME NEW w, NEW e, Good(w, e), NEW s, s \in e.pipes, NEW p, p \in Free(Size(w), e)
  PROVE  Goes(w, e, PipeStep(w, s, p), e)
<1>1. PICK f : f = Code("piped", s, p)
  OBVIOUS
<1>2. PICK g : g = Into("reject", p)
  OBVIOUS
<1>3. EnvOK(Size(w), e) /\ s \in Readables
  BY DEF Good, EnvOK, Envs
<1>4. f \in Codes(Size(w), e) /\ g \in Codes(Size(w), e)
  BY <1>1, <1>2, <1>3, PipeCodes, IntoIs
<1>5. PipeStep(w, s, p) = ThenOf(Read(w, s), f, g).w
  BY <1>1, <1>2 DEF PipeStep
<1> QED
  BY <1>3, <1>4, <1>5, ReadThenGoes


LEMMA GivesAllGoes ==
  ASSUME NEW w, NEW e, Good(w, e)
  PROVE  Goes(w, e, GivesAll(w), e)
<1>1. PICK s : s = [i \in 1 .. Chunks |-> i]
  OBVIOUS
<1>2. PICK n : n = Chunks
  OBVIOUS
<1>3. n \in Nat /\ Len(s) = n
  BY <1>1, <1>2, WebStreamsAssumption
<1>4. PICK k : k = GivesOn(w, s, n)
  OBVIOUS
<1>5. k[0] = w /\ \A i \in 1 .. n : k[i] = Gives(k[i - 1])
  BY <1>3, <1>4, GivesOnIs
<1>6. GivesAll(w) = k[n]
  <2>1. GivesAll(w) = GivesOn(w, s, Len(s))[Len(s)]
    BY <1>1 DEF GivesAll, InOrder, GivesOn
  <2> QED
    BY <1>3, <1>4, <2>1
<1> DEFINE G == {i \in 0 .. n : Goes(w, e, k[i], e)}
<1>7. 0 \in G
  <2>1. 0 \in 0 .. n
    BY <1>3
  <2> QED
    BY <1>5, <2>1, GoesNowhere
<1>8. ASSUME NEW i \in 1 .. n, i - 1 \in G PROVE i \in G
  <2>1. PICK x : x = k[i - 1]
    OBVIOUS
  <2>2. Goes(w, e, x, e) /\ Good(x, e)
    BY <1>8, <2>1 DEF Goes
  <2>3. PICK y : y = Gives(x)
    OBVIOUS
  <2>4. Goes(x, e, y, e)
    BY <2>2, <2>3, GivesGoes
  <2>5. Goes(w, e, y, e)
    BY <2>2, <2>4, GoesFurther
  <2>6. k[i] = y /\ i \in 0 .. n
    BY <1>3, <1>5, <2>1, <2>3
  <2> QED
    BY <2>5, <2>6
<1>9. n \in G
  <2> HIDE DEF G
  <2> QED
    BY <1>3, <1>7, <1>8, UpTo
<1> QED
  BY <1>6, <1>9

LEMMA StartSourceGoes ==
  ASSUME NEW w, NEW e, Good(w, e)
  PROVE  Goes(w, e, StartSource(w), e)
<1>1. "start" \in Asks \ SinkAsks /\ 0 \in Values /\ "src" \in Readables /\ Boom \in Values
  BY DEF Asks, SinkAsks, Values, Readables, Boom
<1>2. CASE w.plan.source = "push"
  <2>1. PICK r : r = Owes(w, "start", 0)
    OBVIOUS
  <2>2. Goes(w, e, r.w, e) /\ r.a.v \in Free(Size(r.w), e)
    BY <1>1, <2>1, OwesGoes
  <2>3. PICK x : x = r.w
    OBVIOUS
  <2>4. PICK p : p = r.a.v
    OBVIOUS
  <2>5. Goes(w, e, x, e) /\ Good(x, e) /\ p \in All(x)
    BY <2>2, <2>3, <2>4, FreeIsMade DEF Goes
  <2>6. PICK f : f = Code("startFailed", "", 0)
    OBVIOUS
  <2>7. f \in Codes(Size(x), e) /\ NoCode \in Codes(Size(x), e)
    BY <2>6, BareCodes, NoCodeIs
  <2>8. Makes(x, e, Then(x, p, NoCode, f), e)
    BY <2>5, <2>7, ThenGoes
  <2>9. StartSource(w) = Then(x, p, NoCode, f).w
    BY <1>2, <2>1, <2>3, <2>4, <2>6 DEF StartSource, Catch
  <2>10. Goes(x, e, Then(x, p, NoCode, f).w, e)
    BY <2>8 DEF Makes
  <2> QED
    BY <2>5, <2>9, <2>10, GoesFurther
<1>3. CASE w.plan.source = "start"
  <2>1. PICK x : x = GivesAll(w)
    OBVIOUS
  <2>2. Goes(w, e, x, e) /\ Good(x, e)
    BY <2>1, GivesAllGoes DEF Goes
  <2>3. Goes(x, e, ErrorReadable(x, "src", Boom), e) /\ Goes(x, e, ClosesSource(x), e)
    BY <1>1, <2>2, ErrorGoes, ClosesSourceGoes
  <2>4. \/ StartSource(w) = ErrorReadable(x, "src", Boom)
        \/ StartSource(w) = ClosesSource(x)
    BY <1>3, <2>1 DEF StartSource
  <2> QED
    BY <2>2, <2>3, <2>4, GoesFurther
<1>4. CASE w.plan.source \notin {"push", "start"}
  <2>1. StartSource(w) = w
    BY <1>4 DEF StartSource
  <2> QED
    BY <2>1, GoesNowhere
<1> QED
  BY <1>2, <1>3, <1>4

-----------------------------------------------------------------------------
(* The combinators *)

LEMMA TalliedMakes ==
  ASSUME NEW w, NEW e, Good(w, e), NEW n, n \in Values
  PROVE  Makes(w, e, Tallied(w, n), e) /\ DOMAIN Tallied(w, n) = {"w", "p"}
<1>1. PICK m : m = Made(w)
  OBVIOUS
<1>2. PICK y : y = m.w
  OBVIOUS
<1>3. PICK p : p = m.p
  OBVIOUS
<1>4. Goes(w, e, y, e) /\ p \in Free(Size(y), e) /\ Good(y, e)
  BY <1>1, <1>2, <1>3, MadeGoes DEF Makes, Goes
<1>5. PICK x : x = Tally(y, p, n)
  OBVIOUS
<1>6. Goes(y, e, x, e) /\ Size(x) = Size(y)
  BY <1>4, <1>5, FreeIsMade, TallyGoes
<1>7. Goes(w, e, x, e) /\ p \in Free(Size(x), e)
  BY <1>4, <1>6, GoesFurther
<1>8. DOMAIN m = {"w", "p"}
  BY <1>1 DEF Made
<1>9. Tallied(w, n) = [m EXCEPT !.w = x]
  BY <1>1, <1>2, <1>3, <1>5 DEF Tallied, Tally
<1>10. Tallied(w, n).w = x /\ Tallied(w, n).p = p /\ DOMAIN Tallied(w, n) = {"w", "p"}
  BY <1>3, <1>8, <1>9
<1> QED
  BY <1>7, <1>10 DEF Makes

LEMMA SubscribesGo ==
  ASSUME NEW w, NEW e, Good(w, e), NEW ps, ps \in Seq(All(w)),
         NEW f, f \in Codes(Size(w), e), NEW g, g \in Codes(Size(w), e)
  PROVE  Goes(w, e, SubscribedAll(w, ps, f, g), e)
<1>1. PICK n : n = Len(ps)
  OBVIOUS
<1>2. n \in Nat /\ \A i \in 1 .. n : ps[i] \in All(w)
  BY <1>1, ElementOfSeq, LenProperties
<1>3. PICK k : k = Subscribes(w, ps, f, g, n)
  OBVIOUS
<1>4. k[0] = w /\ \A i \in 1 .. n : k[i] = Then(k[i - 1], ps[i], f, g).w
  BY <1>2, <1>3, SubscribesIs
<1>5. SubscribedAll(w, ps, f, g) = k[n]
  BY <1>1, <1>3 DEF SubscribedAll, InOrder, Subscribes
<1> DEFINE G == {i \in 0 .. n : Goes(w, e, k[i], e)}
<1>6. 0 \in G
  <2>1. 0 \in 0 .. n
    BY <1>2
  <2> QED
    BY <1>4, <2>1, GoesNowhere
<1>7. ASSUME NEW i \in 1 .. n, i - 1 \in G PROVE i \in G
  <2>1. PICK x : x = k[i - 1]
    OBVIOUS
  <2>2. Goes(w, e, x, e)
    BY <1>7, <2>1
  <2>3. PICK p : p = ps[i]
    OBVIOUS
  <2>4. Good(x, e) /\ p \in All(x) /\ f \in Codes(Size(x), e) /\ g \in Codes(Size(x), e)
    BY <1>2, <2>2, <2>3, GoesWider
  <2>5. PICK y : y = Then(x, p, f, g).w
    OBVIOUS
  <2>6. Goes(x, e, y, e)
    BY <2>4, <2>5, ThenGoes DEF Makes
  <2>7. Goes(w, e, y, e)
    BY <2>2, <2>6, GoesFurther
  <2>8. k[i] = y /\ i \in 0 .. n
    BY <1>2, <1>4, <2>1, <2>3, <2>5
  <2> QED
    BY <2>7, <2>8
<1>8. n \in G
  <2> HIDE DEF G
  <2> QED
    BY <1>2, <1>6, <1>7, UpTo
<1> QED
  BY <1>5, <1>8

\* The promise of a combinator settles with those it counts.
Combined(m, ps, f, g) == [m EXCEPT !.w = SubscribedAll(m.w, ps, f, g)]
LEMMA CombinesMakes ==
  ASSUME NEW w, NEW e, Good(w, e), NEW ps, ps \in Seq(All(w)), NEW m, Makes(w, e, m, e), DOMAIN m = {"w", "p"},
         NEW f, f \in Codes(Size(m.w), e), NEW g, g \in Codes(Size(m.w), e)
  PROVE  Makes(w, e, Combined(m, ps, f, g), e)
<1>1. PICK y : y = m.w
  OBVIOUS
<1>2. PICK p : p = m.p
  OBVIOUS
<1>3. Goes(w, e, y, e) /\ p \in Free(Size(y), e) /\ Good(y, e)
  BY <1>1, <1>2 DEF Makes, Goes
<1>4. ps \in Seq(All(y)) /\ f \in Codes(Size(y), e) /\ g \in Codes(Size(y), e)
  BY <1>1, <1>3, GoesWider
<1>5. PICK x : x = SubscribedAll(y, ps, f, g)
  OBVIOUS
<1>6. Goes(y, e, x, e)
  BY <1>3, <1>4, <1>5, SubscribesGo
<1>7. Goes(w, e, x, e) /\ p \in Free(Size(x), e)
  <2>1. Free(Size(y), e) \subseteq Free(Size(x), e)
    BY <1>6 DEF Goes
  <2> QED
    BY <1>3, <1>6, <2>1, GoesFurther
<1>8. PICK z : z = [m EXCEPT !.w = x]
  OBVIOUS
<1>9. z.w = x /\ z.p = p
  BY <1>2, <1>8
<1>10. Makes(w, e, z, e)
  BY <1>7, <1>9 DEF Makes
<1> QED
  BY <1>1, <1>5, <1>8, <1>10 DEF Combined


LEMMA PromiseAllMakes ==
  ASSUME NEW w, NEW e, Good(w, e), NEW ps, ps \in Seq(All(w))
  PROVE  Makes(w, e, PromiseAll(w, ps), e)
<1>1. Len(ps) \in Values
  BY LenProperties DEF Values
<1>2. PICK m : m = Tallied(w, Len(ps))
  OBVIOUS
<1>3. Makes(w, e, m, e) /\ DOMAIN m = {"w", "p"}
  BY <1>1, <1>2, TalliedMakes
<1>4. PICK y : y = m.w
  OBVIOUS
<1>5. PICK p : p = m.p
  OBVIOUS
<1>6. Goes(w, e, y, e) /\ Good(y, e) /\ p \in Free(Size(y), e)
  BY <1>3, <1>4, <1>5 DEF Makes, Goes
<1>7. CASE ps = << >>
  <2>1. PICK x : x = Settled(y, p, "fulfilled", Undefined)
    OBVIOUS
  <2>2. "fulfilled" \in Outcomes /\ Undefined \in Values
    BY DEF Outcomes, Undefined, Values
  <2>3. Goes(y, e, x, e)
    BY <1>6, <2>1, <2>2, SettledGoes
  <2>4. Goes(w, e, x, e) /\ p \in Free(Size(x), e)
    <3>1. Free(Size(y), e) \subseteq Free(Size(x), e)
      BY <2>3 DEF Goes
    <3> QED
      BY <1>6, <2>3, <3>1, GoesFurther
  <2>5. PICK z : z = [m EXCEPT !.w = x]
    OBVIOUS
  <2>6. z.w = x /\ z.p = p
    BY <1>3, <1>5, <2>5
  <2>7. PromiseAll(w, ps) = z
    BY <1>2, <1>4, <1>5, <1>7, <2>1, <2>5 DEF PromiseAll, Combined
  <2> QED
    BY <2>4, <2>6, <2>7 DEF Makes
<1>8. CASE ps # << >>
  <2>1. PICK f : f = Code("one", "", p)
    OBVIOUS
  <2>2. PICK g : g = Into("reject", p)
    OBVIOUS
  <2>3. f \in Codes(Size(m.w), e) /\ g \in Codes(Size(m.w), e)
    BY <1>4, <1>6, <2>1, <2>2, CountCodes, IntoIs
  <2>4. PromiseAll(w, ps) = Combined(m, ps, f, g)
    BY <1>2, <1>5, <1>8, <2>1, <2>2 DEF PromiseAll, Combined
  <2> QED
    BY <1>3, <2>3, <2>4, CombinesMakes
<1> QED
  BY <1>7, <1>8

LEMMA PromiseRaceMakes ==
  ASSUME NEW w, NEW e, Good(w, e), NEW ps, ps \in Seq(All(w))
  PROVE  Makes(w, e, PromiseRace(w, ps), e)
<1>1. PICK m : m = Made(w)
  OBVIOUS
<1>2. Makes(w, e, m, e) /\ DOMAIN m = {"w", "p"}
  <2>1. DOMAIN m = {"w", "p"}
    BY <1>1 DEF Made
  <2> QED
    BY <1>1, <2>1, MadeGoes
<1>3. PICK p : p = m.p
  OBVIOUS
<1>4. p \in Free(Size(m.w), e)
  BY <1>2, <1>3 DEF Makes
<1>5. PICK f : f = Into("resolve", p)
  OBVIOUS
<1>6. PICK g : g = Into("reject", p)
  OBVIOUS
<1>7. f \in Codes(Size(m.w), e) /\ g \in Codes(Size(m.w), e)
  BY <1>4, <1>5, <1>6, IntoIs
<1>8. PromiseRace(w, ps) = Combined(m, ps, f, g)
  BY <1>1, <1>3, <1>5, <1>6 DEF PromiseRace, Combined
<1> QED
  BY <1>2, <1>7, <1>8, CombinesMakes

LEMMA PromiseAnyMakes ==
  ASSUME NEW w, NEW e, Good(w, e), NEW ps, ps \in Seq(All(w))
  PROVE  Makes(w, e, PromiseAny(w, ps), e)
<1>1. Len(ps) \in Values /\ Undefined \in Values
  BY LenProperties DEF Values, Undefined
<1>2. CASE ps = << >>
  <2>1. PromiseAny(w, ps) = PromiseReject(w, Undefined)
    BY <1>2 DEF PromiseAny, Combined
  <2> QED
    BY <1>1, <2>1, RejectGoes
<1>3. CASE ps # << >>
  <2>1. PICK m : m = Tallied(w, Len(ps))
    OBVIOUS
  <2>2. Makes(w, e, m, e) /\ DOMAIN m = {"w", "p"}
    BY <1>1, <2>1, TalliedMakes
  <2>3. PICK p : p = m.p
    OBVIOUS
  <2>4. p \in Free(Size(m.w), e)
    BY <2>2, <2>3 DEF Makes
  <2>5. PICK f : f = Into("resolve", p)
    OBVIOUS
  <2>6. PICK g : g = Code("failed", "", p)
    OBVIOUS
  <2>7. f \in Codes(Size(m.w), e) /\ g \in Codes(Size(m.w), e)
    BY <2>4, <2>5, <2>6, CountCodes, IntoIs
  <2>8. PromiseAny(w, ps) = Combined(m, ps, f, g)
    BY <1>3, <2>1, <2>3, <2>5, <2>6 DEF PromiseAny, Combined
  <2> QED
    BY <2>2, <2>7, <2>8, CombinesMakes
<1> QED
  BY <1>2, <1>3

\* allSettled() listens to each first.
LEMMA CollectsGo ==
  ASSUME NEW w, NEW e, Good(w, e), NEW ps, ps \in Seq(All(w)), NEW n, n = Len(ps), NEW b, b = [w |-> w, ps |-> << >>],
         NEW z, z = Collects(b, ps, n)[n]
  PROVE  Goes(w, e, z.w, e) /\ z.ps \in Seq(All(z.w))
<1>1. n \in Nat /\ \A i \in 1 .. n : ps[i] \in All(w)
  BY ElementOfSeq, LenProperties
<1>2. PICK k : k = Collects(b, ps, n)
  OBVIOUS
<1>3. k[0] = b /\ \A i \in 1 .. n : k[i] = Collected(k[i - 1], ps[i])
  BY <1>1, <1>2, CollectsIs
<1> DEFINE G == {i \in 0 .. n : Goes(w, e, k[i].w, e) /\ k[i].ps \in Seq(All(k[i].w))}
<1>4. 0 \in G
  <2>1. 0 \in 0 .. n /\ b.w = w /\ b.ps \in Seq(All(w))
    BY <1>1
  <2> QED
    BY <1>3, <2>1, GoesNowhere
<1>5. ASSUME NEW i \in 1 .. n, i - 1 \in G PROVE i \in G
  <2>1. PICK x : x = k[i - 1].w
    OBVIOUS
  <2>2. PICK qs : qs = k[i - 1].ps
    OBVIOUS
  <2>3. Goes(w, e, x, e) /\ qs \in Seq(All(x))
    BY <1>5, <2>1, <2>2
  <2>4. PICK p : p = ps[i]
    OBVIOUS
  <2>5. Good(x, e) /\ p \in All(x) /\ Noop \in Codes(Size(x), e)
    BY <1>1, <2>3, <2>4, GoesWider, NoCodeIs
  <2>6. PICK t : t = Then(x, p, Noop, Noop)
    OBVIOUS
  <2>7. Goes(x, e, t.w, e) /\ t.p \in Free(Size(t.w), e)
    BY <2>5, <2>6, ThenGoes DEF Makes
  <2>8. Goes(w, e, t.w, e)
    BY <2>3, <2>7, GoesFurther
  <2>9. Append(qs, t.p) \in Seq(All(t.w))
    <3>1. All(x) \subseteq All(t.w) /\ t.p \in All(t.w)
      BY <2>5, <2>7, GoesWider, FreeIsMade
    <3>2. qs \in Seq(All(t.w))
      BY <2>3, <3>1
    <3> QED
      BY <3>1, <3>2, SeqLast
  <2>10. k[i].w = t.w /\ k[i].ps = Append(qs, t.p) /\ i \in 0 .. n
    <3>1. PICK h : h = k[i - 1]
      OBVIOUS
    <3>2. k[i] = Collected(h, p)
      BY <1>3, <2>4, <3>1
    <3>3. h.w = x /\ h.ps = qs
      BY <2>1, <2>2, <3>1
    <3>4. Collected(h, p).w = t.w /\ Collected(h, p).ps = Append(qs, t.p)
      BY <2>6, <3>3 DEF Collected
    <3>5. i \in 0 .. n
      BY <1>1
    <3> QED
      BY <3>2, <3>4, <3>5
  <2> QED
    BY <2>8, <2>9, <2>10
<1>6. n \in G
  <2> HIDE DEF G
  <2> QED
    BY <1>1, <1>4, <1>5, UpTo
<1> QED
  BY <1>2, <1>6

LEMMA AllSettledMakes ==
  ASSUME NEW w, NEW e, Good(w, e), NEW ps, ps \in Seq(All(w))
  PROVE  Makes(w, e, PromiseAllSettled(w, ps), e)
<1>1. PICK n : n = Len(ps)
  OBVIOUS
<1>2. PICK b : b = [w |-> w, ps |-> << >>]
  OBVIOUS
<1>3. PICK z : z = Collects(b, ps, n)[n]
  OBVIOUS
<1>4. Goes(w, e, z.w, e) /\ z.ps \in Seq(All(z.w))
  BY <1>1, <1>2, <1>3, CollectsGo
<1>5. PICK x : x = z.w
  OBVIOUS
<1>6. PICK qs : qs = z.ps
  OBVIOUS
<1>7. Good(x, e) /\ qs \in Seq(All(x)) /\ Goes(w, e, x, e)
  BY <1>4, <1>5, <1>6 DEF Goes
<1>8. PICK m : m = PromiseAll(x, qs)
  OBVIOUS
<1>9. Goes(x, e, m.w, e) /\ m.p \in Free(Size(m.w), e)
  BY <1>7, <1>8, PromiseAllMakes DEF Makes
<1>10. Goes(w, e, m.w, e)
  BY <1>7, <1>9, GoesFurther
<1>11. PromiseAllSettled(w, ps) = m
  BY <1>1, <1>2, <1>3, <1>5, <1>6, <1>8 DEF PromiseAllSettled, InOrder, Collects, Collected
<1> QED
  BY <1>9, <1>10, <1>11 DEF Makes


LEMMA TallyIs ==
  ASSUME NEW w, NEW e, Good(w, e), NEW p, p \in All(w)
  PROVE  w.heap[p].tally - 1 \in Values /\ w.heap[p].tally \in Int
BY PromiseAt DEF PromiseShape, Values

LEMMA CountGoes ==
  ASSUME NEW w, NEW e, Good(w, e), NEW p, p \in Free(Size(w), e),
         NEW state, state \in Outcomes, NEW v, v \in Values
  PROVE  Goes(w, e, Count(w, p, state, v), e)
<1>1. PICK n : n = w.heap[p].tally - 1
  OBVIOUS
<1>2. p \in All(w) /\ n \in Values
  <2>1. p \in All(w)
    BY FreeIsMade
  <2> QED
    BY <1>1, <2>1, TallyIs
<1>3. PICK x : x = Tally(w, p, n)
  OBVIOUS
<1>4. Goes(w, e, x, e) /\ Size(x) = Size(w) /\ Good(x, e)
  BY <1>2, <1>3, TallyGoes DEF Goes
<1>5. PICK y : y = Settled(x, p, state, v)
  OBVIOUS
<1>6. Goes(x, e, y, e)
  BY <1>4, <1>5, SettledGoes
<1>7. Count(w, p, state, v) = x \/ Count(w, p, state, v) = y
  <2>1. x = [w EXCEPT !.heap[p].tally = @ - 1]
    BY <1>1, <1>3 DEF Tally
  <2> QED
    BY <1>5, <2>1 DEF Count
<1> QED
  BY <1>4, <1>6, <1>7, GoesFurther

\* The functions that the library itself gives to then().
LEMMA CallsOwnGets ==
  ASSUME NEW w, NEW e, Good(w, e), NEW f, f \in Codes(Size(w), e), f.do \in Own, NEW v, v \in Values
  PROVE  Gets(w, e, CallsOwn(w, f, v), e)
<1>1. PICK x : x = CallsOwn(w, f, v).w
  OBVIOUS
<1>2. PICK p : p = f.n
  OBVIOUS
<1>3. f.do \in {"resolve", "reject", "one", "failed"} => p \in Free(Size(w), e)
  BY <1>2 DEF Codes, Settling
<1>4. "fulfilled" \in Outcomes /\ "rejected" \in Outcomes /\ Undefined \in Values
  BY DEF Outcomes, Undefined, Values
<1>5. CASE f.do = "resolve"
  <2>1. x = Settled(w, p, "fulfilled", v)
    BY <1>1, <1>2, <1>5 DEF CallsOwn
  <2> QED
    BY <1>3, <1>4, <1>5, <2>1, SettledGoes, ReturnsGets, <1>1 DEF CallsOwn, Returns
<1>6. CASE f.do = "reject"
  <2>1. x = Settled(w, p, "rejected", v)
    BY <1>1, <1>2, <1>6 DEF CallsOwn
  <2> QED
    BY <1>3, <1>4, <1>6, <2>1, SettledGoes, ReturnsGets, <1>1 DEF CallsOwn, Returns
<1>7. CASE f.do = "one"
  <2>1. x = Count(w, p, "fulfilled", Undefined)
    BY <1>1, <1>2, <1>7 DEF CallsOwn
  <2> QED
    BY <1>3, <1>4, <1>7, <2>1, CountGoes, ReturnsGets, <1>1 DEF CallsOwn, Returns
<1>8. CASE f.do = "failed"
  <2>1. x = Count(w, p, "rejected", v)
    BY <1>1, <1>2, <1>8 DEF CallsOwn
  <2> QED
    BY <1>3, <1>4, <1>8, <2>1, CountGoes, ReturnsGets, <1>1 DEF CallsOwn, Returns
<1>9. CASE f.do = "noop"
  <2>1. x = w
    BY <1>1, <1>2, <1>9 DEF CallsOwn
  <2> QED
    BY <2>1, GoesNowhere, ReturnsGets, <1>1 DEF CallsOwn, Returns
<1> QED
  BY <1>5, <1>6, <1>7, <1>8, <1>9 DEF Own

LEMMA PassedOnGets ==
  ASSUME NEW w, NEW e, Good(w, e), NEW t, t.v \in Values
  PROVE  Gets(w, e, PassedOn(w, t), e)
<1>1. PassedOn(w, t).w = w /\ (PassedOn(w, t).a = Value(t.v) \/ PassedOn(w, t).a = Throws(t.v))
  BY DEF PassedOn
<1>2. Answer(Value(t.v), w) /\ Answer(Throws(t.v), w)
  BY AnswerIs
<1> QED
  BY <1>1, <1>2, GoesNowhere DEF Gets

\* The outcome of a handler settles the promise that then() made.
LEMMA HandledGoes ==
  ASSUME NEW w, NEW e, Good(w, e), NEW t, t.r.to \in {0} \cup Free(Size(w), e), NEW c, NEW f, Gets(w, e, c, f)
  PROVE  Goes(w, e, Handled(t, c), f)
<1>1. PICK x : x = c.w
  OBVIOUS
<1>2. PICK a : a = c.a
  OBVIOUS
<1>3. Goes(w, e, x, f) /\ Answer(a, x) /\ Good(x, f)
  BY <1>1, <1>2 DEF Gets, Goes
<1>4. CASE t.r.to = 0
  BY <1>1, <1>3, <1>4 DEF Handled
<1>5. CASE t.r.to # 0
  <2>1. PICK p : p = t.r.to
    OBVIOUS
  <2>2. p \in Free(Size(x), f)
    BY <1>3, <1>5, <2>1 DEF Goes
  <2>3. PICK y : y = Resolved(x, p, a)
    OBVIOUS
  <2>4. Goes(x, f, y, f)
    BY <1>3, <2>2, <2>3, ResolvedGoes
  <2>5. Handled(t, c) = y
    BY <1>1, <1>2, <1>5, <2>1, <2>3 DEF Handled
  <2> QED
    BY <1>3, <2>4, <2>5, GoesFurther
<1> QED
  BY <1>4, <1>5


-----------------------------------------------------------------------------
(* The sink's chain moves: what was right for e is right for f.             *)

ChainStays(p, e, f) == \A r : OnChain(r, p, e) => OnChain(r, p, f)
TokensStay(w, e, f) == \A i \in DOMAIN w.micro : IsToken(w.micro[i].r, e) => IsToken(w.micro[i].r, f)
\* k promises at e, m at f.
Grows(k, e, m, f) == k \in Nat /\ m \in Nat /\ k <= m /\ Free(k, e) \subseteq Free(m, f) /\ e.pipes \subseteq f.pipes

LEMMA PlainMoves ==
  ASSUME NEW k, NEW e, NEW m, NEW f, Grows(k, e, m, f)
  PROVE  Codes(k, e) \subseteq Codes(m, f) /\ Plain(k, e) \subseteq Plain(m, f)
<1>1. Codes(k, e) \subseteq Codes(m, f)
  BY DEF Codes, Grows
<1>2. ASSUME NEW r \in Plain(k, e) PROVE r \in Plain(m, f)
  <2>1. r.onF \in Codes(m, f) /\ r.onR \in Codes(m, f) /\ r.to \in {0} \cup Free(m, f)
    BY <1>1 DEF Plain, Grows
  <2>2. r = [onF |-> r.onF, onR |-> r.onR, to |-> r.to]
    BY DEF Plain
  <2> QED
    BY <2>1, <2>2 DEF Plain
<1> QED
  BY <1>1, <1>2

LEMMA PromiseMoves ==
  ASSUME NEW k, NEW e, NEW m, NEW f, Grows(k, e, m, f), EnvOK(m, f),
         NEW q, NEW p, PromiseOK(q, p, k, e), ChainStays(p, e, f), p \in Held(f) => q.state = "pending"
  PROVE  PromiseOK(q, p, m, f)
<1>1. Plain(k, e) \subseteq Plain(m, f)
  BY PlainMoves
<1>2. \A i \in DOMAIN q.reactions : q.reactions[i] \in Plain(m, f) \/ OnChain(q.reactions[i], p, f)
  BY <1>1 DEF PromiseOK, ChainStays
<1>3. ASSUME NEW i \in DOMAIN q.reactions, OnChain(q.reactions[i], p, f) PROVE OnChain(q.reactions[i], p, e)
  <2>1. q.reactions[i] \notin Plain(m, f)
    BY <1>3, ChainIsNotPlain DEF Grows
  <2> QED
    BY <1>1, <2>1 DEF PromiseOK
<1>4. \A i, j \in DOMAIN q.reactions : OnChain(q.reactions[i], p, f) /\ OnChain(q.reactions[j], p, f) => i = j
  BY <1>3 DEF PromiseOK
<1>5. q \in PromiseShape
  BY DEF PromiseOK
<1> QED
  BY <1>2, <1>4, <1>5 DEF PromiseOK

LEMMA TasksMove ==
  ASSUME NEW w, NEW e, NEW x, NEW f, Grows(Size(w), e, Size(x), f), EnvOK(Size(x), f),
         MicroOK(w, e), x.micro = w.micro, TokensStay(w, e, f)
  PROVE  MicroOK(x, f)
<1>1. Plain(Size(w), e) \subseteq Plain(Size(x), f) /\ Free(Size(w), e) \subseteq Free(Size(x), f)
  BY PlainMoves DEF Grows
<1>2. \A i \in DOMAIN x.micro : TaskOK(x.micro[i], Size(x), f)
  BY <1>1 DEF MicroOK, TaskOK, TokensStay
<1>3. ASSUME NEW i \in DOMAIN x.micro, IsToken(x.micro[i].r, f) PROVE IsToken(x.micro[i].r, e)
  <2>1. x.micro[i].r \notin Plain(Size(x), f)
    BY <1>3, ChainIsNotPlain DEF Grows
  <2> QED
    BY <1>1, <2>1 DEF MicroOK, TaskOK
<1>4. \A i, j \in DOMAIN x.micro : IsToken(x.micro[i].r, f) /\ IsToken(x.micro[j].r, f) => i = j
  BY <1>3 DEF MicroOK
<1>5. x.micro \in Seq(TaskShape)
  BY DEF MicroOK
<1> QED
  BY <1>2, <1>4, <1>5 DEF MicroOK

\* Where the chain of writes ends.
LineOK(x, f) ==
  IF f.line = << >>
  THEN x.ws["dst"].writing # 0 => x.heap[x.ws["dst"].writing].state # "pending"
  ELSE x.ws["dst"].writing = f.line[Len(f.line)]
Writes(w, x) == \A s \in Writables : w.ws[s].writing # 0 => x.ws[s].writing # 0

LEMMA StreamsMove ==
  ASSUME NEW w, NEW e, Good(w, e), NEW x, NEW f, Grows(Size(w), e, Size(x), f), f.pipes = e.pipes,
         x.rs = w.rs, x.plan = w.plan, x.ws \in [Writables -> WritableShape(Size(x))],
         Writes(w, x), LineOK(x, f)
  PROVE  StreamsOK(x, f)
<1> DEFINE k == Size(w)
           m == Size(x)
<1>1. StreamsOK(w, e) /\ EnvOK(k, e)
  BY DEF Good
<1>2. Free(k, e) \subseteq Free(m, f)
  BY DEF Grows
<1> HIDE DEF k, m
<1>3. Seq(Free(k, e)) \subseteq Seq(Free(m, f))
  BY <1>2, SeqWider
<1>4. ReadableShape(k, e) \subseteq ReadableShape(m, f)
  BY <1>3 DEF ReadableShape
<1>5. x.rs \in [Readables -> ReadableShape(m, f)]
  BY <1>1, <1>4 DEF StreamsOK, k
<1>6. \A s \in Readables : x.rs[s].locked => x.rs[s].closedPromise \in Free(m, f)
  BY <1>1, <1>2 DEF StreamsOK, k
<1>7. \A s \in f.pipes : x.ws[PipesInto(x, s)].writing # 0
  <2>1. \A s \in Readables : PipesInto(w, s) \in Writables /\ PipesInto(x, s) = PipesInto(w, s)
    BY DEF PipesInto, Writables
  <2>2. f.pipes \subseteq Readables
    BY <1>1 DEF EnvOK, Envs
  <2> QED
    BY <1>1, <2>1, <2>2 DEF StreamsOK, Writes
<1> QED
  BY <1>5, <1>6, <1>7 DEF StreamsOK, m, LineOK

\* What the script and the history keep is left alone.
SameScript(w, x) ==
  /\ x.plan = w.plan /\ x.given = w.given /\ x.over = w.over /\ x.taken = w.taken
  /\ x.done = w.done /\ x.script = w.script /\ x.faults = w.faults
LEMMA ScriptMoves ==
  ASSUME NEW w, NEW e, Good(w, e), NEW x, SameScript(w, x), All(w) \subseteq All(x)
  PROVE  ScriptOK(x)
<1>1. ScriptOK(w)
  BY DEF Good
<1>2. Seq(All(w)) \subseteq Seq(All(x))
  BY SeqWider
<1>3. x.script \in [first : Nat, pipe : Nat, join : Nat, stopped : BOOLEAN, writes : Seq(All(x))]
  BY <1>1, <1>2 DEF ScriptOK, SameScript
<1> QED
  BY <1>1, <1>3 DEF ScriptOK, SameScript

\* The chain moves; nothing that waits is disturbed.
LEMMA Moves ==
  ASSUME NEW w, NEW e, Good(w, e), NEW x, IsWorld(x), x.micro = w.micro, SeenOK(x),
         x.heap \in Seq(PromiseShape), \A z \in All(w) : x.heap[z] = w.heap[z],
         NEW f, Grows(Size(w), e, Size(x), f), EnvOK(Size(x), f),
         \A z \in All(x) \ All(w) : PromiseOK(x.heap[z], z, Size(x), f),
         \A z \in All(w) : ChainStays(z, e, f) /\ (z \in Held(f) => z \in Held(e)),
         TokensStay(w, e, f), OwedOK(x, f), StreamsOK(x, f), ScriptOK(x)
  PROVE  Good(x, f)
<1>1. MicroOK(x, f)
  BY TasksMove DEF Good
<1>2. HeapOK(x, f)
  <2>1. ASSUME NEW z \in All(w) PROVE PromiseOK(x.heap[z], z, Size(x), f)
    <3>1. PromiseOK(w.heap[z], z, Size(w), e)
      BY DEF Good, HeapOK
    <3>2. z \in Held(f) => w.heap[z].state = "pending"
      BY <3>1 DEF PromiseOK
    <3>3. ChainStays(z, e, f) /\ x.heap[z] = w.heap[z]
      OBVIOUS
    <3>4. PICK q : q = w.heap[z]
      OBVIOUS
    <3>5. PromiseOK(q, z, Size(x), f)
      BY <3>1, <3>2, <3>3, <3>4, PromiseMoves
    <3> QED
      BY <3>3, <3>4, <3>5
  <2> QED
    BY <2>1 DEF HeapOK
<1> QED
  BY <1>1, <1>2 DEF Good, IsWorld


EnvOf(pipes, line, key, at) == [pipes |-> pipes, line |-> line, key |-> key, at |-> at]
LEMMA EnvIs ==
  ASSUME NEW k, NEW e, EnvOK(k, e)
  PROVE  /\ e.pipes \subseteq Readables /\ e.line \in Seq(Nat) /\ e.key \in Nat
         /\ e.at \in {"none", "start", "task", "owed", "answer"}
         /\ Len(e.line) \in Nat /\ DOMAIN e.line = 1 .. Len(e.line)
         /\ e.line # << >> => 1 \in DOMAIN e.line /\ Len(e.line) \in DOMAIN e.line
<1>1. e.line \in Seq(Nat)
  BY DEF EnvOK, Envs
<1>2. Len(e.line) \in Nat /\ DOMAIN e.line = 1 .. Len(e.line)
  BY <1>1, LenProperties
<1>3. e.line # << >> => Len(e.line) >= 1
  BY <1>1, <1>2, EmptySeq
<1> QED
  BY <1>1, <1>2, <1>3 DEF EnvOK, Envs

\* When the sink owes nothing.
NoSinkAsks(o) == \A a \in o : a.who \notin SinkAsks
LEMMA SinkIdle ==
  ASSUME NEW w, NEW e, OwedOK(w, e), e.at \notin {"start", "owed"}
  PROVE  NoSinkAsks(w.owed)
<1> SUFFICES ASSUME NEW a \in w.owed, a.who \in SinkAsks PROVE FALSE
  BY DEF NoSinkAsks
<1>1. a.who = "sinkStart" \/ a.who \in {"write", "close"}
  BY DEF SinkAsks
<1>2. CASE a.who = "sinkStart"
  BY <1>2 DEF OwedOK
<1>3. CASE a.who \in {"write", "close"}
  BY <1>3 DEF OwedOK
<1> QED
  BY <1>1, <1>2, <1>3
LEMMA OwedIdle ==
  ASSUME NEW w, NEW e, OwedOK(w, e), NEW x, NEW f, x.owed \subseteq w.owed, NoSinkAsks(x.owed),
         All(w) \subseteq All(x), Free(Size(w), e) \subseteq Free(Size(x), f)
  PROVE  OwedOK(x, f)
<1>1. x.owed \subseteq [who : Asks, p : All(x), n : Int]
  BY DEF OwedOK
<1>2. ASSUME NEW o \in x.owed
      PROVE  o.who \notin {"sinkStart", "write", "close"} /\ o.p \in Free(Size(x), f)
  <2>1. o.who \notin SinkAsks
    BY DEF NoSinkAsks
  <2> QED
    BY <2>1 DEF OwedOK, SinkAsks
<1> QED
  BY <1>1, <1>2 DEF OwedOK, NoSinkAsks

NoTokens(w, e) == \A i \in DOMAIN w.micro : ~IsToken(w.micro[i].r, e)

\* Nothing settles the first promise of the line any more.
LEMMA Idle ==
  ASSUME NEW w, NEW e, Good(w, e), e.at # "owed", NoTokens(w, e), NoSinkAsks(w.owed),
         NEW f, f = EnvOf(e.pipes, e.line, e.key, "none")
  PROVE  Goes(w, e, w, f)
<1>1. IsWorld(w) /\ Size(w) \in Nat /\ w.heap \in Seq(PromiseShape) /\ EnvOK(Size(w), e)
  BY LenHeap DEF Good
<1>2. f.pipes = e.pipes /\ f.line = e.line /\ f.at = "none"
  BY DEF EnvOf
<1>3. f \in Envs
  BY <1>1 DEF EnvOf, EnvOK, Envs
<1>4. Held(f) = Held(e)
  BY <1>2 DEF Held
<1>5. EnvOK(Size(w), f)
  BY <1>1, <1>2, <1>3, <1>4 DEF EnvOK
<1>6. Grows(Size(w), e, Size(w), f)
  BY <1>1, <1>2, <1>4 DEF Grows, Free
<1>7. \A z \in All(w) : ChainStays(z, e, f) /\ (z \in Held(f) => z \in Held(e))
  BY <1>2, <1>4 DEF ChainStays, OnChain
<1>8. TokensStay(w, e, f)
  BY DEF TokensStay, NoTokens
<1>9. OwedOK(w, f)
  BY <1>6, OwedIdle DEF Good, Grows
<1>10. StreamsOK(w, f)
  <2>1. LineOK(w, f)
    BY <1>2 DEF LineOK, Good, StreamsOK
  <2>2. w.ws \in [Writables -> WritableShape(Size(w))] /\ Writes(w, w)
    BY DEF Good, StreamsOK, Writes
  <2> QED
    BY <1>2, <1>6, <2>1, <2>2, StreamsMove
<1>11. Good(w, f)
  <2>1. SeenOK(w) /\ ScriptOK(w)
    BY DEF Good
  <2> QED
    BY <1>1, <1>5, <1>6, <1>7, <1>8, <1>9, <1>10, <2>1, Moves
<1> QED
  BY <1>1, <1>2, <1>6, <1>11 DEF Goes, Grows

\* Tasks with at most one token, where none waits.
OneToken(t, f) == \A i, j \in DOMAIN t : IsToken(t[i].r, f) /\ IsToken(t[j].r, f) => i = j
LEMMA TokenTasks ==
  ASSUME NEW w, w.micro \in Seq(TaskShape), NEW x, NEW f, NoTokens(w, f),
         \A i \in DOMAIN w.micro : TaskOK(w.micro[i], Size(x), f),
         NEW t, t \in Seq(TaskShape), \A i \in DOMAIN t : TaskOK(t[i], Size(x), f), OneToken(t, f),
         x.micro = Cat(w.micro, t)
  PROVE  MicroOK(x, f)
<1>1. /\ x.micro \in Seq(TaskShape) /\ Len(x.micro) = Len(w.micro) + Len(t)
      /\ \A i \in 1 .. Len(w.micro) : x.micro[i] = w.micro[i]
      /\ \A i \in 1 .. Len(t) : x.micro[Len(w.micro) + i] = t[i]
  BY DEF Cat
<1>2. Len(w.micro) \in Nat /\ Len(t) \in Nat /\ DOMAIN w.micro = 1 .. Len(w.micro) /\ DOMAIN t = 1 .. Len(t)
      /\ DOMAIN x.micro = 1 .. (Len(w.micro) + Len(t))
  BY <1>1, LenProperties
<1>3. ASSUME NEW i \in DOMAIN x.micro, i \notin DOMAIN w.micro
      PROVE  i - Len(w.micro) \in DOMAIN t /\ x.micro[i] = t[i - Len(w.micro)]
  <2>1. i - Len(w.micro) \in 1 .. Len(t) /\ i = Len(w.micro) + (i - Len(w.micro))
    BY <1>2, <1>3
  <2> QED
    BY <1>1, <1>2, <2>1
<1>4. ASSUME NEW i \in DOMAIN w.micro PROVE x.micro[i] = w.micro[i] /\ ~IsToken(x.micro[i].r, f)
  BY <1>1, <1>2 DEF NoTokens
<1>5. \A i \in DOMAIN x.micro : TaskOK(x.micro[i], Size(x), f)
  BY <1>3, <1>4
<1>6. ASSUME NEW i \in DOMAIN x.micro, NEW j \in DOMAIN x.micro,
             IsToken(x.micro[i].r, f), IsToken(x.micro[j].r, f)
      PROVE  i = j
  <2>1. i \notin DOMAIN w.micro /\ j \notin DOMAIN w.micro
    BY <1>4, <1>6
  <2>2. i - Len(w.micro) \in DOMAIN t /\ x.micro[i] = t[i - Len(w.micro)]
    BY <1>3, <2>1
  <2>3. j - Len(w.micro) \in DOMAIN t /\ x.micro[j] = t[j - Len(w.micro)]
    BY <1>3, <2>1
  <2>4. i - Len(w.micro) = j - Len(w.micro)
    BY <1>6, <2>2, <2>3 DEF OneToken
  <2> QED
    BY <1>2, <2>4
<1> QED
  BY <1>1, <1>5, <1>6 DEF MicroOK

\* The tasks that wait are no tokens at f, when they are none at e.
LEMMA TokensGone ==
  ASSUME NEW w, NEW e, MicroOK(w, e), NoTokens(w, e), NEW m, NEW f, Grows(Size(w), e, m, f), EnvOK(m, f)
  PROVE  NoTokens(w, f) /\ \A i \in DOMAIN w.micro : TaskOK(w.micro[i], m, f)
<1>1. Plain(Size(w), e) \subseteq Plain(m, f) /\ Free(Size(w), e) \subseteq Free(m, f)
  BY PlainMoves DEF Grows
<1>2. ASSUME NEW i \in DOMAIN w.micro PROVE TaskOK(w.micro[i], m, f) /\ w.micro[i].r \in Plain(m, f)
  BY <1>1 DEF MicroOK, TaskOK, NoTokens
<1>3. ASSUME NEW i \in DOMAIN w.micro PROVE ~IsToken(w.micro[i].r, f)
  BY <1>2, ChainIsNotPlain DEF Grows
<1> QED
  BY <1>2, <1>3 DEF NoTokens


LEMMA HearsState ==
  ASSUME NEW q, q \in PromiseShape, NEW g, NEW h, h = Hears(q, g)
  PROVE  h.state = q.state
BY HearsIs

\* A promise of the chain that is pending takes the reaction of the chain.
LEMMA ChainSubscribed ==
  ASSUME NEW w, NEW e, Good(w, e), NEW p, p \in All(w), w.heap[p].state = "pending",
         NEW f, NEW g, NEW to, NEW r, r = [onF |-> f, onR |-> g, to |-> to], r \in ReactionShape,
         OnChain(r, p, e), \A i \in DOMAIN w.heap[p].reactions : ~OnChain(w.heap[p].reactions[i], p, e),
         NEW x, x = Subscribed(w, p, f, g, to)
  PROVE  Good(x, e) /\ Goes(w, e, x, e) /\ Rest(x) = Rest(w) /\ Size(x) = Size(w)
<1>1. PICK b : b = w.heap[p]
  OBVIOUS
<1>2. PICK q : q = Hears(b, g)
  OBVIOUS
<1>3. PromiseOK(b, p, Size(w), e)
  BY <1>1, PromiseAt
<1>0. b \in PromiseShape /\ q = Hears(b, g)
  BY <1>1, <1>2, PromiseAt
<1>4. Size(w) \in Nat /\ EnvOK(Size(w), e) /\ w.micro \in Seq(TaskShape)
  BY LenHeap DEF Good
<1>5. q \in PromiseShape
  BY <1>0, HearsIs
<1>6. q.heard = TRUE
  BY <1>0, HearsIs
<1>7. q.state = "pending"
  <2>1. q.state = b.state
    BY <1>0, HearsState
  <2> QED
    BY <1>1, <2>1
<1>8. q.reactions = b.reactions
  BY <1>0, HearsIs
<1>9. PromiseOK(q, p, Size(w), e)
  BY <1>3, <1>5, <1>7, <1>8 DEF PromiseOK
<1>10. PICK h : h = Reacts(q, r)
  OBVIOUS
<1>11. \A i \in DOMAIN q.reactions : ~OnChain(q.reactions[i], p, e)
  BY <1>1, <1>8
<1>12. PromiseOK(h, p, Size(w), e)
  BY <1>4, <1>9, <1>10, <1>11, ReactsIs
<1>13. h.heard = q.heard
  BY <1>4, <1>9, <1>10, <1>11, ReactsIs
<1>14. h.state = q.state
  BY <1>4, <1>9, <1>10, <1>11, ReactsIs
<1>15. IsWorld(x) /\ Rest(x) = Rest(w) /\ x.heap = Put(w.heap, p, h) /\ x.micro = w.micro
  <2>1. q = Hears(w.heap[p], g)
    BY <1>1, <1>2
  <2>2. /\ IsWorld(x) /\ Rest(x) = Rest(w)
        /\ q.state = "pending" => x.heap = Put(w.heap, p, Reacts(q, r)) /\ x.micro = w.micro
    BY <2>1, SubscribedIs
  <2> QED
    BY <1>7, <1>10, <2>2
<1>16. PICK t : t \in Seq(TaskShape) /\ DOMAIN t = {} /\ w.micro = Cat(w.micro, t)
  BY <1>4, NoTasks
<1>17. x.micro = Cat(w.micro, t)
  BY <1>15, <1>16
<1>18. PlainTasks(t, Size(w), e) /\ StaysSeen(w, p, h, t)
  BY <1>6, <1>7, <1>13, <1>14, <1>16 DEF PlainTasks, StaysSeen
<1>19. Good(x, e) /\ Size(x) = Size(w)
  <2>1. t \in Seq(TaskShape) /\ IsWorld(x) /\ Rest(x) = Rest(w) /\ x.heap = Put(w.heap, p, h)
    BY <1>15, <1>16
  <2> QED
    BY <1>12, <1>17, <1>18, <2>1, Changed
<1> QED
  BY <1>4, <1>15, <1>19, GoesPromises

\* What then() does on a promise that has settled: it hears, and a task waits.
LEMMA SubscribedLate ==
  ASSUME NEW w, NEW e, Good(w, e), NEW p, p \in All(w), w.heap[p].state # "pending",
         NEW f, NEW g, NEW to, NEW r, r = [onF |-> f, onR |-> g, to |-> to], r \in ReactionShape,
         NEW x, x = Subscribed(w, p, f, g, to)
  PROVE  \E y, a : /\ Good(y, e) /\ Rest(y) = Rest(w) /\ Size(y) = Size(w)
                   /\ a \in TaskShape /\ a.do # "check" /\ a.r = r
                   /\ IsWorld(x) /\ Rest(x) = Rest(y) /\ x.heap = y.heap /\ x.micro = Append(y.micro, a)
<1>1. PICK b : b = w.heap[p]
  OBVIOUS
<1>2. PICK q : q = Hears(b, g)
  OBVIOUS
<1>3. PromiseOK(b, p, Size(w), e)
  BY <1>1, PromiseAt
<1>0. b \in PromiseShape /\ q = Hears(b, g)
  BY <1>1, <1>2, PromiseAt
<1>4. Size(w) \in Nat /\ IsWorld(w) /\ w.micro \in Seq(TaskShape)
  BY LenHeap
<1>5. q \in PromiseShape
  BY <1>0, HearsIs
<1>6. q.heard = TRUE
  BY <1>0, HearsIs
<1>7. q.state = b.state
  BY <1>0, HearsState
<1>8. q.reactions = b.reactions
  BY <1>0, HearsIs
<1>9. PromiseOK(q, p, Size(w), e)
  BY <1>3, <1>5, <1>7, <1>8 DEF PromiseOK
<1>10. PICK a : a = Task(r, q.state, q.value)
  OBVIOUS
<1>11. a \in TaskShape /\ a.do # "check" /\ a.r = r
  BY <1>1, <1>5, <1>7, <1>10 DEF Task, TaskShape, PromiseShape, States
<1>12. IsWorld(x) /\ Rest(x) = Rest(w) /\ x.heap = Put(w.heap, p, q) /\ x.micro = Append(w.micro, a)
  <2>1. q = Hears(w.heap[p], g)
    BY <1>1, <1>2
  <2>2. /\ IsWorld(x) /\ Rest(x) = Rest(w)
        /\ q.state # "pending" => x.heap = Put(w.heap, p, q) /\ x.micro = Append(w.micro, Task(r, q.state, q.value))
    BY <2>1, SubscribedIs
  <2> QED
    BY <1>1, <1>7, <1>10, <2>2
<1>13. PICK h : h = Put(w.heap, p, q)
  OBVIOUS
<1>14. PICK y : y = HeapMicro(w, h, w.micro)
  OBVIOUS
<1>15. IsWorld(y) /\ y.heap = h /\ y.micro = w.micro /\ Rest(y) = Rest(w)
  BY <1>4, <1>14, HeapMicroSet
<1>16. PICK t : t \in Seq(TaskShape) /\ DOMAIN t = {} /\ w.micro = Cat(w.micro, t)
  BY <1>4, NoTasks
<1>17. y.micro = Cat(w.micro, t) /\ y.heap = Put(w.heap, p, q)
  BY <1>13, <1>15, <1>16
<1>18. PlainTasks(t, Size(w), e) /\ StaysSeen(w, p, q, t)
  BY <1>6, <1>16 DEF PlainTasks, StaysSeen
<1>19. w.heap[p].state # "pending" => q.state # "pending"
  BY <1>1, <1>7
<1>20. Good(y, e) /\ Size(y) = Size(w)
  <2>1. t \in Seq(TaskShape) /\ IsWorld(y) /\ Rest(y) = Rest(w)
    BY <1>15, <1>16
  <2> QED
    BY <1>9, <1>17, <1>18, <1>19, <2>1, Changed
<1> QED
  BY <1>11, <1>12, <1>13, <1>15, <1>20

\* A token waits behind the tasks.
LEMMA TokenAdded ==
  ASSUME NEW w, NEW e, Good(w, e), e.at = "none", e.line # << >>,
         NEW f, f = EnvOf(e.pipes, e.line, e.key, "task"),
         NEW a, a \in TaskShape, a.do # "check", IsToken(a.r, f),
         NEW x, IsWorld(x), Rest(x) = Rest(w), x.heap = w.heap, x.micro = Append(w.micro, a)
  PROVE  Goes(w, e, x, f)
<1>1. Size(w) \in Nat /\ EnvOK(Size(w), e) /\ w.micro \in Seq(TaskShape) /\ MicroOK(w, e)
  BY LenHeap DEF Good
<1>2. f.pipes = e.pipes /\ f.line = e.line /\ f.at = "task" /\ Size(x) = Size(w) /\ All(x) = All(w)
  BY DEF EnvOf, Size, All
<1>3. f \in Envs
  BY <1>1 DEF EnvOf, EnvOK, Envs
<1>4. Held(f) = Held(e)
  BY <1>2 DEF Held
<1>5. EnvOK(Size(x), f)
  BY <1>1, <1>2, <1>3, <1>4 DEF EnvOK
<1>6. Grows(Size(w), e, Size(x), f)
  BY <1>1, <1>2, <1>4 DEF Grows, Free
<1>7. \A z \in All(w) : ChainStays(z, e, f) /\ (z \in Held(f) => z \in Held(e))
  BY <1>2, <1>4 DEF ChainStays, OnChain
<1>8. HeapOK(x, f)
  <2>1. ASSUME NEW z \in All(w) PROVE PromiseOK(w.heap[z], z, Size(x), f)
    <3>1. PICK q : q = w.heap[z]
      OBVIOUS
    <3>2. PromiseOK(q, z, Size(w), e)
      BY <3>1, PromiseAt
    <3>3. z \in Held(f) => q.state = "pending"
      BY <1>7, <3>2 DEF PromiseOK
    <3>4. ChainStays(z, e, f)
      BY <1>7
    <3>5. PromiseOK(q, z, Size(x), f)
      BY <1>5, <1>6, <3>2, <3>3, <3>4, PromiseMoves
    <3> QED
      BY <3>1, <3>5
  <2> QED
    BY <1>2, <2>1 DEF HeapOK, Good
<1>9. NoTokens(w, e)
  BY DEF NoTokens, IsToken
<1>10. NoTokens(w, f) /\ \A i \in DOMAIN w.micro : TaskOK(w.micro[i], Size(x), f)
  BY <1>1, <1>5, <1>6, <1>9, TokensGone
<1>11. PICK t : t \in Seq(TaskShape) /\ t = <<a>> /\ DOMAIN t = {1} /\ t[1] = a
  BY OneTask
<1>12. x.micro = Cat(w.micro, t)
  <2>1. Append(w.micro, a) = w.micro \o <<a>>
    BY <1>1
  <2> QED
    BY <1>11, <2>1 DEF Cat
<1>13. MicroOK(x, f)
  <2>1. \A i \in DOMAIN t : TaskOK(t[i], Size(x), f)
    BY <1>11 DEF TaskOK
  <2>2. OneToken(t, f)
    BY <1>11 DEF OneToken
  <2> QED
    BY <1>1, <1>10, <1>11, <1>12, <2>1, <2>2, TokenTasks
<1>14. SeenOK(x)
  <2>1. \A i \in DOMAIN w.micro : i \in DOMAIN x.micro /\ x.micro[i] = w.micro[i]
    <3>1. w.micro \in Seq(TaskShape) /\ t \in Seq(TaskShape) /\ x.micro = Cat(w.micro, t)
      BY <1>1, <1>11, <1>12
    <3>2. PICK u : u = w.micro
      OBVIOUS
    <3>3. PICK v : v = x.micro
      OBVIOUS
    <3>4. \A i \in DOMAIN u : i \in DOMAIN v /\ v[i] = u[i]
      BY <3>1, <3>2, <3>3, Joined
    <3> QED
      BY <3>2, <3>3, <3>4
  <2> QED
    BY <1>2, <2>1 DEF Good, SeenOK
<1>15. OwedOK(x, f)
  <2>1. x.owed = w.owed
    BY DEF Rest
  <2>2. NoSinkAsks(w.owed)
    BY SinkIdle DEF Good
  <2> QED
    BY <1>2, <1>6, <2>1, <2>2, OwedIdle DEF Good, Grows
<1>16. /\ x.rs = w.rs /\ x.ws = w.ws /\ x.plan = w.plan /\ SameScript(w, x) /\ Writes(w, x)
  BY DEF Rest, SameScript, Writes
<1>17. StreamsOK(x, f)
  <2>1. LineOK(x, f)
    BY <1>2, <1>16 DEF LineOK, Good, StreamsOK
  <2>2. x.ws \in [Writables -> WritableShape(Size(x))]
    BY <1>2, <1>16 DEF Good, StreamsOK
  <2> QED
    BY <1>2, <1>6, <1>16, <2>1, <2>2, StreamsMove
<1>18. ScriptOK(x)
  BY <1>2, <1>16, ScriptMoves
<1>19. Good(x, f)
  BY <1>5, <1>8, <1>13, <1>14, <1>15, <1>17, <1>18 DEF Good, IsWorld
<1> QED
  BY <1>1, <1>2, <1>6, <1>16, <1>19 DEF Goes, Grows, Writes


\* A promise of the chain settles: its reactions wait, at most one of them a token.
LEMMA HeldSettled ==
  ASSUME NEW w, NEW e, Good(w, e), NoTokens(w, e), NEW p, p \in All(w), w.heap[p].state = "pending",
         NEW state, state \in Outcomes, NEW v, v \in Values,
         NEW f, EnvOK(Size(w), f), f.pipes = e.pipes, Held(f) \subseteq Held(e), p \notin Held(f),
         \A z \in All(w) : z # p => ChainStays(z, e, f),
         \A r : OnChain(r, p, e) => IsToken(r, f),
         OwedOK(w, f),
         NEW x, x = Settled(w, p, state, v), LineOK(x, f)
  PROVE  Goes(w, e, x, f) /\ Rest(x) = Rest(w) /\ Size(x) = Size(w)
<1>1. PICK q : q = w.heap[p]
  OBVIOUS
<1>2. PICK t : t = Leaves(q, p, state, v)
  OBVIOUS
<1>3. PICK r : r = Settles(q, state, v)
  OBVIOUS
<1>4. IsWorld(x) /\ Rest(x) = Rest(w) /\ x.micro = Cat(w.micro, t) /\ x.heap = Put(w.heap, p, r)
  BY <1>1, <1>2, <1>3, SettledIs
<1>5. q \in PromiseShape /\ PromiseOK(q, p, Size(w), e)
  BY <1>1, PromiseAt
<1>6. /\ Size(w) \in Nat /\ w.heap \in Seq(PromiseShape) /\ DOMAIN w.heap = All(w) /\ w.micro \in Seq(TaskShape)
      /\ MicroOK(w, e) /\ SeenOK(w) /\ OwedOK(w, e)
  BY LenHeap DEF Good
<1>7. /\ r \in PromiseShape /\ r.reactions = << >> /\ r.state = state /\ r.heard = q.heard /\ r.flagged = q.flagged
      /\ r.handled => q.handled \/ q.reactions # << >>
  <2>1. q \in PromiseShape
    BY <1>5
  <2>2. r \in PromiseShape
    BY <1>3, <2>1, SettlesIs
  <2>3. r.reactions = << >>
    BY <1>3, <2>1, SettlesIs
  <2>4. r.state = state
    BY <1>3, <2>1, SettlesIs
  <2>5. r.heard = q.heard
    BY <1>3, <2>1, SettlesIs
  <2>6. r.flagged = q.flagged
    BY <1>3, <2>1, SettlesIs
  <2>7. r.handled => q.handled \/ q.reactions # << >>
    BY <1>3, <2>1, SettlesIs
  <2> QED
    BY <2>2, <2>3, <2>4, <2>5, <2>6, <2>7
<1>8. t \in Seq(TaskShape)
  BY <1>1, <1>2, LeavesIs
<1>9. LeftBy(t, q, p, state)
  BY <1>1, <1>2, LeavesIs
<1>10. state = "rejected" /\ ~HadHandlers(q) => \E i \in DOMAIN t : t[i] = Check(p)
  BY <1>1, <1>2, LeavesIs
<1>11. x.heap \in Seq(PromiseShape) /\ Size(x) = Size(w) /\ x.heap[p] = r /\ \A z \in All(w) : z # p => x.heap[z] = w.heap[z]
  <2>1. PICK h : h = x.heap
    OBVIOUS
  <2>2. h = Put(w.heap, p, r) /\ p \in DOMAIN w.heap /\ r \in PromiseShape
    BY <1>4, <1>6, <1>7, <2>1
  <2>3. h \in Seq(PromiseShape) /\ Len(h) = Len(w.heap)
    BY <1>6, <2>2, AtSeq
  <2>4. h[p] = r
    BY <1>6, <2>2, AtSeq
  <2>5. \A z \in DOMAIN w.heap : z # p => h[z] = w.heap[z]
    BY <1>6, <2>2, AtSeq
  <2> QED
    BY <1>6, <2>1, <2>3, <2>4, <2>5 DEF Size
<1>12. All(x) = All(w)
  BY <1>11 DEF All
<1>13. p \in Free(Size(w), f) /\ Grows(Size(w), e, Size(x), f) /\ EnvOK(Size(x), f)
  BY <1>6, <1>11 DEF All, Free, Grows
<1>14. Plain(Size(w), e) \subseteq Plain(Size(w), f)
  BY <1>11, <1>13, PlainMoves
<1>15. HeapOK(x, f)
  <2>1. ASSUME NEW z \in All(w), z # p PROVE PromiseOK(w.heap[z], z, Size(x), f)
    <3>1. PICK b : b = w.heap[z]
      OBVIOUS
    <3>2. PromiseOK(b, z, Size(w), e)
      BY <3>1, PromiseAt
    <3>3. z \in Held(f) => b.state = "pending"
      BY <3>2 DEF PromiseOK
    <3>4. ChainStays(z, e, f)
      BY <2>1
    <3>5. PromiseOK(b, z, Size(x), f)
      BY <1>13, <3>2, <3>3, <3>4, PromiseMoves
    <3> QED
      BY <3>1, <3>5
  <2>2. PromiseOK(r, p, Size(x), f)
    BY <1>7 DEF PromiseOK
  <2> QED
    BY <1>11, <1>12, <2>1, <2>2 DEF HeapOK
<1>16. NoTokens(w, f) /\ \A i \in DOMAIN w.micro : TaskOK(w.micro[i], Size(x), f)
  BY <1>6, <1>13, TokensGone
<1>17. /\ Check(p).r \in Plain(Size(w), f) /\ Check(p).do = "check" /\ Check(p).r.to = p
  BY <1>13, CheckIs
<1>18. ~IsToken(Check(p).r, f)
  BY <1>6, <1>17, ChainIsNotPlain
<1>19. \A i \in DOMAIN q.reactions : q.reactions[i] \in Plain(Size(w), f) \/ (OnChain(q.reactions[i], p, e) /\ IsToken(q.reactions[i], f))
  BY <1>5, <1>14 DEF PromiseOK
<1>20. \A i \in DOMAIN t : TaskOK(t[i], Size(x), f)
  <2>1. SUFFICES ASSUME NEW i \in DOMAIN t PROVE TaskOK(t[i], Size(w), f)
    BY <1>11
  <2>2. CASE t[i] = Check(p)
    BY <1>13, <1>17, <2>2 DEF TaskOK
  <2>3. CASE i \in DOMAIN q.reactions /\ t[i].r = q.reactions[i] /\ t[i].do = state
    BY <1>19, <2>3 DEF TaskOK, Outcomes
  <2> QED
    BY <1>9, <2>2, <2>3 DEF LeftBy
<1>21. OneToken(t, f)
  <2>1. ASSUME NEW i \in DOMAIN t, IsToken(t[i].r, f)
        PROVE  i \in DOMAIN q.reactions /\ OnChain(q.reactions[i], p, e)
    <3>1. i \in DOMAIN q.reactions /\ t[i].r = q.reactions[i]
      BY <1>9, <1>18, <2>1 DEF LeftBy
    <3>2. q.reactions[i] \notin Plain(Size(w), f)
      BY <1>6, <2>1, <3>1, ChainIsNotPlain
    <3> QED
      BY <1>19, <3>1, <3>2
  <2> QED
    BY <1>5, <2>1 DEF OneToken, PromiseOK
<1>22. MicroOK(x, f)
  BY <1>4, <1>6, <1>8, <1>16, <1>20, <1>21, TokenTasks
<1>23. SeenOK(x)
  <2>1. q.reactions # << >> \/ q.handled => q.heard
    BY <1>1, <1>6 DEF SeenOK
  <2>2. PICK u : u = w.micro
    OBVIOUS
  <2>3. PICK c : c = x.micro
    OBVIOUS
  <2>4. u \in Seq(TaskShape) /\ c = Cat(u, t)
    BY <1>4, <1>6, <2>2, <2>3
  <2>5. \A i \in DOMAIN u : i \in DOMAIN c /\ c[i] = u[i]
    BY <1>8, <2>4, Joined
  <2>6. \A i \in DOMAIN t : \E j \in DOMAIN c : c[j] = t[i]
    BY <1>8, <2>4, Joined
  <2>7. Keeps(w.micro, x.micro)
    BY <2>2, <2>3, <2>5 DEF Keeps
  <2>8. r.reactions # << >> \/ r.handled => r.heard
    BY <1>7, <2>1
  <2>9. r.state = "rejected" =>
           \/ r.heard \/ r.flagged
           \/ \E i \in DOMAIN x.micro : x.micro[i].do = "check" /\ x.micro[i].r.to = p
    <3> SUFFICES ASSUME r.state = "rejected", ~r.heard
                 PROVE  \E i \in DOMAIN x.micro : x.micro[i].do = "check" /\ x.micro[i].r.to = p
      OBVIOUS
    <3>1. PICK i \in DOMAIN t : t[i] = Check(p)
      BY <1>7, <1>10, <2>1 DEF HadHandlers
    <3>2. PICK j \in DOMAIN c : c[j] = t[i]
      BY <2>6
    <3> QED
      BY <1>17, <2>3, <3>1, <3>2
  <2> QED
    BY <1>6, <1>11, <2>7, <2>8, <2>9, SeenAfter
<1>24. /\ x.rs = w.rs /\ x.ws = w.ws /\ x.plan = w.plan /\ x.owed = w.owed /\ SameScript(w, x) /\ Writes(w, x)
  BY <1>4 DEF Rest, SameScript, Writes
<1>25. OwedOK(x, f)
  BY <1>11, <1>12, <1>24 DEF OwedOK
<1>26. StreamsOK(x, f)
  <2>1. x.ws \in [Writables -> WritableShape(Size(x))]
    BY <1>11, <1>24 DEF Good, StreamsOK
  <2> QED
    BY <1>13, <1>24, <2>1, StreamsMove
<1>27. ScriptOK(x)
  BY <1>12, <1>24, ScriptMoves
<1>28. Good(x, f)
  BY <1>4, <1>13, <1>15, <1>22, <1>23, <1>25, <1>26, <1>27 DEF Good, IsWorld
<1> QED
  BY <1>4, <1>6, <1>11, <1>13, <1>24, <1>28 DEF Goes, Grows, Writes


LEMMA SettledAt ==
  ASSUME NEW w, NEW e, Good(w, e), NEW p, p \in All(w), w.heap[p].state = "pending",
         NEW state, state \in Outcomes, NEW v, v \in Values, NEW x, x = Settled(w, p, state, v)
  PROVE  x.heap[p].state # "pending" /\ x.ws = w.ws
<1>1. PICK q : q = w.heap[p]
  OBVIOUS
<1>2. PICK r : r = Settles(q, state, v)
  OBVIOUS
<1>3. Rest(x) = Rest(w) /\ x.heap = Put(w.heap, p, r)
  BY <1>1, <1>2, SettledIs
<1>4. q \in PromiseShape
  BY <1>1, PromiseAt
<1>5. r.state = state
  BY <1>2, <1>4, SettlesIs
<1>6. w.heap \in Seq(PromiseShape) /\ DOMAIN w.heap = All(w)
  BY LenHeap
<1>7. x.heap[p] = r
  BY <1>3, <1>6 DEF Put
<1> QED
  BY <1>3, <1>5, <1>7 DEF Rest, Outcomes

LEMMA HeldAt ==
  ASSUME NEW w, NEW e, Good(w, e), NEW p, p \in Held(e)
  PROVE  p \in All(w) /\ w.heap[p].state = "pending"
<1>1. p \in All(w)
  BY HeldIs DEF Good, All
<1>2. PromiseOK(w.heap[p], p, Size(w), e)
  BY <1>1, PromiseAt
<1> QED
  BY <1>1, <1>2 DEF PromiseOK

LEMMA TailIs ==
  ASSUME NEW s, s \in Seq(Nat), s # << >>, NEW t, t = Tail(s)
  PROVE  /\ t \in Seq(Nat) /\ DOMAIN s = 1 .. Len(s) /\ Len(s) \in Nat /\ Len(s) >= 1 /\ 1 \in DOMAIN s /\ Len(s) \in DOMAIN s
         /\ DOMAIN t = 1 .. (Len(s) - 1) /\ Len(t) = Len(s) - 1
         /\ \A i \in 1 .. (Len(s) - 1) : t[i] = s[i + 1]
         /\ t = << >> <=> Len(s) = 1
<1>1. Len(s) \in Nat /\ DOMAIN s = 1 .. Len(s) /\ Len(s) >= 1
  BY EmptySeq, LenProperties
<1>2. t \in Seq(Nat) /\ Len(t) = Len(s) - 1 /\ \A i \in 1 .. Len(t) : t[i] = s[i + 1]
  BY <1>1, HeadTailProperties
<1>3. DOMAIN t = 1 .. Len(t)
  BY <1>2, LenProperties
<1>4. t = << >> <=> Len(t) = 0
  BY <1>2, EmptySeq
<1> QED
  BY <1>1, <1>2, <1>3, <1>4

LEMMA TailAt ==
  ASSUME NEW s, s \in Seq(Nat), s # << >>, NEW t, t = Tail(s), NEW i, i \in DOMAIN t
  PROVE  i \in Nat /\ i + 1 \in DOMAIN s /\ t[i] = s[i + 1] /\ i + 1 # 1
<1>1. /\ DOMAIN s = 1 .. Len(s) /\ Len(s) \in Nat /\ Len(s) >= 1
      /\ DOMAIN t = 1 .. (Len(s) - 1)
      /\ \A j \in 1 .. (Len(s) - 1) : t[j] = s[j + 1]
  BY TailIs
<1>2. i \in 1 .. (Len(s) - 1)
  BY <1>1
<1>3. t[i] = s[i + 1]
  BY <1>1, <1>2
<1> QED
  BY <1>1, <1>2, <1>3

\* The first promise of the line settles: the next call of the sink waits, if there is one.
LEMMA HeadSettled ==
  ASSUME NEW w, NEW e, Good(w, e), e.at = "none", e.line # << >>, NEW p, p = e.line[1],
         NEW state, state \in Outcomes, NEW v, v \in Values,
         NEW t, t = Tail(e.line), NEW at, at = (IF t = << >> THEN "none" ELSE "task"),
         NEW f, f = EnvOf(e.pipes, t, e.key, at)
  PROVE  Goes(w, e, Settled(w, p, state, v), f)
<1>0. EnvOK(Size(w), e) /\ Size(w) \in Nat /\ StreamsOK(w, e) /\ OwedOK(w, e)
  BY LenHeap DEF Good
<1>1. e.line \in Seq(Nat) /\ e.pipes \subseteq Readables /\ e.key \in Nat
  BY <1>0, EnvIs
<1>2. PICK s : s = e.line
  OBVIOUS
<1>3. /\ t \in Seq(Nat) /\ DOMAIN s = 1 .. Len(s) /\ Len(s) \in Nat /\ Len(s) >= 1 /\ 1 \in DOMAIN s /\ Len(s) \in DOMAIN s
      /\ DOMAIN t = 1 .. (Len(s) - 1) /\ Len(t) = Len(s) - 1
      /\ \A i \in 1 .. (Len(s) - 1) : t[i] = s[i + 1]
      /\ t = << >> <=> Len(s) = 1
  <2>1. s \in Seq(Nat) /\ s # << >> /\ t = Tail(s)
    BY <1>1, <1>2
  <2> QED
    BY <2>1, TailIs
<1>20. \A i \in DOMAIN t : i \in Nat /\ i + 1 \in DOMAIN s /\ t[i] = s[i + 1] /\ i + 1 # 1
  <2>1. s \in Seq(Nat) /\ s # << >> /\ t = Tail(s)
    BY <1>1, <1>2
  <2> QED
    BY <2>1, TailAt
<1>21. 1 \in DOMAIN s /\ p = s[1]
  BY <1>2, <1>3
<1>4. \A i, j \in DOMAIN s : s[i] = s[j] => i = j
  BY <1>0, <1>2 DEF EnvOK
<1>5. /\ f.pipes = e.pipes /\ f.line = t /\ f.key = e.key /\ f.at = at /\ at \in {"none", "task"}
      /\ f = [pipes |-> e.pipes, line |-> t, key |-> e.key, at |-> at]
  BY DEF EnvOf
<1>6. Held(e) = {s[i] : i \in DOMAIN s}
  BY <1>2 DEF Held
<1>7. Held(f) = {t[i] : i \in DOMAIN t}
  BY <1>5 DEF Held
<1>8. Held(f) \subseteq Held(e) /\ p \in Held(e) /\ p \notin Held(f)
  <2>1. ASSUME NEW i \in DOMAIN t PROVE t[i] \in Held(e) /\ t[i] # p
    <3>1. i + 1 \in DOMAIN s /\ t[i] = s[i + 1] /\ i + 1 # 1
      BY <1>20
    <3>2. s[i + 1] # s[1]
      BY <1>4, <1>21, <3>1
    <3> QED
      BY <1>6, <1>21, <3>1, <3>2
  <2> QED
    BY <1>6, <1>7, <1>21, <2>1
<1>9. EnvOK(Size(w), f)
  <2>1. Held(f) \subseteq 1 .. Size(w)
    BY <1>0, <1>8 DEF EnvOK
  <2>2. ASSUME NEW i \in DOMAIN t, NEW j \in DOMAIN t, t[i] = t[j] PROVE i = j
    <3>1. i + 1 \in DOMAIN s /\ t[i] = s[i + 1] /\ j + 1 \in DOMAIN s /\ t[j] = s[j + 1]
      BY <1>20
    <3>2. i + 1 = j + 1
      BY <1>4, <2>2, <3>1
    <3>3. i \in Nat /\ j \in Nat
      BY <1>20
    <3> QED
      BY <3>2, <3>3
  <2>3. f \in Envs
    BY <1>1, <1>3, <1>5 DEF Envs
  <2>4. t = << >> => at = "none"
    OBVIOUS
  <2> QED
    BY <1>0, <1>5, <2>1, <2>2, <2>3, <2>4 DEF EnvOK
<1>10. ASSUME NEW r, NEW z, OnChain(r, z, e)
       PROVE  \E j \in 1 .. (Len(s) - 1) : s[j] = z /\ CallsSink(r, s[j + 1])
  BY <1>2, <1>10 DEF OnChain
<1>11. ASSUME NEW z \in All(w), z # p PROVE ChainStays(z, e, f)
  <2> SUFFICES ASSUME NEW r, OnChain(r, z, e) PROVE OnChain(r, z, f)
    BY DEF ChainStays
  <2>1. PICK j \in 1 .. (Len(s) - 1) : s[j] = z /\ CallsSink(r, s[j + 1])
    BY <1>10
  <2>2. j # 1
    BY <1>2, <1>11, <2>1
  <2>3. j - 1 \in 1 .. (Len(t) - 1) /\ t[j - 1] = s[j] /\ t[(j - 1) + 1] = s[j + 1]
    <3>1. j - 1 \in 1 .. (Len(t) - 1) /\ (j - 1) + 1 = j /\ j - 1 \in 1 .. (Len(s) - 1)
      BY <1>3, <2>1, <2>2
    <3>2. t[j - 1] = s[(j - 1) + 1] /\ t[j] = s[j + 1]
      BY <1>3, <2>1, <3>1
    <3> QED
      BY <3>1, <3>2
  <2> QED
    BY <1>5, <2>1, <2>3 DEF OnChain
<1>12. ASSUME NEW r, OnChain(r, p, e) PROVE IsToken(r, f)
  <2>1. PICK j \in 1 .. (Len(s) - 1) : s[j] = p /\ CallsSink(r, s[j + 1])
    BY <1>10, <1>12
  <2>5. j \in DOMAIN s
    BY <1>3, <2>1
  <2>2. j = 1
    BY <1>4, <1>21, <2>1, <2>5
  <2>6. 1 \in 1 .. (Len(s) - 1)
    BY <2>1, <2>2
  <2>7. Len(s) # 1 /\ 1 \in DOMAIN t
    BY <1>3, <2>6
  <2>3. Len(s) # 1 /\ t[1] = s[1 + 1]
    BY <1>20, <2>7
  <2>4. f.at = "task" /\ f.line[1] = s[j + 1]
    BY <1>3, <1>5, <2>2, <2>3
  <2> QED
    BY <2>1, <2>4 DEF IsToken
<1>13. NoTokens(w, e)
  BY DEF NoTokens, IsToken
<1>14. p \in All(w) /\ w.heap[p].state = "pending"
  BY <1>8, HeldAt
<1>15. OwedOK(w, f)
  <2>1. NoSinkAsks(w.owed)
    BY <1>0, SinkIdle
  <2>2. Free(Size(w), e) \subseteq Free(Size(w), f)
    BY <1>8 DEF Free
  <2> QED
    BY <1>0, <2>1, <2>2, OwedIdle
<1>16. PICK x : x = Settled(w, p, state, v)
  OBVIOUS
<1>17. x.heap[p].state # "pending" /\ x.ws = w.ws
  BY <1>14, <1>16, SettledAt
<1>18. LineOK(x, f)
  <2>1. w.ws["dst"].writing = s[Len(s)]
    BY <1>0, <1>2 DEF StreamsOK
  <2>2. CASE t = << >>
    <3>1. s[Len(s)] = p
      BY <1>2, <1>3, <2>2
    <3> QED
      BY <1>5, <1>17, <2>1, <2>2, <3>1 DEF LineOK
  <2>3. CASE t # << >>
    <3>1. t[Len(t)] = s[Len(s)]
      <4>1. Len(s) - 1 \in 1 .. (Len(s) - 1) /\ (Len(s) - 1) + 1 = Len(s)
        BY <1>3, <2>3
      <4> QED
        BY <1>3, <4>1
    <3> QED
      BY <1>5, <1>17, <2>1, <2>3, <3>1 DEF LineOK
  <2> QED
    BY <2>2, <2>3
<1>19. Goes(w, e, x, f)
  BY <1>5, <1>8, <1>9, <1>11, <1>12, <1>13, <1>14, <1>15, <1>16, <1>18, HeldSettled
<1> QED
  BY <1>16, <1>19

\* The sink's answer arrives: a microtask hands it to the line.
LEMMA KeySettled ==
  ASSUME NEW w, NEW e, Good(w, e), e.at = "owed", NEW p, p = e.key, NoSinkAsks(w.owed),
         NEW state, state \in Outcomes, NEW v, v \in Values,
         NEW f, f = EnvOf(e.pipes, e.line, e.key, "answer")
  PROVE  Goes(w, e, Settled(w, p, state, v), f)
<1>0. EnvOK(Size(w), e) /\ Size(w) \in Nat /\ StreamsOK(w, e) /\ OwedOK(w, e)
  BY LenHeap DEF Good
<1>1. e.line \in Seq(Nat) /\ e.pipes \subseteq Readables /\ e.key \in Nat /\ e.line # << >>
  BY <1>0, EnvIs DEF EnvOK
<1>2. /\ f.pipes = e.pipes /\ f.line = e.line /\ f.key = e.key /\ f.at = "answer"
      /\ f = [pipes |-> e.pipes, line |-> e.line, key |-> e.key, at |-> "answer"]
  BY DEF EnvOf
<1>3. Held(e) = {e.line[i] : i \in DOMAIN e.line} \cup {p} /\ Held(f) = {e.line[i] : i \in DOMAIN e.line}
  BY <1>2 DEF Held
<1>4. Held(f) \subseteq Held(e) /\ p \in Held(e) /\ p \notin Held(f)
  BY <1>0, <1>3 DEF EnvOK
<1>5. EnvOK(Size(w), f)
  <2>1. f \in Envs
    BY <1>1, <1>2 DEF Envs
  <2>2. Held(f) \subseteq 1 .. Size(w)
    BY <1>0, <1>4 DEF EnvOK
  <2> QED
    BY <1>0, <1>1, <1>2, <2>1, <2>2 DEF EnvOK
<1>6. ASSUME NEW z \in All(w), z # p PROVE ChainStays(z, e, f)
  BY <1>2, <1>6 DEF ChainStays, OnChain
<1>7. ASSUME NEW r, OnChain(r, p, e) PROVE IsToken(r, f)
  <2>1. ~ \E j \in 1 .. (Len(e.line) - 1) : e.line[j] = p
    <3>1. \A j \in 1 .. (Len(e.line) - 1) : j \in DOMAIN e.line
      BY <1>1, LenProperties
    <3> QED
      BY <1>0, <3>1 DEF EnvOK
  <2>2. AnswersSink(r, e.line[1])
    BY <1>7, <2>1 DEF OnChain
  <2> QED
    BY <1>2, <2>2 DEF IsToken
<1>8. NoTokens(w, e)
  BY DEF NoTokens, IsToken
<1>9. p \in All(w) /\ w.heap[p].state = "pending"
  BY <1>4, HeldAt
<1>10. OwedOK(w, f)
  <2>1. Free(Size(w), e) \subseteq Free(Size(w), f)
    BY <1>4 DEF Free
  <2> QED
    BY <1>0, <2>1, OwedIdle
<1>11. PICK x : x = Settled(w, p, state, v)
  OBVIOUS
<1>12. x.ws = w.ws
  BY <1>9, <1>11, SettledAt
<1>13. LineOK(x, f)
  BY <1>0, <1>1, <1>2, <1>12 DEF LineOK, StreamsOK
<1>14. Goes(w, e, x, f)
  BY <1>2, <1>4, <1>5, <1>6, <1>7, <1>8, <1>9, <1>10, <1>11, <1>13, HeldSettled
<1> QED
  BY <1>11, <1>14


-----------------------------------------------------------------------------
(* Writable streams                                                         *)

\* The chain moves as a promise is made.
LEMMA MadeMoves ==
  ASSUME NEW w, NEW e, Good(w, e), NEW x, IsWorld(x), x.heap = Made(w).w.heap, x.micro = w.micro,
         NEW f, Grows(Size(w), e, Size(w) + 1, f), EnvOK(Size(w) + 1, f),
         \A z \in All(w) : ChainStays(z, e, f) /\ (z \in Held(f) => z \in Held(e)),
         TokensStay(w, e, f), OwedOK(x, f), StreamsOK(x, f), ScriptOK(x)
  PROVE  Good(x, f)
<1>1. PICK n : n = Made(w).w
  OBVIOUS
<1>2. /\ n.heap \in Seq(PromiseShape) /\ Size(n) = Size(w) + 1 /\ n.micro = w.micro
      /\ n.heap[Size(w) + 1] = Pending
      /\ \A p \in All(w) : n.heap[p] = w.heap[p]
  BY <1>1, MadeIs
<1>3. Good(n, e)
  BY <1>1, MadeGood
<1>4. Size(w) \in Nat
  BY LenHeap
<1>5. x.heap = n.heap /\ Size(x) = Size(n) /\ All(x) = All(n)
  BY <1>1 DEF Size, All
<1>6. SeenOK(x)
  <2>1. SeenOK(n)
    BY <1>3 DEF Good
  <2>2. x.micro = n.micro /\ x.heap = n.heap /\ All(x) = All(n)
    BY <1>2, <1>5
  <2> QED
    BY <2>1, <2>2 DEF SeenOK
<1>7. ASSUME NEW z \in All(x) \ All(w) PROVE PromiseOK(x.heap[z], z, Size(x), f)
  <2>1. z = Size(w) + 1
    BY <1>2, <1>4, <1>5 DEF All
  <2>2. Pending \in PromiseShape
    BY DEF Pending, PromiseShape, States, Undefined
  <2>3. PromiseOK(Pending, z, Size(x), f)
    BY <2>2 DEF PromiseOK, Pending
  <2> QED
    BY <1>2, <1>5, <2>1, <2>3
<1>8. \A z \in All(w) : x.heap[z] = w.heap[z]
  BY <1>2, <1>5
<1>9. x.heap \in Seq(PromiseShape) /\ Grows(Size(w), e, Size(x), f) /\ EnvOK(Size(x), f)
  BY <1>2, <1>5
<1> QED
  BY <1>6, <1>7, <1>8, <1>9, Moves

LEMMA HeapWs ==
  ASSUME NEW n, IsWorld(n), NEW h, NEW m, NEW g
  PROVE  HeapMicro(WithWs(n, g), h, m) = WithWs(HeapMicro(n, h, m), g)
BY DEF IsWorld, HeapMicro, WithWs
LEMMA WsSet ==
  ASSUME NEW w, IsWorld(w), NEW s
  PROVE  LET x == WithWs(w, s) IN
         /\ IsWorld(x) /\ x.rs = w.rs /\ x.ws = s /\ x.heap = w.heap /\ x.micro = w.micro /\ x.owed = w.owed
         /\ SameScript(w, x)
<1>1. WithWs(w, s) = Streams(w, w.rs, s)
  BY OneStream
<1> QED
  BY <1>1, StreamsSet DEF SameScript
LEMMA SubscribedHeap ==
  ASSUME NEW n, IsWorld(n), NEW p, NEW f, NEW g0, NEW to,
         NEW r, r = [onF |-> f, onR |-> g0, to |-> to], NEW q, q = Hears(n.heap[p], g0)
  PROVE  /\ q.state = "pending" => Subscribed(n, p, f, g0, to) = HeapMicro(n, Put(n.heap, p, Reacts(q, r)), n.micro)
         /\ q.state # "pending" =>
              Subscribed(n, p, f, g0, to) = HeapMicro(n, Put(n.heap, p, q), Append(n.micro, Task(r, q.state, q.value)))
<1>1. PICK x : x = Subscribed(n, p, f, g0, to)
  OBVIOUS
<1>2. CASE q.state = "pending"
  <2>1. PICK h : h = Put(n.heap, p, Reacts(q, r))
    OBVIOUS
  <2>2. x = [n EXCEPT !.heap = h]
    BY <1>1, <1>2, <2>1 DEF Subscribed, Put, Reacts, Hears
  <2>3. x = HeapMicro(n, h, n.micro)
    BY <2>2 DEF HeapMicro, IsWorld
  <2> QED
    BY <1>1, <1>2, <2>1, <2>3
<1>3. CASE q.state # "pending"
  <2>1. PICK h : h = Put(n.heap, p, q)
    OBVIOUS
  <2>2. PICK m : m = Append(n.micro, Task(r, q.state, q.value))
    OBVIOUS
  <2>3. x = HeapMicro(n, h, m)
    BY <1>1, <1>3, <2>1, <2>2 DEF Subscribed, HeapMicro, Put, Hears, IsWorld
  <2> QED
    BY <1>1, <1>3, <2>1, <2>2, <2>3
<1> QED
  BY <1>2, <1>3
LEMMA SubscribedWs ==
  ASSUME NEW n, IsWorld(n), NEW g, NEW p, NEW f, NEW g0, NEW to, NEW y, y = WithWs(n, g)
  PROVE  Subscribed(y, p, f, g0, to) = WithWs(Subscribed(n, p, f, g0, to), g)
<1>1. IsWorld(y) /\ y.heap = n.heap /\ y.micro = n.micro
  BY WsSet
<1>2. PICK r : r = [onF |-> f, onR |-> g0, to |-> to]
  OBVIOUS
<1>3. PICK q : q = Hears(n.heap[p], g0)
  OBVIOUS
<1>4. PICK h : h = IF q.state = "pending" THEN Put(n.heap, p, Reacts(q, r)) ELSE Put(n.heap, p, q)
  OBVIOUS
<1>5. PICK m : m = IF q.state = "pending" THEN n.micro ELSE Append(n.micro, Task(r, q.state, q.value))
  OBVIOUS
<1>6. Subscribed(n, p, f, g0, to) = HeapMicro(n, h, m)
  BY <1>2, <1>3, <1>4, <1>5, SubscribedHeap
<1>7. Subscribed(y, p, f, g0, to) = HeapMicro(y, h, m)
  <2>1. q = Hears(y.heap[p], g0)
    BY <1>1, <1>3
  <2> QED
    BY <1>1, <1>2, <1>4, <1>5, <2>1, SubscribedHeap
<1> QED
  BY <1>6, <1>7, HeapWs

\* The last promise of the chain of stream s.
Writing(w, s, n) == [w.ws EXCEPT ![s].writing = n]

\* A call that hangs on the last one, seen from the promise that is made for it.
LEMMA ChainedIs ==
  ASSUME NEW w, NEW e, Good(w, e), NEW s, s \in Writables, NEW p, p = w.ws[s].writing, p \in All(w),
         NEW f, NEW n, n = Made(w).w, NEW y, y = WithWs(n, Writing(w, s, Size(w) + 1))
  PROVE  /\ Chained(w, s, f).w = Subscribed(y, p, f, NoCode, Size(w) + 1) /\ Chained(w, s, f).p = Size(w) + 1
<1>1. IsWorld(n) /\ Made(w).p = Size(w) + 1 /\ Rest(n) = Rest(w) /\ Good(n, e) /\ Size(n) = Size(w) + 1
  BY MadeIs, MadeGood
<1>2. p \in All(n)
  BY <1>1, LenHeap DEF All
<1>3. PICK x : x = Subscribed(n, p, f, NoCode, Size(w) + 1)
  OBVIOUS
<1>4. Rest(x) = Rest(n)
  <2>1. PICK r : r = [onF |-> f, onR |-> NoCode, to |-> Size(w) + 1]
    OBVIOUS
  <2>2. PICK q : q = Hears(n.heap[p], NoCode)
    OBVIOUS
  <2> QED
    BY <1>1, <1>2, <1>3, <2>1, <2>2, SubscribedIs
<1>5. x.ws = w.ws
  BY <1>1, <1>4 DEF Rest
<1>6. Then(w, p, f, NoCode) = [w |-> x, p |-> Size(w) + 1]
  BY <1>1, <1>3 DEF Then, ThenTo
<1>7. Chained(w, s, f) = [w |-> [x EXCEPT !.ws[s].writing = Size(w) + 1], p |-> Size(w) + 1]
  BY <1>6 DEF Chained
<1>8. [x EXCEPT !.ws[s].writing = Size(w) + 1] = WithWs(x, Writing(w, s, Size(w) + 1))
  BY <1>5 DEF WithWs, Writing
<1>9. PICK g : g = Writing(w, s, Size(w) + 1)
  OBVIOUS
<1>10. Subscribed(y, p, f, NoCode, Size(w) + 1) = WithWs(x, g)
  BY <1>1, <1>3, <1>9, SubscribedWs
<1> QED
  BY <1>7, <1>8, <1>9, <1>10


EndOf(g, s) == g[s].writing
WsShape(k) == [Writables -> WritableShape(k)]
LEMMA NextWriting ==
  ASSUME NEW w, NEW k, k \in Nat, w.ws \in WsShape(k), NEW s, s \in Writables, NEW m, m = k + 1
  PROVE  /\ Writing(w, s, m) \in WsShape(m) /\ EndOf(Writing(w, s, m), s) = m
         /\ \A z \in Writables : z # s => Writing(w, s, m)[z] = w.ws[z]
<1>0. m \in Nat /\ k <= m
  OBVIOUS
<1>1. w.ws \in [Writables -> WritableShape(m)]
  BY <1>0, ShapesWider DEF WsShape
<1>2. PICK r : r = [w.ws[s] EXCEPT !.writing = m]
  OBVIOUS
<1>3. r \in WritableShape(m) /\ r.writing = m
  BY <1>1, <1>2 DEF WritableShape
<1>4. Writing(w, s, m) = [w.ws EXCEPT ![s] = r]
  BY <1>2 DEF Writing
<1> QED
  BY <1>1, <1>3, <1>4 DEF EndOf, WsShape

LEMMA LastIs ==
  ASSUME NEW s, s \in Seq(Nat), NEW n, n \in Nat, NEW t, t = Append(s, n)
  PROVE  /\ t \in Seq(Nat) /\ t # << >> /\ Len(s) \in Nat /\ Len(t) = Len(s) + 1 /\ DOMAIN t = 1 .. (Len(s) + 1) /\ DOMAIN s = 1 .. Len(s)
         /\ t[Len(s) + 1] = n /\ \A i \in DOMAIN s : t[i] = s[i]
<1>1. /\ t \in Seq(Nat) /\ Len(t) = Len(s) + 1 /\ t[Len(s) + 1] = n
      /\ \A i \in 1 .. Len(s) : t[i] = s[i]
  BY AppendProperties
<1>2. Len(s) \in Nat /\ DOMAIN s = 1 .. Len(s) /\ DOMAIN t = 1 .. (Len(s) + 1)
  BY <1>1, LenProperties
<1> QED
  BY <1>1, <1>2, EmptySeq

\* A promise is made and hangs on the last of the sink's line.
LEMMA Lengthens ==
  ASSUME NEW w, NEW e, Good(w, e), NEW n, n = Made(w).w,
         NEW k, k = Size(w), NEW y, y = WithWs(n, Writing(w, "dst", k + 1)),
         NEW t, t = Append(e.line, k + 1), NEW f, f = EnvOf(e.pipes, t, e.key, e.at)
  PROVE  Goes(w, e, y, f) /\ Size(y) = k + 1 /\ Grows(k, e, k + 1, f) /\ (\A z \in All(w) : y.heap[z] = w.heap[z])
         /\ f.pipes = e.pipes /\ f.line = t /\ f.key = e.key /\ f.at = e.at /\ EnvOK(k + 1, f) /\ Writes(w, y)
<1>1. /\ k \in Nat /\ EnvOK(k, e) /\ StreamsOK(w, e) /\ OwedOK(w, e)
  BY LenHeap DEF Good
<1>0. k \in Nat
  BY <1>1
<1>2. /\ IsWorld(n) /\ n.micro = w.micro /\ Rest(n) = Rest(w) /\ Size(n) = k + 1 /\ (\A z \in All(w) : n.heap[z] = w.heap[z])
  BY MadeIs
<1>3. PICK g : g = Writing(w, "dst", k + 1)
  OBVIOUS
<1>4. IsWorld(y) /\ y.rs = n.rs /\ y.ws = g /\ y.heap = n.heap /\ y.micro = n.micro /\ y.owed = n.owed /\ SameScript(n, y)
  BY <1>2, <1>3, WsSet
<1>5. y.rs = w.rs /\ y.owed = w.owed /\ SameScript(w, y) /\ y.plan = w.plan
  BY <1>2, <1>4 DEF Rest, SameScript
<1>6. Size(y) = k + 1
  BY <1>2, <1>4 DEF Size
<1>7. /\ g \in [Writables -> WritableShape(k + 1)] /\ g["dst"].writing = k + 1
      /\ \A z \in Writables : z # "dst" => g[z] = w.ws[z]
  <2>1. w.ws \in WsShape(k) /\ "dst" \in Writables
    BY <1>1 DEF StreamsOK, WsShape, Writables
  <2>2. PICK m : m = k + 1
    OBVIOUS
  <2>3. PICK s : s = "dst"
    OBVIOUS
  <2>4. g = Writing(w, s, m) /\ s \in Writables
    BY <1>3, <2>1, <2>2, <2>3
  <2>5. g \in WsShape(m)
    BY <1>0, <2>1, <2>2, <2>4, NextWriting
  <2>6. EndOf(g, s) = m
    BY <1>0, <2>1, <2>2, <2>4, NextWriting
  <2>7. \A z \in Writables : z # s => g[z] = w.ws[z]
    BY <1>0, <2>1, <2>2, <2>4, NextWriting
  <2> QED
    BY <2>2, <2>3, <2>5, <2>6, <2>7 DEF EndOf, WsShape
<1>8. Writes(w, y)
  BY <1>1, <1>4, <1>7 DEF Writes
<1>9. /\ f.pipes = e.pipes /\ f.line = t /\ f.key = e.key /\ f.at = e.at
      /\ f = [pipes |-> e.pipes, line |-> t, key |-> e.key, at |-> e.at]
  BY DEF EnvOf
<1>10. PICK s : s = e.line
  OBVIOUS
<1>11. /\ t \in Seq(Nat) /\ t # << >> /\ Len(s) \in Nat /\ Len(t) = Len(s) + 1 /\ DOMAIN t = 1 .. (Len(s) + 1) /\ DOMAIN s = 1 .. Len(s)
       /\ t[Len(s) + 1] = k + 1 /\ \A i \in DOMAIN s : t[i] = s[i]
  <2>1. PICK m : m = k + 1
    OBVIOUS
  <2>2. s \in Seq(Nat)
    BY <1>1, <1>10, EnvIs
  <2>3. m \in Nat /\ t = Append(s, m)
    BY <1>1, <1>10, <2>1
  <2>4. t \in Seq(Nat) /\ t # << >>
    BY <2>2, <2>3, LastIs
  <2>5. Len(s) \in Nat /\ Len(t) = Len(s) + 1
    BY <2>2, <2>3, LastIs
  <2>6. DOMAIN t = 1 .. (Len(s) + 1) /\ DOMAIN s = 1 .. Len(s)
    BY <2>2, <2>3, LastIs
  <2>7. t[Len(s) + 1] = m
    BY <2>2, <2>3, LastIs
  <2>8. \A i \in DOMAIN s : t[i] = s[i]
    BY <2>2, <2>3, LastIs
  <2> QED
    BY <2>1, <2>4, <2>5, <2>6, <2>7, <2>8
<1>12. \A i \in DOMAIN t : i \in DOMAIN s \/ i = Len(s) + 1
  BY <1>11
<1>13. \A i \in DOMAIN s : s[i] \in 1 .. k /\ t[i] = s[i] /\ i \in DOMAIN t
  BY <1>1, <1>10, <1>11 DEF EnvOK, Held
<1>14. Held(f) = Held(e) \cup {k + 1}
  <2>1. {t[i] : i \in DOMAIN t} = {s[i] : i \in DOMAIN s} \cup {k + 1}
    <3>1. \A i \in DOMAIN t : t[i] \in {s[j] : j \in DOMAIN s} \cup {k + 1}
      BY <1>11, <1>12, <1>13
    <3>2. \A i \in DOMAIN s : s[i] \in {t[j] : j \in DOMAIN t}
      BY <1>13
    <3>3. k + 1 \in {t[j] : j \in DOMAIN t}
      <4>1. Len(s) + 1 \in DOMAIN t /\ t[Len(s) + 1] = k + 1
        BY <1>11
      <4> QED
        BY <4>1
    <3> QED
      BY <3>1, <3>2, <3>3
  <2>2. Held(f) = {t[i] : i \in DOMAIN t} \cup (IF e.at = "owed" THEN {e.key} ELSE {})
    BY <1>9 DEF Held
  <2>3. Held(e) = {s[i] : i \in DOMAIN s} \cup (IF e.at = "owed" THEN {e.key} ELSE {})
    BY <1>10 DEF Held
  <2> QED
    BY <2>1, <2>2, <2>3
<1>15. EnvOK(k + 1, f)
  <2>1. f \in Envs
    BY <1>1, <1>9, <1>11 DEF EnvOK, Envs
  <2>2. Held(f) \subseteq 1 .. (k + 1)
    BY <1>1, <1>14 DEF EnvOK
  <2>3. \A i, j \in DOMAIN s : s[i] = s[j] => i = j
    BY <1>1, <1>10 DEF EnvOK
  <2>4. \A i \in DOMAIN s : t[i] # k + 1
    BY <1>1, <1>13
  <2>5. ASSUME NEW i \in DOMAIN t, NEW j \in DOMAIN t, t[i] = t[j] PROVE i = j
    <3>1. CASE i \in DOMAIN s /\ j \in DOMAIN s
      BY <1>13, <2>3, <2>5, <3>1
    <3>2. CASE i = Len(s) + 1 /\ j = Len(s) + 1
      BY <3>2
    <3>3. CASE i \in DOMAIN s /\ j = Len(s) + 1
      BY <1>11, <2>4, <2>5, <3>3
    <3>4. CASE i = Len(s) + 1 /\ j \in DOMAIN s
      BY <1>11, <2>4, <2>5, <3>4
    <3> QED
      BY <1>12, <3>1, <3>2, <3>3, <3>4
  <2>6. ASSUME e.at = "owed", NEW i \in DOMAIN t PROVE t[i] # e.key
    <3>1. e.key \in 1 .. k /\ \A j \in DOMAIN s : s[j] # e.key
      BY <1>1, <1>10, <2>6 DEF EnvOK, Held
    <3>2. CASE i \in DOMAIN s
      BY <1>13, <3>1, <3>2
    <3>3. CASE i = Len(s) + 1
      BY <1>1, <1>11, <3>1, <3>3
    <3> QED
      BY <1>12, <3>2, <3>3
  <2>7. \A i, j \in DOMAIN f.line : f.line[i] = f.line[j] => i = j
    BY <1>9, <2>5
  <2>8. f.at = "owed" => \A i \in DOMAIN f.line : f.line[i] # f.key
    BY <1>9, <2>6
  <2>9. f.line # << >> /\ k + 1 \in Nat
    BY <1>1, <1>9, <1>11
  <2> QED
    BY <2>1, <2>2, <2>7, <2>8, <2>9 DEF EnvOK
<1>16. Grows(k, e, k + 1, f)
  BY <1>1, <1>9, <1>14 DEF Grows, Free
<1>17. e.at # "none" => s # << >> /\ t[1] = e.line[1]
  <2> SUFFICES ASSUME e.at # "none" PROVE s # << >> /\ t[1] = e.line[1]
    OBVIOUS
  <2>1. e.line # << >>
    BY <1>1 DEF EnvOK
  <2>2. 1 \in DOMAIN s
    BY <1>1, <1>10, <2>1, EnvIs
  <2> QED
    BY <1>10, <1>13, <2>1, <2>2
<1>18. ASSUME NEW z \in All(w) PROVE ChainStays(z, e, f) /\ (z \in Held(f) => z \in Held(e))
  <2>1. ASSUME NEW r, OnChain(r, z, e) PROVE OnChain(r, z, f)
    <3>1. CASE e.at = "owed" /\ z = e.key /\ AnswersSink(r, e.line[1])
      BY <1>9, <1>17, <3>1 DEF OnChain
    <3>2. CASE \E j \in 1 .. (Len(e.line) - 1) : e.line[j] = z /\ CallsSink(r, e.line[j + 1])
      <4>1. PICK j \in 1 .. (Len(s) - 1) : s[j] = z /\ CallsSink(r, s[j + 1])
        BY <1>10, <3>2
      <4>2. j \in DOMAIN s /\ j + 1 \in DOMAIN s /\ j \in 1 .. (Len(t) - 1)
        BY <1>11, <4>1
      <4>3. t[j] = z /\ t[j + 1] = s[j + 1]
        BY <1>13, <4>1, <4>2
      <4> QED
        BY <1>9, <4>1, <4>2, <4>3 DEF OnChain
    <3> QED
      BY <2>1, <3>1, <3>2 DEF OnChain
  <2>2. z # k + 1
    BY <1>1 DEF All
  <2> QED
    BY <1>14, <2>1, <2>2 DEF ChainStays
<1>19. TokensStay(w, e, f)
  BY <1>9, <1>17 DEF TokensStay, IsToken
<1>20. OwedOK(y, f)
  <2>1. y.owed \subseteq [who : Asks, p : All(y), n : Int]
    <3>1. All(w) \subseteq All(y)
      BY <1>1, <1>6 DEF All
    <3> QED
      BY <1>1, <1>5, <3>1 DEF OwedOK
  <2>2. ASSUME NEW o \in y.owed
        PROVE  CASE o.who = "sinkStart" -> f.at = "start" /\ o.p = f.line[1]
                 [] o.who \in {"write", "close"} -> f.at = "owed" /\ o.p = f.key
                 [] OTHER -> o.p \in Free(Size(y), f)
    <3>1. CASE o.who = "sinkStart"
      BY <1>1, <1>5, <1>9, <1>17, <3>1 DEF OwedOK
    <3>2. CASE o.who \in {"write", "close"}
      BY <1>1, <1>5, <1>9, <3>2 DEF OwedOK
    <3>3. CASE o.who \notin {"sinkStart", "write", "close"}
      BY <1>1, <1>5, <1>6, <1>16, <3>3 DEF OwedOK, Grows
    <3> QED
      BY <3>1, <3>2, <3>3
  <2>3. \A o, q \in y.owed : o.who \in SinkAsks /\ q.who \in SinkAsks => o = q
    BY <1>1, <1>5 DEF OwedOK
  <2> QED
    BY <2>1, <2>2, <2>3 DEF OwedOK
<1>21. LineOK(y, f)
  BY <1>4, <1>7, <1>9, <1>11 DEF LineOK
<1>22. StreamsOK(y, f)
  BY <1>4, <1>5, <1>6, <1>7, <1>8, <1>9, <1>16, <1>21, StreamsMove
<1>23. ScriptOK(y)
  <2>1. All(w) \subseteq All(y)
    BY <1>1, <1>6 DEF All
  <2> QED
    BY <1>5, <1>8, <2>1, ScriptMoves
<1>24. Good(y, f)
  <2>1. y.heap = Made(w).w.heap /\ y.micro = w.micro
    BY <1>2, <1>4
  <2> QED
    BY <1>4, <1>15, <1>16, <1>18, <1>19, <1>20, <1>22, <1>23, <2>1, MadeMoves
<1>25. Goes(w, e, y, f)
  BY <1>1, <1>5, <1>6, <1>8, <1>9, <1>16, <1>24 DEF Goes, Grows, Writes
<1> QED
  BY <1>2, <1>4, <1>6, <1>8, <1>9, <1>15, <1>16, <1>25
=============================================================================
