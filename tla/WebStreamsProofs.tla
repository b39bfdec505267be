---------------------------- MODULE WebStreamsProofs ----------------------------
(***************************************************************************)
(* Promises and web streams for every bound: whatever the order of         *)
(* microtasks, sources and sinks, every rejection without a handler is     *)
(* seen, and the sink is asked to do one thing at a time.                  *)
(***************************************************************************)
EXTENDS WebWorldProofs

\* The promise made for the next call of the sink of a transform.
LEMMA InGrows ==
  ASSUME NEW w, NEW e, Good(w, e), NEW n, n = Made(w).w,
         NEW k, k = Size(w), NEW y, y = WithWs(n, Writing(w, "in", k + 1))
  PROVE  Goes(w, e, y, e) /\ Size(y) = k + 1
<1>1. /\ k \in Nat /\ EnvOK(k, e) /\ StreamsOK(w, e) /\ Good(n, e)
  BY LenHeap, MadeGood DEF Good
<1>2. /\ IsWorld(n) /\ n.micro = w.micro /\ Rest(n) = Rest(w) /\ Size(n) = k + 1 /\ (\A z \in All(w) : n.heap[z] = w.heap[z])
  BY MadeIs
<1>3. PICK g : g = Writing(w, "in", k + 1)
  OBVIOUS
<1>4. IsWorld(y) /\ y.rs = n.rs /\ y.ws = g /\ y.heap = n.heap /\ y.micro = n.micro /\ y.owed = n.owed /\ SameScript(n, y)
  BY <1>2, <1>3, WsSet
<1>5. y.rs = w.rs /\ y.owed = w.owed /\ SameScript(w, y) /\ y.plan = w.plan
  BY <1>2, <1>4 DEF Rest, SameScript
<1>6. Size(y) = k + 1 /\ All(y) = All(n) /\ k <= k + 1 /\ k + 1 \in Nat
  BY <1>1, <1>2, <1>4 DEF Size, All
<1>7. /\ g \in [Writables -> WritableShape(k + 1)] /\ g["in"].writing = k + 1
      /\ \A z \in Writables : z # "in" => g[z] = w.ws[z]
  <2>1. w.ws \in WsShape(k) /\ "in" \in Writables
    BY <1>1 DEF StreamsOK, WsShape, Writables
  <2>2. PICK m : m = k + 1
    OBVIOUS
  <2>3. PICK s : s = "in"
    OBVIOUS
  <2>4. g = Writing(w, s, m) /\ s \in Writables /\ k \in Nat
    BY <1>1, <1>3, <2>1, <2>2, <2>3
  <2>5. g \in WsShape(m)
    BY <2>1, <2>2, <2>4, NextWriting
  <2>6. EndOf(g, s) = m
    BY <2>1, <2>2, <2>4, NextWriting
  <2>7. \A z \in Writables : z # s => g[z] = w.ws[z]
    BY <2>1, <2>2, <2>4, NextWriting
  <2> QED
    BY <2>2, <2>3, <2>5, <2>6, <2>7 DEF EndOf, WsShape
<1>8. Writes(w, y)
  BY <1>1, <1>4, <1>7 DEF Writes
<1>9. Grows(k, e, k + 1, e)
  BY <1>1, <1>6, Wider DEF Grows
<1>10. OwedOK(y, e)
  <2>1. OwedOK(n, e)
    BY <1>1 DEF Good
  <2> QED
    BY <1>2, <1>4, <1>6, <2>1 DEF OwedOK
<1>11. LineOK(y, e)
  <2>1. y.ws["dst"] = w.ws["dst"]
    BY <1>4, <1>7 DEF Writables
  <2>2. w.ws["dst"].writing # 0 => w.ws["dst"].writing \in All(w)
    BY <1>1 DEF StreamsOK, Writables, WritableShape, All
  <2> QED
    BY <1>1, <1>2, <1>4, <2>1, <2>2 DEF LineOK, StreamsOK
<1>12. StreamsOK(y, e)
  BY <1>4, <1>5, <1>6, <1>7, <1>8, <1>9, <1>11, StreamsMove
<1>13. ScriptOK(y)
  <2>1. All(w) \subseteq All(y)
    BY <1>1, <1>6 DEF All
  <2> QED
    BY <1>5, <1>8, <2>1, ScriptMoves
<1>14. Good(y, e)
  <2>1. y.heap = Made(w).w.heap /\ y.micro = w.micro
    BY <1>2, <1>4
  <2>2. \A z \in All(w) : ChainStays(z, e, e) /\ (z \in Held(e) => z \in Held(e))
    BY DEF ChainStays
  <2>3. TokensStay(w, e, e)
    BY DEF TokensStay
  <2>4. EnvOK(k + 1, e)
    BY <1>1, <1>6 DEF EnvOK
  <2> QED
    BY <1>4, <1>9, <1>10, <1>12, <1>13, <2>1, <2>2, <2>3, <2>4, MadeMoves
<1>15. Goes(w, e, y, e)
  BY <1>5, <1>6, <1>8, <1>9, <1>14 DEF Goes, Grows, Writes
<1> QED
  BY <1>6, <1>15

\* A call of the transform's sink hangs on the last one.
LEMMA InChained ==
  ASSUME NEW w, NEW e, Good(w, e), NEW s, s = "in", w.ws[s].writing # 0,
         NEW c, c \in Codes(Size(w), e), NEW t, t = Chained(w, s, c)
  PROVE  Goes(w, e, t.w, e) /\ t.p \in All(t.w)
<1>1. PICK k : k = Size(w)
  OBVIOUS
<1>2. PICK p : p = w.ws[s].writing
  OBVIOUS
<1>3. k \in Nat /\ s \in Writables /\ p \in All(w)
  <2>1. w.ws \in [Writables -> WritableShape(k)] /\ k \in Nat /\ s \in Writables
    BY <1>1, LenHeap DEF Good, StreamsOK, Writables
  <2> QED
    BY <1>1, <1>2, <2>1 DEF WritableShape, All
<1>4. PICK n : n = Made(w).w
  OBVIOUS
<1>5. PICK y : y = WithWs(n, Writing(w, s, k + 1))
  OBVIOUS
<1>6. t.w = Subscribed(y, p, c, NoCode, k + 1) /\ t.p = k + 1
  BY <1>1, <1>2, <1>3, <1>4, <1>5, ChainedIs
<1>7. Goes(w, e, y, e) /\ Size(y) = k + 1
  <2>1. y = WithWs(n, Writing(w, "in", k + 1))
    BY <1>5
  <2> QED
    BY <1>1, <1>4, <2>1, InGrows
<1>8. Good(y, e) /\ p \in All(y) /\ c \in Codes(Size(y), e) /\ NoCode \in Codes(Size(y), e)
  BY <1>3, <1>7, GoesWider, NoCodeIs
<1>9. k + 1 \in Free(Size(y), e)
  <2>1. Held(e) \subseteq All(w)
    BY DEF Good, EnvOK, All
  <2> QED
    BY <1>1, <1>3, <1>7, <2>1 DEF Free, All
<1>10. PICK q : q = k + 1
  OBVIOUS
<1>11. Goes(y, e, t.w, e)
  <2>1. q \in {0} \cup Free(Size(y), e) /\ t.w = Subscribed(y, p, c, NoCode, q)
    BY <1>6, <1>9, <1>10
  <2>2. Goes(y, e, Subscribed(y, p, c, NoCode, q), e)
    BY <1>8, <2>1, SubscribedGoes
  <2> QED
    BY <2>1, <2>2
<1>12. Goes(w, e, t.w, e)
  BY <1>7, <1>11, GoesFurther
<1>13. k + 1 \in All(y) /\ All(y) \subseteq All(t.w)
  <2>1. k + 1 \in All(y)
    BY <1>3, <1>7 DEF All
  <2> QED
    BY <1>8, <1>11, <2>1, GoesWider
<1> QED
  BY <1>6, <1>12, <1>13

\* A call of the sink hangs on the last one, or waits as a microtask.
LEMMA DstChained ==
  ASSUME NEW w, NEW e, Good(w, e), NEW s, s = "dst", w.ws[s].writing # 0,
         NEW c, c \in CodeShape, c.do \in SinkCalls, c.s = "dst", NEW t, t = Chained(w, s, c)
  PROVE  (\E f : Goes(w, e, t.w, f)) /\ t.p \in All(t.w)
<1>1. PICK k : k = Size(w)
  OBVIOUS
<1>2. PICK p : p = w.ws[s].writing
  OBVIOUS
<1>3. k \in Nat /\ s \in Writables /\ p \in All(w)
  <2>1. w.ws \in [Writables -> WritableShape(k)] /\ k \in Nat /\ s \in Writables
    BY <1>1, LenHeap DEF Good, StreamsOK, Writables
  <2> QED
    BY <1>1, <1>2, <2>1 DEF WritableShape, All
<1>4. PICK n : n = Made(w).w
  OBVIOUS
<1>5. PICK y : y = WithWs(n, Writing(w, s, k + 1))
  OBVIOUS
<1>6. PICK q : q = k + 1
  OBVIOUS
<1>7. t.w = Subscribed(y, p, c, NoCode, q) /\ t.p = q
  <2>1. t.w = Subscribed(y, p, c, NoCode, k + 1) /\ t.p = k + 1
    BY <1>1, <1>2, <1>3, <1>4, <1>5, ChainedIs
  <2> QED
    BY <1>6, <2>1
<1>8. PICK l : l = Append(e.line, k + 1)
  OBVIOUS
<1>9. PICK f : f = EnvOf(e.pipes, l, e.key, e.at)
  OBVIOUS
<1>10. /\ Goes(w, e, y, f) /\ Size(y) = q /\ Grows(k, e, q, f) /\ (\A z \in All(w) : y.heap[z] = w.heap[z])
       /\ f.pipes = e.pipes /\ f.line = l /\ f.key = e.key /\ f.at = e.at /\ EnvOK(q, f)
  <2>1. y = WithWs(n, Writing(w, "dst", k + 1))
    BY <1>5
  <2>2. Goes(w, e, y, f)
    BY <1>1, <1>4, <1>8, <1>9, <2>1, Lengthens
  <2>7. Size(y) = k + 1
    BY <1>1, <1>4, <1>8, <1>9, <2>1, Lengthens
  <2>3. Grows(k, e, k + 1, f)
    BY <1>1, <1>4, <1>8, <1>9, <2>1, Lengthens
  <2>4. \A z \in All(w) : y.heap[z] = w.heap[z]
    BY <1>1, <1>4, <1>8, <1>9, <2>1, Lengthens
  <2>5. f.pipes = e.pipes /\ f.line = l /\ f.key = e.key /\ f.at = e.at
    BY <1>9 DEF EnvOf
  <2>6. EnvOK(k + 1, f)
    BY <1>1, <1>4, <1>8, <1>9, <2>1, Lengthens
  <2> QED
    BY <1>6, <2>2, <2>3, <2>4, <2>5, <2>6, <2>7
<1>11. Good(y, f) /\ p \in All(y) /\ q \in All(y) /\ y.heap[p] = w.heap[p]
  <2>1. All(w) \subseteq All(y) /\ Good(y, f)
    BY <1>10, GoesWider
  <2>2. q \in All(y)
    BY <1>3, <1>6, <1>10 DEF All
  <2> QED
    BY <1>3, <1>10, <2>1, <2>2
<1>12. PICK r : r = [onF |-> c, onR |-> NoCode, to |-> q]
  OBVIOUS
<1>13. r \in ReactionShape /\ CallsSink(r, q)
  <2>1. q \in Nat
    BY <1>3, <1>6
  <2>2. NoCode \in CodeShape
    <3>1. NoCode \in Codes(k, e)
      BY <1>3, NoCodeIs
    <3> QED
      BY <3>1 DEF Codes, CodeShape
  <2> QED
    BY <1>12, <2>1, <2>2 DEF ReactionShape, CallsSink
<1>14. PICK d : d = e.line
  OBVIOUS
<1>15. /\ l # << >> /\ Len(d) \in Nat /\ Len(l) = Len(d) + 1 /\ DOMAIN d = 1 .. Len(d)
       /\ l[Len(d) + 1] = q /\ \A i \in DOMAIN d : l[i] = d[i]
  <2>1. d \in Seq(Nat) /\ q \in Nat /\ l = Append(d, q)
    BY <1>1, <1>3, <1>6, <1>8, <1>14, EnvIs DEF Good
  <2>2. l # << >>
    BY <2>1, LastIs
  <2>3. Len(d) \in Nat /\ Len(l) = Len(d) + 1
    BY <2>1, LastIs
  <2>4. DOMAIN d = 1 .. Len(d)
    BY <2>1, LastIs
  <2>5. l[Len(d) + 1] = q
    BY <2>1, LastIs
  <2>6. \A i \in DOMAIN d : l[i] = d[i]
    BY <2>1, LastIs
  <2> QED
    BY <2>2, <2>3, <2>4, <2>5, <2>6
<1>16. CASE e.line # << >>
  <2>1. Len(d) \in DOMAIN d /\ d[Len(d)] = p
    <3>1. Len(d) \in DOMAIN d
      BY <1>1, <1>14, <1>16, EnvIs DEF Good
    <3> QED
      BY <1>2, <1>14, <1>16, <3>1 DEF Good, StreamsOK
  <2>2. OnChain(r, p, f)
    <3>1. Len(d) \in 1 .. (Len(l) - 1) /\ l[Len(d)] = p /\ l[Len(d) + 1] = q
      BY <1>15, <2>1
    <3> QED
      BY <1>10, <1>13, <3>1 DEF OnChain
  <2>3. p \in Held(e)
    BY <1>14, <2>1 DEF Held
  <2>4. y.heap[p].state = "pending"
    BY <1>11, <2>3, HeldAt
  <2>5. \A z : ~OnChain(z, p, e)
    <3>1. EnvOK(k, e)
      BY <1>1 DEF Good
    <3>2. \A j \in 1 .. (Len(d) - 1) : j \in DOMAIN d /\ j # Len(d)
      <4>1. PICK a : a = Len(d)
        OBVIOUS
      <4>2. a \in Nat /\ DOMAIN d = 1 .. a
        BY <1>15, <4>1
      <4>3. \A j \in 1 .. (a - 1) : j \in 1 .. a /\ j # a
        BY <4>2
      <4> QED
        BY <4>1, <4>2, <4>3
    <3>3. \A j \in 1 .. (Len(d) - 1) : d[j] # p
      BY <1>14, <2>1, <3>1, <3>2 DEF EnvOK
    <3>4. e.at = "owed" => p # e.key
      BY <1>14, <2>1, <3>1 DEF EnvOK
    <3> QED
      BY <1>14, <3>3, <3>4 DEF OnChain
  <2>6. \A i \in DOMAIN y.heap[p].reactions : ~OnChain(y.heap[p].reactions[i], p, f)
    <3>1. PromiseOK(w.heap[p], p, k, e)
      BY <1>1, <1>3, PromiseAt
    <3>2. \A i \in DOMAIN y.heap[p].reactions : y.heap[p].reactions[i] \in Plain(k, e)
      BY <1>11, <2>5, <3>1 DEF PromiseOK
    <3>3. Plain(k, e) \subseteq Plain(q, f)
      BY <1>10, PlainMoves
    <3>4. q \in Nat
      BY <1>3, <1>6
    <3> QED
      BY <1>10, <3>2, <3>3, <3>4, ChainIsNotPlain
  <2>7. Goes(y, f, t.w, f) /\ Size(t.w) = Size(y)
    BY <1>7, <1>11, <1>12, <1>13, <2>2, <2>4, <2>6, ChainSubscribed
  <2>8. Goes(w, e, t.w, f)
    BY <1>10, <2>7, GoesFurther
  <2>9. t.p \in All(t.w)
    BY <1>7, <1>11, <2>7 DEF All
  <2> QED
    BY <2>8, <2>9
<1>17. CASE e.line = << >>
  <2>1. e.at = "none" /\ f.at = "none"
    BY <1>10, <1>17 DEF Good, EnvOK
  <2>2. y.heap[p].state # "pending"
    BY <1>2, <1>11, <1>17 DEF Good, StreamsOK
  <2>3. PICK z, a : /\ Good(z, f) /\ Rest(z) = Rest(y) /\ Size(z) = Size(y)
                    /\ a \in TaskShape /\ a.do # "check" /\ a.r = r
                    /\ IsWorld(t.w) /\ Rest(t.w) = Rest(z) /\ t.w.heap = z.heap /\ t.w.micro = Append(z.micro, a)
    BY <1>7, <1>11, <1>12, <1>13, <2>2, SubscribedLate
  <2>4. Goes(y, f, z, f)
    <3>1. Size(y) <= Size(z)
      BY <1>3, <1>6, <1>10, <2>3
    <3> QED
      BY <1>11, <2>3, <3>1, GoesPromises
  <2>5. PICK h : h = EnvOf(f.pipes, f.line, f.key, "task")
    OBVIOUS
  <2>6. IsToken(a.r, h)
    <3>1. l[1] = q
      BY <1>14, <1>15, <1>17
    <3> QED
      BY <1>10, <1>13, <2>3, <2>5, <3>1 DEF IsToken, EnvOf
  <2>7. Goes(z, f, t.w, h)
    BY <1>10, <1>15, <2>1, <2>3, <2>5, <2>6, TokenAdded
  <2>8. Goes(y, f, t.w, h)
    BY <1>11, <2>4, <2>7, GoesFurther
  <2>9. Goes(w, e, t.w, h)
    BY <1>10, <2>8, GoesFurther
  <2>10. t.p \in All(t.w)
    BY <1>7, <1>11, <2>8, GoesWider
  <2> QED
    BY <2>9, <2>10
<1> QED
  BY <1>16, <1>17

\* What a call that may lengthen the chain returns.
Calls(w, e, r) == (\E h : Goes(w, e, r.w, h)) /\ r.p \in All(r.w)

LEMMA CallsIs ==
  ASSUME NEW w, NEW e, NEW r, NEW h, Goes(w, e, r.w, h), r.p \in All(r.w)
  PROVE  Calls(w, e, r)
BY DEF Calls

LEMMA MakesCalls ==
  ASSUME NEW w, NEW e, NEW r, Makes(w, e, r, e)
  PROVE  Calls(w, e, r)
<1>1. Goes(w, e, r.w, e) /\ r.p \in All(r.w)
  BY FreeIsMade DEF Makes
<1> QED
  BY <1>1, CallsIs

LEMMA ChainedGoes ==
  ASSUME NEW w, NEW e, Good(w, e), NEW s, s \in Writables, w.ws[s].writing # 0,
         NEW do, do \in SinkCalls, NEW n, n \in Values
  PROVE  Calls(w, e, Chained(w, s, Code(do, s, n)))
<1>1. PICK c : c = Code(do, s, n)
  OBVIOUS
<1>2. PICK t : t = Chained(w, s, c)
  OBVIOUS
<1>3. CASE s = "in"
  <2>1. c \in Codes(Size(w), e)
    BY <1>1, <1>3, InCodes
  <2>2. Goes(w, e, t.w, e) /\ t.p \in All(t.w)
    BY <1>2, <1>3, <2>1, InChained
  <2> QED
    BY <1>1, <1>2, <2>2, CallsIs
<1>4. CASE s = "dst"
  <2>1. c.do \in SinkCalls /\ c.s = "dst"
    BY <1>1, <1>4 DEF Code
  <2>2. c \in CodeShape
    <3>1. do \in Doings /\ s \in Sides /\ n \in Int
      BY <1>4 DEF Doings, Sides, Writables, Values
    <3> QED
      BY <1>1, <3>1 DEF Code, CodeShape
  <2>3. (\E f : Goes(w, e, t.w, f)) /\ t.p \in All(t.w)
    BY <1>2, <1>4, <2>1, <2>2, DstChained
  <2> QED
    BY <1>1, <1>2, <2>3 DEF Calls
<1> QED
  BY <1>3, <1>4 DEF Writables

LEMMA WritableAt ==
  ASSUME NEW w, NEW e, Good(w, e), NEW s, s \in Writables
  PROVE  w.ws[s] \in WritableShape(Size(w)) /\ w.ws[s].errored \in Values
<1>1. w.ws[s] \in WritableShape(Size(w))
  BY DEF Good, StreamsOK
<1> QED
  BY <1>1 DEF WritableShape, Values

LEMMA WriteGoes ==
  ASSUME NEW w, NEW e, Good(w, e), NEW s, s \in Writables, w.ws[s].writing # 0, NEW c, c \in Values
  PROVE  Calls(w, e, Write(w, s, c))
<1>1. w.ws[s].errored \in Values /\ Released \in Values /\ Closed \in Values
  BY WritableAt DEF Released, Closed, Values
<1>2. \A v \in Values : Calls(w, e, PromiseReject(w, v))
  BY RejectGoes, MakesCalls
<1>3. "sinkWrite" \in SinkCalls
  BY DEF SinkCalls
<1>4. Calls(w, e, Chained(w, s, Code("sinkWrite", s, c)))
  BY <1>3, ChainedGoes
<1> QED
  BY <1>1, <1>2, <1>4 DEF Write

WClosed(r) == [r EXCEPT !.closed = TRUE]
WErrored(r, v) == [r EXCEPT !.errored = v]
WLocked(r, b) == [r EXCEPT !.locked = b]
LEMMA WFields ==
  ASSUME NEW k, NEW r, r \in WritableShape(k)
  PROVE  /\ WClosed(r) \in WritableShape(k) /\ WClosed(r).writing = r.writing
         /\ \A v \in Values : WErrored(r, v) \in WritableShape(k) /\ WErrored(r, v).writing = r.writing
         /\ \A b \in BOOLEAN : WLocked(r, b) \in WritableShape(k) /\ WLocked(r, b).writing = r.writing
BY DEF WritableShape, WClosed, WErrored, WLocked, Values

\* A writable stream that keeps its chain.
LEMMA WriterGoes ==
  ASSUME NEW w, NEW e, Good(w, e), NEW s, s \in Writables, NEW r, r \in WritableShape(Size(w)),
         r.writing = w.ws[s].writing, NEW x, x = Writer(w, s, r)
  PROVE  Goes(w, e, x, e) /\ Good(x, e) /\ Size(x) = Size(w) /\ \A z \in Writables : x.ws[z].writing = w.ws[z].writing
<1>1. Goes(w, e, x, e) /\ Size(x) = Size(w) /\ x.ws = [w.ws EXCEPT ![s] = r]
  BY WritableGoes
<1>2. w.ws \in [Writables -> WritableShape(Size(w))]
  BY DEF Good, StreamsOK
<1>3. \A z \in Writables : x.ws[z].writing = w.ws[z].writing
  BY <1>1, <1>2
<1> QED
  BY <1>1, <1>3 DEF Goes

LEMMA CloseWritableGoes ==
  ASSUME NEW w, NEW e, Good(w, e), NEW s, s \in Writables, w.ws[s].writing # 0
  PROVE  Calls(w, e, CloseWritable(w, s))
<1>1. w.ws[s].errored \in Values /\ Undefined \in Values
  BY WritableAt DEF Undefined, Values
<1>2. \A v \in Values : Calls(w, e, PromiseReject(w, v))
  BY RejectGoes, MakesCalls
<1>3. \A v \in Values : Calls(w, e, PromiseResolve(w, Value(v)))
  BY ResolvesValue, MakesCalls
<1>4. PICK x : x = Writer(w, s, WClosed(w.ws[s]))
  OBVIOUS
<1>5. Goes(w, e, x, e) /\ Good(x, e) /\ x.ws[s].writing # 0
  <2>1. PICK r : r = WClosed(w.ws[s])
    OBVIOUS
  <2>2. r \in WritableShape(Size(w)) /\ r.writing = w.ws[s].writing
    BY <2>1, WritableAt, WFields
  <2> QED
    BY <1>4, <2>1, <2>2, WriterGoes
<1>6. "sinkClose" \in SinkCalls /\ 0 \in Values
  BY DEF SinkCalls, Values
<1>7. PICK t : t = Chained(x, s, Code("sinkClose", s, 0))
  OBVIOUS
<1>8. Calls(x, e, t)
  BY <1>5, <1>6, <1>7, ChainedGoes
<1>9. Calls(w, e, t)
  <2>1. PICK h : Goes(x, e, t.w, h)
    BY <1>8 DEF Calls
  <2>2. Goes(w, e, t.w, h)
    BY <1>5, <2>1, GoesFurther
  <2> QED
    BY <1>8, <2>2 DEF Calls
<1>10. t = Chained([w EXCEPT !.ws[s].closed = TRUE], s, Code("sinkClose", s, 0))
  <2>1. IsWorld(w)
    BY LenHeap
  <2>2. w.ws \in [Writables -> WritableShape(Size(w))]
    BY DEF Good, StreamsOK
  <2>3. x = [w EXCEPT !.ws[s].closed = TRUE]
    BY <1>4, <2>1, <2>2 DEF Writer, WClosed, IsWorld, Fields
  <2> QED
    BY <1>7, <2>3
<1> QED
  BY <1>1, <1>2, <1>3, <1>9, <1>10 DEF CloseWritable

LEMMA AbortGoes ==
  ASSUME NEW w, NEW e, Good(w, e), NEW s, s \in Writables
  PROVE  Goes(w, e, Abort(w, s).w, e)
<1>1. w.ws[s].errored \in Values /\ Undefined \in Values /\ Aborted \in Values
  BY WritableAt DEF Undefined, Aborted, Values
<1>2. \A v \in Values : Goes(w, e, PromiseReject(w, v).w, e)
  BY RejectGoes DEF Makes
<1>3. \A v \in Values : Goes(w, e, PromiseResolve(w, Value(v)).w, e)
  BY ResolvesValue DEF Makes
<1>4. PICK x : x = [w EXCEPT !.ws[s].errored = Aborted]
  OBVIOUS
<1>5. Goes(w, e, x, e) /\ Good(x, e)
  <2>1. PICK r : r = WErrored(w.ws[s], Aborted)
    OBVIOUS
  <2>2. r \in WritableShape(Size(w)) /\ r.writing = w.ws[s].writing
    BY <1>1, <2>1, WritableAt, WFields
  <2>3. IsWorld(w)
    BY LenHeap
  <2>4. w.ws \in [Writables -> WritableShape(Size(w))]
    BY DEF Good, StreamsOK
  <2>5. x = Writer(w, s, r)
    BY <1>4, <2>1, <2>3, <2>4 DEF Writer, WErrored, IsWorld, Fields
  <2> QED
    BY <2>2, <2>5, WriterGoes
<1>6. PICK y : y = (IF s = "in" THEN ErrorReadable(x, "out", Aborted) ELSE x)
  OBVIOUS
<1>7. Goes(x, e, y, e)
  <2>1. Goes(x, e, ErrorReadable(x, "out", Aborted), e)
    <3>1. PICK o : o = "out"
      OBVIOUS
    <3>2. o \in Readables
      BY <3>1 DEF Readables
    <3>3. Goes(x, e, ErrorReadable(x, o, Aborted), e)
      BY <1>1, <1>5, <3>2, ErrorGoes
    <3> QED
      BY <3>1, <3>3
  <2> QED
    BY <1>5, <1>6, <2>1, GoesNowhere
<1>8. Goes(w, e, y, e) /\ Good(y, e)
  BY <1>5, <1>7, GoesFurther, GoesWider
<1>9. Goes(y, e, PromiseResolve(y, Value(Undefined)).w, e)
  BY <1>1, <1>8, ResolvesValue DEF Makes
<1>10. Goes(w, e, PromiseResolve(y, Value(Undefined)).w, e)
  BY <1>8, <1>9, GoesFurther
<1> QED
  BY <1>1, <1>2, <1>3, <1>4, <1>6, <1>10 DEF Abort

Runs(w, e, r) == \E h : Gets(w, e, r, h)

LEMMA RunsIs ==
  ASSUME NEW w, NEW e, NEW r, NEW h, Gets(w, e, r, h)
  PROVE  Runs(w, e, r)
BY DEF Runs

LEMMA ReturnsRuns ==
  ASSUME NEW w, NEW e, NEW x, NEW h, Goes(w, e, x, h)
  PROVE  Runs(w, e, Returns(x))
BY ReturnsGets, RunsIs

\* The sink of the transform.
LEMMA InSinkGets ==
  ASSUME NEW w, NEW e, Good(w, e), NEW c, c \in Values
  PROVE  Gets(w, e, SinkWrite(w, "in", c), e) /\ Gets(w, e, SinkClose(w, "in"), e)
<1>1. PICK o : o = "out"
  OBVIOUS
<1>2. o \in Readables
  BY <1>1 DEF Readables
<1>3. {"transform", "flush"} \subseteq Asks \ SinkAsks /\ 0 \in Values
  BY DEF Asks, SinkAsks, Values
<1>4. Gets(w, e, Returns(Enqueue(w, o, c)), e) /\ Gets(w, e, Returns(CloseReadable(w, o)), e)
  BY <1>2, EnqueueGoes, CloseGoes, ReturnsGets
<1>5. Gets(w, e, Owes(w, "transform", c), e)
  BY <1>3, OwesGets
<1>6. PICK a : a = Owes(w, "flush", 0)
  OBVIOUS
<1>7. Goes(w, e, a.w, e) /\ a.a.v \in Free(Size(a.w), e)
  BY <1>3, <1>6, OwesGoes
<1>8. PICK t : t = Then(a.w, a.a.v, Code("flushed", "", 0), NoCode)
  OBVIOUS
<1>9. Makes(a.w, e, t, e) /\ Good(a.w, e)
  <2>1. Code("flushed", "", 0) \in Codes(Size(a.w), e) /\ NoCode \in Codes(Size(a.w), e)
    BY BareCodes, NoCodeIs
  <2>2. a.a.v \in All(a.w) /\ Good(a.w, e)
    BY <1>7, FreeIsMade, GoesWider
  <2> QED
    BY <1>8, <2>1, <2>2, ThenGoes
<1>10. Goes(w, e, t.w, e) /\ t.p \in All(t.w)
  BY <1>7, <1>9, GoesFurther, FreeIsMade DEF Makes
<1>11. Gets(w, e, Answered(t), e)
  BY <1>10, PromiseAnswerIs DEF Gets, Answered
<1>12. Gets(w, e, SinkWrite(w, "in", c), e)
  BY <1>1, <1>4, <1>5 DEF SinkWrite
<1>13. Gets(w, e, SinkClose(w, "in"), e)
  BY <1>1, <1>4, <1>6, <1>8, <1>11 DEF SinkClose
<1> QED
  BY <1>12, <1>13

\* then() on what a call of the chain returned.
LEMMA CallsThen ==
  ASSUME NEW w, NEW e, Good(w, e), NEW r, Calls(w, e, r),
         NEW f, f \in Codes(Size(w), e), NEW g, g \in Codes(Size(w), e)
  PROVE  \E h : Goes(w, e, ThenOf(r, f, g).w, h)
<1>1. PICK h : Goes(w, e, r.w, h)
  BY DEF Calls
<1>2. r.p \in All(r.w)
  BY DEF Calls
<1>3. Goes(w, e, ThenOf(r, f, g).w, h)
  BY <1>1, <1>2, ThenOfGoes DEF Makes
<1> QED
  BY <1>3

LEMMA PipesIntoIs ==
  ASSUME NEW w, NEW e, Good(w, e), NEW s, s \in e.pipes
  PROVE  PipesInto(w, s) \in Writables /\ w.ws[PipesInto(w, s)].writing # 0
BY DEF Good, StreamsOK, PipesInto, Writables

LEMMA PipedGoes ==
  ASSUME NEW w, NEW e, Good(w, e), NEW s, s \in e.pipes, NEW p, p \in Free(Size(w), e), NEW v, v \in Values
  PROVE  \E h : Goes(w, e, Piped(w, s, p, v), h)
<1>1. PICK d : d = PipesInto(w, s)
  OBVIOUS
<1>2. d \in Writables /\ w.ws[d].writing # 0
  BY <1>1, PipesIntoIs
<1>3. EnvOK(Size(w), e)
  BY DEF Good
<1>4. /\ Code("pipeEnd", s, p) \in Codes(Size(w), e) /\ Code("step", s, p) \in Codes(Size(w), e)
      /\ Into("reject", p) \in Codes(Size(w), e)
  BY <1>3, PipeCodes, IntoIs
<1>5. \E h : Goes(w, e, ThenOf(CloseWritable(w, d), Code("pipeEnd", s, p), Into("reject", p)).w, h)
  BY <1>2, <1>4, CloseWritableGoes, CallsThen
<1>6. \E h : Goes(w, e, ThenOf(Write(w, d, v), Code("step", s, p), Into("reject", p)).w, h)
  BY <1>2, <1>4, WriteGoes, CallsThen
<1> QED
  BY <1>1, <1>5, <1>6 DEF Piped

LEMMA WsKeeps ==
  ASSUME NEW w, NEW e, Good(w, e), NEW d, d \in Writables, NEW b, b \in BOOLEAN
  PROVE  Goes(w, e, [w EXCEPT !.ws[d].locked = b], e)
<1>1. PICK r : r = WLocked(w.ws[d], b)
  OBVIOUS
<1>2. r \in WritableShape(Size(w)) /\ r.writing = w.ws[d].writing
  BY <1>1, WritableAt, WFields
<1>3. IsWorld(w)
  BY LenHeap
<1>4. w.ws \in [Writables -> WritableShape(Size(w))]
  BY DEF Good, StreamsOK
<1>5. [w EXCEPT !.ws[d].locked = b] = Writer(w, d, r)
  BY <1>1, <1>3, <1>4 DEF Writer, WLocked, IsWorld, Fields
<1>6. Goes(w, e, Writer(w, d, r), e)
  BY <1>2, WriterGoes
<1> QED
  BY <1>5, <1>6

WsLocked(w, d, b) == [w EXCEPT !.ws[d].locked = b]
LEMMA WsLockedGoes ==
  ASSUME NEW w, NEW e, Good(w, e), NEW d, d \in Writables, NEW b, b \in BOOLEAN
  PROVE  Goes(w, e, WsLocked(w, d, b), e)
BY WsKeeps DEF WsLocked

PipeEnds(w, s, p) == Settled(WsLocked(ReleaseReader(w, s), PipesInto(w, s), FALSE), p, "fulfilled", Undefined)
LEMMA PipeEndGoes ==
  ASSUME NEW w, NEW e, Good(w, e), NEW s, s \in e.pipes, NEW p, p \in Free(Size(w), e)
  PROVE  Goes(w, e, PipeEnds(w, s, p), e)
<1>1. s \in Readables /\ PipesInto(w, s) \in Writables
  BY PipesIntoIs DEF Good, EnvOK, Envs
<1>2. PICK x : x = ReleaseReader(w, s)
  OBVIOUS
<1>3. Goes(w, e, x, e) /\ Good(x, e)
  BY <1>1, <1>2, ReleaseGoes, GoesWider
<1>4. PICK y : y = WsLocked(x, PipesInto(w, s), FALSE)
  OBVIOUS
<1>5. Goes(x, e, y, e)
  BY <1>1, <1>3, <1>4, WsLockedGoes
<1>6. Goes(w, e, y, e) /\ Good(y, e)
  BY <1>3, <1>5, GoesFurther, GoesWider
<1>7. p \in Free(Size(y), e)
  BY <1>6, GoesWider
<1>8. "fulfilled" \in Outcomes /\ Undefined \in Values
  BY DEF Outcomes, Undefined, Values
<1>9. Goes(y, e, Settled(y, p, "fulfilled", Undefined), e)
  BY <1>6, <1>7, <1>8, SettledGoes
<1>10. Goes(w, e, Settled(y, p, "fulfilled", Undefined), e)
  BY <1>6, <1>9, GoesFurther
<1> QED
  BY <1>2, <1>4, <1>10 DEF PipeEnds

GotTaken(w, s, v) == [w EXCEPT !.taken[s] = Append(@, v)]
GotDone(w, s) == [w EXCEPT !.done = @ \cup {s}]
LEMMA GotGoes ==
  ASSUME NEW w, NEW e, Good(w, e), NEW s, s \in Consumers, NEW v, v \in Values
  PROVE  Goes(w, e, GotTaken(w, s, v), e) /\ Goes(w, e, GotDone(w, s), e)
<1>1. w.taken \in Takings /\ w.done \subseteq Consumers /\ IsWorld(w)
  BY ScriptIs, LenHeap
<1>2. GotDone(w, s) = WithDone(w, w.done \cup {s})
  BY <1>1 DEF GotDone, WithDone, IsWorld, Fields
<1>3. Goes(w, e, GotDone(w, s), e)
  <2>1. PICK z : z = w.done \cup {s}
    OBVIOUS
  <2>2. z \subseteq Consumers
    BY <1>1, <2>1
  <2>3. Goes(w, e, WithDone(w, z), e)
    BY <2>2, DoneGoes
  <2> QED
    BY <1>2, <2>1, <2>3
<1>4. PICK t : t = [w.taken EXCEPT ![s] = Append(@, v)]
  OBVIOUS
<1>5. t \in Takings
  <2>1. w.taken[s] \in Seq(Int)
    BY <1>1 DEF Takings
  <2>2. Append(w.taken[s], v) \in Seq(Int)
    BY <2>1 DEF Values
  <2> QED
    BY <1>1, <1>4, <2>2 DEF Takings
<1>6. GotTaken(w, s, v) = WithTaken(w, t)
  BY <1>1, <1>4 DEF GotTaken, WithTaken, IsWorld, Fields
<1>7. Goes(w, e, WithTaken(w, t), e)
  BY <1>5, TakenGoes
<1> QED
  BY <1>3, <1>6, <1>7

LEMMA PullOverGoes ==
  ASSUME NEW w, NEW e, Good(w, e), NEW s, s \in Readables
  PROVE  Goes(w, e, PullOver(w, s), e)
<1>1. PICK y : y = RPulling(w.rs[s], FALSE)
  OBVIOUS
<1>2. LockStays(w.rs[s], y, Size(w), e)
  BY <1>1, ReadableAt, FieldsStay
<1>3. IsWorld(w) /\ w.rs \in [Readables -> ReadableShape(Size(w), e)]
  BY LenHeap DEF Good, StreamsOK
<1>4. PullOver(w, s) = Reader(w, s, y)
  BY <1>1, <1>3 DEF PullOver, Reader, RPulling, IsWorld, Fields
<1>5. Goes(w, e, Reader(w, s, y), e)
  BY <1>2, ReaderGoes
<1> QED
  BY <1>4, <1>5

LEMMA OnBoth ==
  ASSUME NEW w, NEW e, Good(w, e), NEW v, v \in Values
  PROVE  /\ Goes(w, e, CloseReadable(CloseReadable(w, "left"), "right"), e)
         /\ Goes(w, e, Enqueue(Enqueue(w, "left", v), "right", v), e)
<1>1. PICK l, r : l = "left" /\ r = "right"
  OBVIOUS
<1>2. l \in Readables /\ r \in Readables
  BY <1>1 DEF Readables
<1>3. PICK x : x = CloseReadable(w, l)
  OBVIOUS
<1>4. Goes(w, e, x, e) /\ Good(x, e)
  BY <1>2, <1>3, CloseGoes, GoesWider
<1>5. Goes(x, e, CloseReadable(x, r), e)
  BY <1>2, <1>4, CloseGoes
<1>6. Goes(w, e, CloseReadable(x, r), e)
  BY <1>4, <1>5, GoesFurther
<1>7. PICK y : y = Enqueue(w, l, v)
  OBVIOUS
<1>8. Goes(w, e, y, e) /\ Good(y, e)
  BY <1>2, <1>7, EnqueueGoes, GoesWider
<1>9. Goes(y, e, Enqueue(y, r, v), e)
  BY <1>2, <1>8, EnqueueGoes
<1>10. Goes(w, e, Enqueue(y, r, v), e)
  BY <1>8, <1>9, GoesFurther
<1> QED
  BY <1>1, <1>3, <1>6, <1>7, <1>10

\* Run, arm by arm.
LEMMA RunIs ==
  ASSUME NEW w, NEW f, NEW v, NEW s, s = f.s
  PROVE  /\ f.do = "pulled" => Run(w, f, v) = Returns(PullOver(w, s))
         /\ f.do = "pullFailed" => Run(w, f, v) = Returns(ErrorReadable(PullOver(w, s), s, v))
         /\ f.do = "startFailed" => Run(w, f, v) = Returns(ErrorReadable(w, "src", v))
         /\ f.do = "teeRead" => Run(w, f, v) = Returns(
              IF v = Done THEN CloseReadable(CloseReadable(w, "left"), "right")
              ELSE Enqueue(Enqueue(w, "left", v), "right", v))
         /\ f.do = "sinkWrite" => Run(w, f, v) = SinkWrite(w, s, f.n)
         /\ f.do = "sinkClose" => Run(w, f, v) = SinkClose(w, s)
         /\ f.do = "flushed" => Run(w, f, v) = Returns(CloseReadable(w, "out"))
         /\ f.do = "piped" => Run(w, f, v) = Returns(Piped(w, s, f.n, v))
         /\ f.do = "step" => Run(w, f, v) = Returns(PipeStep(w, s, f.n))
         /\ f.do = "pipeEnd" => Run(w, f, v) = Returns(PipeEnds(w, s, f.n))
         /\ f.do = "got" => Run(w, f, v) = Returns(IF v = Done THEN GotDone(w, s) ELSE Loop(GotTaken(w, s, v), s))
<1>1. CASE f.do \in {"pulled", "pullFailed"}
  BY <1>1 DEF Run, PullOver
<1>2. CASE f.do \in {"startFailed", "teeRead", "sinkWrite", "sinkClose", "flushed", "piped", "step"}
  BY <1>2 DEF Run
<1>3. CASE f.do = "pipeEnd"
  <2>1. Run(w, f, v) = Returns(Settled([ReleaseReader(w, f.s) EXCEPT !.ws[PipesInto(w, f.s)].locked = FALSE],
                                       f.n, "fulfilled", Undefined))
    BY <1>3 DEF Run
  <2> QED
    BY <1>3, <2>1 DEF PipeEnds, WsLocked
<1>4. CASE f.do = "got"
  <2>1. Run(w, f, v) = Returns(IF v = Done THEN [w EXCEPT !.done = @ \cup {f.s}]
                               ELSE Loop([w EXCEPT !.taken[f.s] = Append(@, v)], f.s))
    BY <1>4 DEF Run
  <2> QED
    BY <1>4, <2>1 DEF GotDone, GotTaken
<1> QED
  BY <1>1, <1>2, <1>3, <1>4

\* What runs as a microtask, the sink's own calls apart.
LEMMA RunRuns ==
  ASSUME NEW w, NEW e, Good(w, e), NEW f, f \in Codes(Size(w), e), f.do \notin Own, f # NoCode, NEW v, v \in Values
  PROVE  Runs(w, e, Run(w, f, v))
<1>1. PICK r : r = Run(w, f, v)
  OBVIOUS
<1>2. PICK s, n : s = f.s /\ n = f.n
  OBVIOUS
<1>3. /\ f.do \in Doings /\ f.do # "none" /\ n \in Values
      /\ f.do \in Settling => n \in Free(Size(w), e)
      /\ f.do \in {"pulled", "pullFailed"} => s \in Readables
      /\ f.do \in {"piped", "step", "pipeEnd"} => s \in e.pipes
      /\ f.do \in SinkCalls => s = "in"
      /\ f.do = "got" => s \in {"src", "left", "right"}
  BY <1>2 DEF Codes, Values
<1>4. CASE f.do = "pulled"
  <2>1. s \in Readables
    BY <1>3, <1>4
  <2>2. Goes(w, e, PullOver(w, s), e)
    BY <2>1, PullOverGoes
  <2> QED
    BY <1>2, <1>4, <2>2, RunIs, ReturnsRuns
<1>5. CASE f.do = "pullFailed"
  <2>1. s \in Readables
    BY <1>3, <1>5
  <2>2. PICK x : x = PullOver(w, s)
    OBVIOUS
  <2>3. Goes(w, e, x, e) /\ Good(x, e)
    BY <2>1, <2>2, PullOverGoes, GoesWider
  <2>4. Goes(x, e, ErrorReadable(x, s, v), e)
    BY <2>1, <2>3, ErrorGoes
  <2>5. Goes(w, e, ErrorReadable(x, s, v), e)
    BY <2>3, <2>4, GoesFurther
  <2> QED
    BY <1>2, <1>5, <2>2, <2>5, RunIs, ReturnsRuns
<1>6. CASE f.do = "startFailed"
  <2>1. PICK z : z = "src"
    OBVIOUS
  <2>2. Goes(w, e, ErrorReadable(w, z, v), e)
    BY <2>1, ErrorGoes DEF Readables
  <2> QED
    BY <1>6, <2>1, <2>2, RunIs, ReturnsRuns
<1>7. CASE f.do = "teeRead"
  BY <1>7, OnBoth, RunIs, ReturnsRuns
<1>8. CASE f.do \in SinkCalls
  <2>1. s = "in"
    BY <1>3, <1>8
  <2>2. Gets(w, e, SinkWrite(w, s, n), e) /\ Gets(w, e, SinkClose(w, s), e)
    BY <1>3, <2>1, InSinkGets
  <2>3. Run(w, f, v) = SinkWrite(w, s, n) \/ Run(w, f, v) = SinkClose(w, s)
    BY <1>2, <1>8, RunIs DEF SinkCalls
  <2> QED
    BY <2>2, <2>3, RunsIs
<1>9. CASE f.do = "flushed"
  <2>1. PICK z : z = "out"
    OBVIOUS
  <2>2. Goes(w, e, CloseReadable(w, z), e)
    BY <2>1, CloseGoes DEF Readables
  <2> QED
    BY <1>9, <2>1, <2>2, RunIs, ReturnsRuns
<1>10. CASE f.do = "piped"
  <2>1. s \in e.pipes /\ n \in Free(Size(w), e)
    BY <1>3, <1>10 DEF Settling
  <2>2. PICK h : Goes(w, e, Piped(w, s, n, v), h)
    BY <2>1, PipedGoes
  <2> QED
    BY <1>2, <1>10, <2>2, RunIs, ReturnsRuns
<1>11. CASE f.do = "step"
  <2>1. s \in e.pipes /\ n \in Free(Size(w), e)
    BY <1>3, <1>11 DEF Settling
  <2>2. Goes(w, e, PipeStep(w, s, n), e)
    BY <2>1, PipeStepGoes
  <2> QED
    BY <1>2, <1>11, <2>2, RunIs, ReturnsRuns
<1>12. CASE f.do = "pipeEnd"
  <2>1. s \in e.pipes /\ n \in Free(Size(w), e)
    BY <1>3, <1>12 DEF Settling
  <2>2. Goes(w, e, PipeEnds(w, s, n), e)
    BY <2>1, PipeEndGoes
  <2> QED
    BY <1>2, <1>12, <2>2, RunIs, ReturnsRuns
<1>13. CASE f.do = "got"
  <2>1. s \in {"src", "left", "right"} /\ s \in Consumers
    BY <1>3, <1>13 DEF Consumers
  <2>2. Goes(w, e, GotDone(w, s), e)
    BY <2>1, GotGoes
  <2>3. PICK x : x = GotTaken(w, s, v)
    OBVIOUS
  <2>4. Goes(w, e, x, e) /\ Good(x, e)
    BY <2>1, <2>3, GotGoes, GoesWider
  <2>5. Goes(x, e, Loop(x, s), e)
    BY <2>1, <2>4, LoopGoes
  <2>6. Goes(w, e, Loop(x, s), e)
    BY <2>4, <2>5, GoesFurther
  <2> QED
    BY <1>2, <1>13, <2>2, <2>3, <2>6, RunIs, ReturnsRuns
<1> QED
  BY <1>3, <1>4, <1>5, <1>6, <1>7, <1>8, <1>9, <1>10, <1>11, <1>12, <1>13 DEF Doings, Settling, Own, SinkCalls

LEMMA TailTasks ==
  ASSUME NEW s, s \in Seq(TaskShape), s # << >>, NEW t, t = Tail(s)
  PROVE  /\ t \in Seq(TaskShape) /\ Head(s) = s[1] /\ 1 \in DOMAIN s /\ Head(s) \in TaskShape
         /\ \A i \in DOMAIN t : \E j \in DOMAIN s : j = i + 1 /\ t[i] = s[j] /\ j # 1
<1>1. /\ t \in Seq(TaskShape) /\ DOMAIN s = 1 .. Len(s) /\ Len(s) \in Nat /\ Len(s) # 0
      /\ DOMAIN t = 1 .. Len(t) /\ Len(t) = Len(s) - 1
  OBVIOUS
<1>2. \A i \in 1 .. Len(t) : t[i] = s[i + 1]
  OBVIOUS
<1>3. Head(s) = s[1] /\ 1 \in DOMAIN s /\ Head(s) \in TaskShape
  OBVIOUS
<1>4. ASSUME NEW i \in DOMAIN t PROVE \E j \in DOMAIN s : j = i + 1 /\ t[i] = s[j] /\ j # 1
  <2>1. i + 1 \in DOMAIN s /\ t[i] = s[i + 1] /\ i + 1 # 1
    BY <1>1, <1>2
  <2> QED
    BY <2>1
<1> QED
  BY <1>1, <1>3, <1>4

LEMMA TailHas ==
  ASSUME NEW s, s \in Seq(TaskShape), s # << >>, NEW t, t = Tail(s), NEW j, j \in DOMAIN s, j # 1
  PROVE  \E i \in DOMAIN t : t[i] = s[j]
<1>1. DOMAIN s = 1 .. Len(s) /\ Len(s) \in Nat /\ Len(s) # 0 /\ DOMAIN t = 1 .. Len(t) /\ Len(t) = Len(s) - 1
  OBVIOUS
<1>2. \A i \in 1 .. Len(t) : t[i] = s[i + 1]
  OBVIOUS
<1>3. j - 1 \in DOMAIN t /\ (j - 1) + 1 = j
  BY <1>1
<1>4. t[j - 1] = s[j]
  BY <1>1, <1>2, <1>3
<1> QED
  BY <1>3, <1>4

Tailed(w) == [w EXCEPT !.micro = Tail(@)]
LEMMA TailedIs ==
  ASSUME NEW w, IsWorld(w), NEW x, x = Tailed(w)
  PROVE  IsWorld(x) /\ x.heap = w.heap /\ x.micro = Tail(w.micro) /\ Rest(x) = Rest(w)
BY DEF Tailed, IsWorld, Fields, Rest

\* The first microtask is gone: a look at a promise only once that promise was seen.
LEMMA TailGood ==
  ASSUME NEW w, NEW e, Good(w, e), w.micro # << >>, NEW t, t = Head(w.micro),
         t.do = "check" => w.heap[t.r.to].heard \/ w.heap[t.r.to].flagged,
         NEW x, x = Tailed(w)
  PROVE  Good(x, e) /\ Goes(w, e, x, e) /\ Rest(x) = Rest(w) /\ (IsToken(t.r, e) => NoTokens(x, e))
<1>1. IsWorld(x) /\ x.heap = w.heap /\ x.micro = Tail(w.micro) /\ Rest(x) = Rest(w)
  BY LenHeap, TailedIs
<1>2. Size(w) \in Nat /\ Size(x) = Size(w) /\ All(x) = All(w) /\ w.micro \in Seq(TaskShape)
  BY <1>1, LenHeap DEF Size, All
<1>3. PICK s, m : s = w.micro /\ m = x.micro
  OBVIOUS
<1>4. /\ m \in Seq(TaskShape) /\ t = s[1] /\ 1 \in DOMAIN s
      /\ \A i \in DOMAIN m : \E j \in DOMAIN s : j = i + 1 /\ m[i] = s[j] /\ j # 1
      /\ \A j \in DOMAIN s : j # 1 => \E i \in DOMAIN m : m[i] = s[j]
  <2>1. m = Tail(s) /\ s \in Seq(TaskShape) /\ s # << >> /\ t = Head(s)
    BY <1>1, <1>2, <1>3
  <2>2. m \in Seq(TaskShape)
    BY <2>1, TailTasks
  <2>3. t = s[1] /\ 1 \in DOMAIN s
    BY <2>1, TailTasks
  <2>4. \A i \in DOMAIN m : \E j \in DOMAIN s : j = i + 1 /\ m[i] = s[j] /\ j # 1
    BY <2>1, TailTasks
  <2>5. \A j \in DOMAIN s : j # 1 => \E i \in DOMAIN m : m[i] = s[j]
    BY <2>1, TailHas
  <2> QED
    BY <2>2, <2>3, <2>4, <2>5
<1>5. EnvOK(Size(x), e) /\ OwedOK(x, e) /\ StreamsOK(x, e) /\ ScriptOK(x)
  <2>1. Size(x) \in Nat /\ Size(w) <= Size(x)
    BY <1>2
  <2> QED
    BY <1>1, <2>1, RestStays
<1>6. HeapOK(x, e)
  BY <1>1, <1>2 DEF Good, HeapOK
<1>7. SeenOK(x)
  <2>1. SUFFICES ASSUME NEW p \in All(w)
                 PROVE  /\ w.heap[p].reactions # << >> \/ w.heap[p].handled => w.heap[p].heard
                        /\ w.heap[p].state = "rejected" =>
                             \/ w.heap[p].heard \/ w.heap[p].flagged
                             \/ \E i \in DOMAIN m : m[i].do = "check" /\ m[i].r.to = p
    BY <1>1, <1>2, <1>3 DEF SeenOK
  <2>2. /\ w.heap[p].reactions # << >> \/ w.heap[p].handled => w.heap[p].heard
        /\ w.heap[p].state = "rejected" =>
             \/ w.heap[p].heard \/ w.heap[p].flagged
             \/ \E i \in DOMAIN s : s[i].do = "check" /\ s[i].r.to = p
    BY <1>3 DEF Good, SeenOK
  <2> QED
    BY <1>4, <2>2
<1>8. MicroOK(w, e)
  BY DEF Good
<1>9. MicroOK(x, e)
  <2>1. \A i \in DOMAIN m : TaskOK(m[i], Size(x), e)
    BY <1>2, <1>3, <1>4, <1>8 DEF MicroOK
  <2>2. \A i, j \in DOMAIN m : IsToken(m[i].r, e) /\ IsToken(m[j].r, e) => i = j
    <3>1. SUFFICES ASSUME NEW i \in DOMAIN m, NEW j \in DOMAIN m, IsToken(m[i].r, e), IsToken(m[j].r, e) PROVE i = j
      OBVIOUS
    <3>2. PICK a \in DOMAIN s : a = i + 1 /\ m[i] = s[a]
      BY <1>4
    <3>3. PICK b \in DOMAIN s : b = j + 1 /\ m[j] = s[b]
      BY <1>4
    <3>4. a = b
      <4>1. \A y, z \in DOMAIN s : IsToken(s[y].r, e) /\ IsToken(s[z].r, e) => y = z
        BY <1>3, <1>8 DEF MicroOK
      <4>2. IsToken(s[a].r, e) /\ IsToken(s[b].r, e)
        BY <3>1, <3>2, <3>3
      <4> QED
        BY <4>1, <4>2
    <3>5. i \in Nat /\ j \in Nat
      <4>1. m \in Seq(TaskShape)
        BY <1>4
      <4> QED
        BY <4>1
    <3> QED
      BY <3>2, <3>3, <3>4, <3>5
  <2> QED
    BY <1>3, <1>4, <2>1, <2>2 DEF MicroOK
<1>10. Good(x, e)
  BY <1>1, <1>5, <1>6, <1>7, <1>9 DEF Good, IsWorld
<1>11. Goes(w, e, x, e)
  <2>1. Size(w) <= Size(x)
    BY <1>2
  <2> QED
    BY <1>1, <1>10, <2>1, GoesPromises
<1>12. ASSUME IsToken(t.r, e) PROVE NoTokens(x, e)
  <2>1. ASSUME NEW i \in DOMAIN m, IsToken(m[i].r, e) PROVE FALSE
    <3>1. PICK j \in DOMAIN s : m[i] = s[j] /\ j # 1
      BY <1>4
    <3>2. IsToken(s[1].r, e) /\ IsToken(s[j].r, e)
      BY <1>4, <1>12, <2>1, <3>1
    <3> QED
      BY <1>3, <1>4, <1>8, <3>1, <3>2 DEF MicroOK
  <2> QED
    BY <1>3, <2>1 DEF NoTokens
<1> QED
  BY <1>1, <1>10, <1>11, <1>12

LookedAt(w, p) == [w EXCEPT !.heap[p].flagged = TRUE]
LEMMA LookedGoes ==
  ASSUME NEW w, NEW e, Good(w, e), NEW p, p \in All(w), NEW x, x = Looked(w, p)
  PROVE  Goes(w, e, x, e) /\ IsWorld(x) /\ x.micro = w.micro /\ (x.heap[p].heard \/ x.heap[p].flagged)
<1>1. PICK q : q = w.heap[p]
  OBVIOUS
<1>2. q \in PromiseShape /\ PromiseOK(q, p, Size(w), e)
  BY <1>1, PromiseAt
<1>3. IsWorld(w) /\ w.heap \in Seq(PromiseShape) /\ w.micro \in Seq(TaskShape) /\ DOMAIN w.heap = All(w)
  BY LenHeap
<1>4. CASE q.handled
  <2>1. x = w
    BY <1>1, <1>4 DEF Looked
  <2>2. q.heard
    BY <1>1, <1>4 DEF Good, SeenOK
  <2> QED
    BY <1>1, <1>3, <2>1, <2>2, GoesNowhere
<1>5. CASE ~q.handled
  <2>1. PICK r : r = [q EXCEPT !.flagged = TRUE]
    OBVIOUS
  <2>2. x = LookedAt(w, p)
    BY <1>1, <1>5 DEF Looked, LookedAt
  <2>3. /\ r \in PromiseShape /\ r.flagged = TRUE /\ r.state = q.state /\ r.reactions = q.reactions
        /\ r.handled = q.handled /\ r.heard = q.heard
    BY <1>2, <2>1 DEF PromiseShape
  <2>4. IsWorld(x) /\ x.heap = Put(w.heap, p, r) /\ x.micro = w.micro /\ Rest(x) = Rest(w)
    BY <1>1, <1>3, <2>1, <2>2 DEF LookedAt, IsWorld, Fields, Put, Rest
  <2>5. x.heap[p] = r
    BY <1>3, <2>3, <2>4, AtSeq
  <2>6. PromiseOK(r, p, Size(w), e)
    BY <1>2, <2>3 DEF PromiseOK
  <2>7. PICK t : t \in Seq(TaskShape) /\ DOMAIN t = {} /\ w.micro = Cat(w.micro, t)
    BY <1>3, NoTasks
  <2>8. StaysSeen(w, p, r, t)
    <3>1. q.reactions # << >> \/ q.handled => q.heard
      BY <1>1 DEF Good, SeenOK
    <3> QED
      BY <2>3, <3>1 DEF StaysSeen
  <2>9. PlainTasks(t, Size(w), e)
    BY <2>7 DEF PlainTasks
  <2>10. w.heap[p].state # "pending" => r.state # "pending"
    BY <1>1, <2>3
  <2>11. x.micro = Cat(w.micro, t)
    BY <2>4, <2>7
  <2>12. Good(x, e) /\ Size(x) = Size(w)
    <3>1. t \in Seq(TaskShape)
      BY <2>7
    <3>2. IsWorld(x) /\ Rest(x) = Rest(w) /\ x.heap = Put(w.heap, p, r)
      BY <2>4
    <3>3. Good(x, e)
      BY <3>1, <3>2, <2>6, <2>8, <2>9, <2>10, <2>11, Changed
    <3>4. Size(x) = Size(w)
      BY <3>1, <3>2, <2>6, <2>8, <2>9, <2>10, <2>11, Changed
    <3> QED
      BY <3>3, <3>4
  <2>13. Goes(w, e, x, e)
    <3>1. Size(w) <= Size(x)
      BY <2>12, LenHeap
    <3> QED
      BY <2>4, <2>12, <3>1, GoesPromises
  <2> QED
    BY <2>3, <2>4, <2>5, <2>13
<1> QED
  BY <1>4, <1>5

\* The handler of a microtask runs.
Ran(x, t) ==
  LET f == HandlerOf(t)
  IN IF f = NoCode THEN PassedOn(x, t) ELSE IF f.do \in Own THEN CallsOwn(x, f, t.v) ELSE Run(x, f, t.v)
LEMMA DrainedIs ==
  ASSUME NEW w, NEW t, t = Head(w.micro), NEW x, x = Tailed(w)
  PROVE  Drained(w) = IF t.do = "check" THEN Looked(x, t.r.to) ELSE Handled(t, Ran(x, t))
BY DEF Drained, Tailed, Ran

LEMMA PlainRuns ==
  ASSUME NEW w, NEW e, Good(w, e), NEW t, t \in TaskShape, t.r \in Plain(Size(w), e)
  PROVE  Runs(w, e, Ran(w, t)) /\ (\E h : Goes(w, e, Handled(t, Ran(w, t)), h))
<1>1. PICK f : f = HandlerOf(t)
  OBVIOUS
<1>2. f \in Codes(Size(w), e) /\ t.r.to \in {0} \cup Free(Size(w), e)
  BY <1>1 DEF Plain, HandlerOf
<1>3. PICK v : v = t.v
  OBVIOUS
<1>4. v \in Values
  BY <1>3 DEF TaskShape, Values
<1>5. Runs(w, e, Ran(w, t))
  <2>1. Runs(w, e, PassedOn(w, t))
    BY <1>3, <1>4, PassedOnGets, RunsIs
  <2>2. f.do \in Own => Runs(w, e, CallsOwn(w, f, v))
    BY <1>2, <1>4, CallsOwnGets, RunsIs
  <2>3. f.do \notin Own /\ f # NoCode => Runs(w, e, Run(w, f, v))
    BY <1>2, <1>4, RunRuns
  <2> QED
    BY <1>1, <1>3, <2>1, <2>2, <2>3 DEF Ran
<1>6. PICK c : c = Ran(w, t)
  OBVIOUS
<1>7. PICK h : Gets(w, e, c, h)
  BY <1>5, <1>6 DEF Runs
<1>8. Goes(w, e, Handled(t, c), h)
  BY <1>2, <1>7, HandledGoes
<1> QED
  BY <1>5, <1>6, <1>8

\* A look at a promise.
LEMMA CheckGoes ==
  ASSUME NEW w, NEW e, Good(w, e), w.micro # << >>, NEW t, t = Head(w.micro), t.do = "check"
  PROVE  Goes(w, e, Drained(w), e)
<1>1. PICK p : p = t.r.to
  OBVIOUS
<1>2. IsWorld(w) /\ w.micro \in Seq(TaskShape)
  BY LenHeap
<1>3. p \in All(w)
  <2>1. t = w.micro[1] /\ 1 \in DOMAIN w.micro
    BY <1>2
  <2>2. TaskOK(t, Size(w), e)
    BY <2>1 DEF Good, MicroOK
  <2>3. p \in Free(Size(w), e)
    BY <1>1, <2>2 DEF TaskOK
  <2> QED
    BY <2>3, FreeIsMade
<1>4. PICK y : y = Looked(w, p)
  OBVIOUS
<1>5. Goes(w, e, y, e) /\ IsWorld(y) /\ y.micro = w.micro /\ (y.heap[p].heard \/ y.heap[p].flagged)
  BY <1>3, <1>4, LookedGoes
<1>6. PICK z : z = Tailed(y)
  OBVIOUS
<1>7. Good(y, e)
  BY <1>5, GoesWider
<1>8. Goes(y, e, z, e)
  BY <1>1, <1>5, <1>6, <1>7, TailGood
<1>9. Goes(w, e, z, e)
  BY <1>5, <1>8, GoesFurther
<1>10. z = Looked(Tailed(w), p)
  <2>1. z = [y EXCEPT !.micro = Tail(w.micro)]
    BY <1>5, <1>6 DEF Tailed
  <2>2. y = (IF w.heap[p].handled THEN w ELSE [w EXCEPT !.heap[p].flagged = TRUE])
    BY <1>4 DEF Looked
  <2>3. Looked(Tailed(w), p) = (IF w.heap[p].handled THEN Tailed(w) ELSE [Tailed(w) EXCEPT !.heap[p].flagged = TRUE])
    BY <1>2 DEF Looked, Tailed, IsWorld, Fields
  <2>4. CASE w.heap[p].handled
    BY <2>1, <2>2, <2>3, <2>4 DEF Tailed
  <2>5. CASE ~w.heap[p].handled
    BY <1>2, <2>1, <2>2, <2>3, <2>5 DEF Tailed, IsWorld, Fields
  <2> QED
    BY <2>4, <2>5
<1>11. Drained(w) = Looked(Tailed(w), p)
  BY <1>1, DrainedIs
<1> QED
  BY <1>9, <1>10, <1>11

\* The sink answers later: the promise it returned is made, and is owed.
LEMMA KeyMade ==
  ASSUME NEW w, NEW e, Good(w, e), e.at = "none", e.line # << >>,
         NEW who, who \in {"write", "close"}, NEW n, n \in Values, NEW c, c = Owes(w, who, n),
         NEW m, m = Size(w) + 1, NEW f, f = EnvOf(e.pipes, e.line, m, "owed")
  PROVE  Goes(w, e, c.w, f) /\ c.a = Promised(m) /\ m \in All(c.w) /\ c.w.heap[m] = Pending
<1>1. PICK k : k = Size(w)
  OBVIOUS
<1>2. k \in Nat /\ m \in Nat /\ m = k + 1 /\ k <= m /\ m \notin 1 .. k
  BY <1>1, LenHeap
<1>3. EnvOK(k, e) /\ StreamsOK(w, e) /\ OwedOK(w, e) /\ MicroOK(w, e)
  BY <1>1 DEF Good
<1>4. PICK y : y = Made(w).w
  OBVIOUS
<1>5. /\ IsWorld(y) /\ y.micro = w.micro /\ Rest(y) = Rest(w) /\ Size(y) = m /\ Made(w).p = m
      /\ y.heap[m] = Pending /\ \A z \in All(w) : y.heap[z] = w.heap[z]
  BY <1>1, <1>2, <1>4, MadeIs
<1>6. PICK o : o = w.owed \cup {[who |-> who, p |-> m, n |-> n]}
  OBVIOUS
<1>7. PICK x : x = Owing(y, o)
  OBVIOUS
<1>8. c.w = x /\ c.a = Promised(m)
  <2>1. y.owed = w.owed
    BY <1>5 DEF Rest
  <2> QED
    BY <1>4, <1>5, <1>6, <1>7, <2>1 DEF Owes, Owing
<1>9. /\ IsWorld(x) /\ x.rs = w.rs /\ x.ws = w.ws /\ x.heap = y.heap /\ x.micro = w.micro /\ x.owed = o
      /\ SameScript(w, x)
  <2>1. IsWorld(x) /\ x.rs = y.rs /\ x.ws = y.ws /\ x.heap = y.heap /\ x.micro = y.micro /\ x.owed = o /\ SameScript(y, x)
    BY <1>5, <1>7, OwingSet DEF SameScript
  <2> QED
    BY <1>5, <2>1 DEF Rest, SameScript
<1>10. Size(x) = m /\ All(x) = 1 .. m /\ All(w) = 1 .. k
  BY <1>1, <1>5, <1>9 DEF Size, All
<1>11. /\ f.pipes = e.pipes /\ f.line = e.line /\ f.key = m /\ f.at = "owed"
       /\ f = [pipes |-> e.pipes, line |-> e.line, key |-> m, at |-> "owed"]
  BY DEF EnvOf
<1>12. Held(f) = Held(e) \cup {m} /\ Held(e) \subseteq 1 .. k
  BY <1>3, <1>11 DEF Held, EnvOK
<1>13. EnvOK(m, f)
  <2>1. f \in Envs
    BY <1>2, <1>3, <1>11 DEF EnvOK, Envs
  <2>2. Held(f) \subseteq 1 .. m
    BY <1>2, <1>12
  <2>3. \A i \in DOMAIN f.line : f.line[i] # m
    <3>1. \A i \in DOMAIN e.line : e.line[i] \in Held(e)
      BY DEF Held
    <3> QED
      BY <1>2, <1>11, <1>12, <3>1
  <2>4. \A i, j \in DOMAIN f.line : f.line[i] = f.line[j] => i = j
    BY <1>3, <1>11 DEF EnvOK
  <2> QED
    BY <1>2, <1>11, <2>1, <2>2, <2>3, <2>4 DEF EnvOK
<1>14. Free(k, e) \subseteq Free(m, f)
  BY <1>2, <1>12 DEF Free
<1>15. Grows(k, e, m, f)
  BY <1>2, <1>11, <1>14 DEF Grows
<1>16. NoSinkAsks(w.owed)
  BY <1>3, SinkIdle
<1>17. OwedOK(x, f)
  <2>1. o \subseteq [who : Asks, p : All(x), n : Int]
    <3>1. [who |-> who, p |-> m, n |-> n] \in [who : Asks, p : All(x), n : Int]
      BY <1>2, <1>10 DEF Asks, SinkAsks, Values
    <3>2. w.owed \subseteq [who : Asks, p : All(x), n : Int]
      BY <1>2, <1>3, <1>10 DEF OwedOK
    <3> QED
      BY <1>6, <3>1, <3>2
  <2>2. ASSUME NEW a \in w.owed
        PROVE  a.who \notin SinkAsks /\ a.p \in Free(m, f)
    <3>1. a.who \notin SinkAsks
      BY <1>16 DEF NoSinkAsks
    <3>2. a.p \in Free(k, e)
      BY <1>1, <1>3, <3>1 DEF OwedOK, SinkAsks
    <3> QED
      BY <1>14, <3>1, <3>2
  <2>3. PICK b : b = [who |-> who, p |-> m, n |-> n]
    OBVIOUS
  <2>4. b.who \in {"write", "close"} /\ b.p = f.key /\ \A a \in o : a \in w.owed \/ a = b
    BY <1>6, <1>11, <2>3
  <2>5. \A a \in o : CASE a.who = "sinkStart" -> f.at = "start" /\ a.p = f.line[1]
                       [] a.who \in {"write", "close"} -> f.at = "owed" /\ a.p = f.key
                       [] OTHER -> a.p \in Free(m, f)
    <3>1. ASSUME NEW a \in o
          PROVE CASE a.who = "sinkStart" -> f.at = "start" /\ a.p = f.line[1]
                       [] a.who \in {"write", "close"} -> f.at = "owed" /\ a.p = f.key
                       [] OTHER -> a.p \in Free(m, f)
      <4>1. CASE a \in w.owed
        BY <2>2, <4>1 DEF SinkAsks
      <4>2. CASE a = b
        BY <1>11, <2>4, <4>2
      <4> QED
        BY <2>4, <3>1, <4>1, <4>2
    <3> QED
      BY <3>1
  <2>6. \A a, q \in o : a.who \in SinkAsks /\ q.who \in SinkAsks => a = q
    BY <2>2, <2>4
  <2> QED
    BY <1>9, <1>10, <2>1, <2>5, <2>6 DEF OwedOK
<1>18. Writes(w, x)
  BY <1>9 DEF Writes
<1>19. LineOK(x, f)
  BY <1>3, <1>9, <1>11 DEF LineOK, StreamsOK
<1>20. StreamsOK(x, f)
  <2>1. x.ws \in [Writables -> WritableShape(Size(x))]
    <3>1. WritableShape(k) \subseteq WritableShape(m)
      BY <1>2, ShapesWider
    <3> QED
      BY <1>1, <1>3, <1>9, <1>10, <3>1 DEF StreamsOK
  <2>2. x.rs = w.rs /\ x.plan = w.plan /\ Grows(Size(w), e, Size(x), f) /\ f.pipes = e.pipes
    BY <1>1, <1>9, <1>10, <1>11, <1>15 DEF SameScript
  <2> QED
    BY <1>18, <1>19, <2>1, <2>2, StreamsMove
<1>21. ScriptOK(x)
  <2>1. All(w) \subseteq All(x)
    BY <1>2, <1>10
  <2> QED
    BY <1>9, <1>18, <2>1, ScriptMoves
<1>22. \A z \in All(w) : ChainStays(z, e, f) /\ (z \in Held(f) => z \in Held(e))
  <2>1. \A z : ChainStays(z, e, f)
    BY <1>11 DEF ChainStays, OnChain
  <2> QED
    BY <1>2, <1>10, <1>12, <2>1
<1>23. TokensStay(w, e, f)
  BY DEF TokensStay, IsToken
<1>24. Good(x, f)
  <2>1. x.heap = Made(w).w.heap
    BY <1>4, <1>9
  <2>2. Grows(Size(w), e, Size(w) + 1, f) /\ EnvOK(Size(w) + 1, f)
    BY <1>1, <1>2, <1>13, <1>15
  <2> QED
    BY <1>9, <1>17, <1>20, <1>21, <1>22, <1>23, <2>1, <2>2, MadeMoves
<1>25. Goes(w, e, x, f)
  <2>1. Size(w) <= Size(x)
    BY <1>1, <1>2, <1>10
  <2>2. x.plan = w.plan
    BY <1>9 DEF SameScript
  <2>3. Free(Size(w), e) \subseteq Free(Size(x), f)
    BY <1>1, <1>10, <1>14
  <2> QED
    BY <1>11, <1>18, <1>24, <2>1, <2>2, <2>3 DEF Goes, Writes
<1>26. m \in All(x) /\ x.heap[m] = Pending
  BY <1>2, <1>5, <1>9, <1>10
<1> QED
  BY <1>8, <1>25, <1>26

\* The promise of the call follows the one that the sink returned.
LEMMA LaterGoes ==
  ASSUME NEW w, NEW e, Good(w, e), e.at = "none", e.line # << >>, NEW q, q = e.line[1],
         NEW who, who \in {"write", "close"}, NEW n, n \in Values, NEW c, c = Owes(w, who, n)
  PROVE  \E f : Goes(w, e, Resolved(c.w, q, c.a), f)
<1>1. PICK m : m = Size(w) + 1
  OBVIOUS
<1>2. PICK f : f = EnvOf(e.pipes, e.line, m, "owed")
  OBVIOUS
<1>3. PICK x : x = c.w
  OBVIOUS
<1>4. Goes(w, e, x, f)
  BY <1>1, <1>2, <1>3, KeyMade
<1>5. c.a = Promised(m) /\ m \in All(x) /\ x.heap[m] = Pending
  BY <1>1, <1>2, <1>3, KeyMade
<1>6. Good(x, f)
  BY <1>4, GoesWider
<1>7. f.at = "owed" /\ f.key = m /\ f.line = e.line
  BY <1>2 DEF EnvOf
<1>8. q \in Held(f) /\ EnvOK(Size(x), f)
  <2>1. EnvOK(Size(x), f)
    BY <1>6 DEF Good
  <2>2. 1 \in DOMAIN f.line
    BY <1>7, <2>1, EnvIs
  <2> QED
    BY <1>7, <2>1, <2>2 DEF Held
<1>9. x.heap[q].state = "pending" /\ q \in All(x)
  BY <1>6, <1>8, HeldAt
<1>10. x.heap[m].state = "pending" /\ x.heap[m].reactions = << >>
  BY <1>5 DEF Pending
<1>11. PICK g, h : g = Into("resolve", q) /\ h = Into("reject", q)
  OBVIOUS
<1>12. PICK z : z = Subscribed(x, m, g, h, 0)
  OBVIOUS
<1>13. Resolved(x, q, c.a) = z
  BY <1>5, <1>9, <1>11, <1>12 DEF Resolved, Promised
<1>14. PICK r : r = [onF |-> g, onR |-> h, to |-> 0]
  OBVIOUS
<1>15. r \in ReactionShape
  <2>1. g \in CodeShape /\ h \in CodeShape
    <3>1. "resolve" \in Doings /\ "reject" \in Doings /\ "" \in Sides
      BY DEF Doings, Settling, Sides
    <3>2. q \in Int
      BY <1>9 DEF All
    <3> QED
      BY <1>11, <3>1, <3>2 DEF Into, Code, CodeShape
  <2> QED
    BY <1>14, <2>1 DEF ReactionShape
<1>16. OnChain(r, m, f)
  BY <1>7, <1>11, <1>14 DEF OnChain, AnswersSink
<1>17. \A i \in DOMAIN x.heap[m].reactions : ~OnChain(x.heap[m].reactions[i], m, f)
  BY <1>10
<1>18. Goes(x, f, z, f)
  BY <1>5, <1>6, <1>10, <1>12, <1>14, <1>15, <1>16, <1>17, ChainSubscribed
<1>19. Goes(w, e, z, f)
  BY <1>4, <1>18, GoesFurther
<1> QED
  BY <1>3, <1>13, <1>19

\* The chain's microtask is taken from the queue.
LEMMA TokenTaken ==
  ASSUME NEW w, NEW e, Good(w, e), w.micro # << >>, NEW t, t = Head(w.micro), t.do # "check", IsToken(t.r, e),
         NEW x, x = Tailed(w), NEW f, f = EnvOf(e.pipes, e.line, e.key, "none")
  PROVE  Goes(w, e, x, f) /\ Good(x, f) /\ f.at = "none" /\ f.line = e.line /\ e.line # << >>
<1>1. Goes(w, e, x, e) /\ Good(x, e) /\ NoTokens(x, e)
  BY TailGood
<1>2. e.at \in {"task", "answer"}
  BY DEF IsToken
<1>3. OwedOK(x, e)
  BY <1>1 DEF Good
<1>4. NoSinkAsks(x.owed)
  BY <1>2, <1>3, SinkIdle
<1>5. Goes(x, e, x, f)
  BY <1>1, <1>2, <1>4, Idle
<1>6. Goes(w, e, x, f) /\ Good(x, f)
  BY <1>1, <1>5, GoesFurther, GoesWider
<1>7. e.line # << >>
  <2>1. EnvOK(Size(w), e)
    BY DEF Good
  <2> QED
    BY <1>2, <2>1 DEF EnvOK
<1> QED
  BY <1>6, <1>7 DEF EnvOf

\* The first promise of the chain is settled.
LEMMA FirstSettled ==
  ASSUME NEW w, NEW e, Good(w, e), e.at = "none", e.line # << >>, NEW p, p = e.line[1],
         NEW state, state \in Outcomes, NEW v, v \in Values
  PROVE  \E f : Goes(w, e, Settled(w, p, state, v), f)
<1>1. PICK t : t = Tail(e.line)
  OBVIOUS
<1>2. PICK at : at = (IF t = << >> THEN "none" ELSE "task")
  OBVIOUS
<1>3. PICK f : f = EnvOf(e.pipes, t, e.key, at)
  OBVIOUS
<1>4. Goes(w, e, Settled(w, p, state, v), f)
  BY <1>1, <1>2, <1>3, HeadSettled
<1> QED
  BY <1>4

LEMMA OutcomeIs ==
  ASSUME NEW t, t \in TaskShape, t.do # "check"
  PROVE  t.do \in Outcomes /\ t.v \in Values /\ (t.do = "fulfilled" \/ t.do = "rejected")
BY DEF TaskShape, Outcomes, Values

\* The sink's answer has come.
LEMMA AnswerToken ==
  ASSUME NEW w, NEW e, Good(w, e), e.at = "none", e.line # << >>, NEW q, q = e.line[1],
         NEW t, t \in TaskShape, t.do # "check", AnswersSink(t.r, q)
  PROVE  \E f : Goes(w, e, Handled(t, Ran(w, t)), f)
<1>1. PICK v : v = t.v
  OBVIOUS
<1>2. v \in Values /\ (t.do = "fulfilled" \/ t.do = "rejected")
  BY <1>1, OutcomeIs
<1>3. t.r.to = 0 /\ t.r.onF = Into("resolve", q) /\ t.r.onR = Into("reject", q)
  BY DEF AnswersSink
<1>4. PICK s : s = (IF t.do = "fulfilled" THEN "fulfilled" ELSE "rejected")
  OBVIOUS
<1>5. Handled(t, Ran(w, t)) = Settled(w, q, s, v)
  <2>1. Handled(t, Ran(w, t)) = Ran(w, t).w
    BY <1>3 DEF Handled
  <2>2. CASE t.do = "fulfilled"
    <3>1. HandlerOf(t) = Into("resolve", q) /\ Into("resolve", q).do = "resolve" /\ Into("resolve", q).n = q
      BY <1>3, <2>2 DEF HandlerOf, Into, Code
    <3>2. Into("resolve", q) # NoCode
      <4>1. NoCode.do = "none"
        BY DEF NoCode, Code
      <4> QED
        BY <3>1, <4>1
    <3>3. Ran(w, t) = CallsOwn(w, Into("resolve", q), v)
      BY <1>1, <3>1, <3>2 DEF Ran, Own
    <3>4. CallsOwn(w, Into("resolve", q), v).w = Settled(w, q, "fulfilled", v)
      BY <3>1 DEF CallsOwn
    <3> QED
      BY <1>4, <2>1, <2>2, <3>3, <3>4
  <2>3. CASE t.do = "rejected"
    <3>1. HandlerOf(t) = Into("reject", q) /\ Into("reject", q).do = "reject" /\ Into("reject", q).n = q
      BY <1>3, <2>3 DEF HandlerOf, Into, Code
    <3>2. Into("reject", q) # NoCode
      <4>1. NoCode.do = "none"
        BY DEF NoCode, Code
      <4> QED
        BY <3>1, <4>1
    <3>3. Ran(w, t) = CallsOwn(w, Into("reject", q), v)
      BY <1>1, <3>1, <3>2 DEF Ran, Own
    <3>4. CallsOwn(w, Into("reject", q), v).w = Settled(w, q, "rejected", v)
      BY <3>1 DEF CallsOwn
    <3> QED
      BY <1>4, <2>1, <2>3, <3>3, <3>4
  <2> QED
    BY <1>2, <2>2, <2>3
<1>6. s \in Outcomes
  BY <1>4 DEF Outcomes
<1> QED
  BY <1>2, <1>5, <1>6, FirstSettled

\* The sink is called, or passed over when the call before it failed.
LEMMA CallToken ==
  ASSUME NEW w, NEW e, Good(w, e), e.at = "none", e.line # << >>, NEW q, q = e.line[1],
         NEW t, t \in TaskShape, t.do # "check", CallsSink(t.r, q)
  PROVE  \E f : Goes(w, e, Handled(t, Ran(w, t)), f)
<1>1. PICK v : v = t.v
  OBVIOUS
<1>2. v \in Values /\ (t.do = "fulfilled" \/ t.do = "rejected")
  BY <1>1, OutcomeIs
<1>3. PICK g : g = t.r.onF
  OBVIOUS
<1>4. g.do \in SinkCalls /\ g.s = "dst" /\ t.r.onR = NoCode /\ t.r.to = q /\ g.n \in Values
  BY <1>3 DEF CallsSink, TaskShape, ReactionShape, CodeShape, Values
<1>5. q # 0
  <2>1. EnvOK(Size(w), e)
    BY DEF Good
  <2>2. 1 \in DOMAIN e.line
    BY <2>1, EnvIs
  <2>3. q \in Held(e)
    BY <2>2 DEF Held
  <2> QED
    BY <2>1, <2>3 DEF EnvOK
<1>6. PICK c : c = Ran(w, t)
  OBVIOUS
<1>7. Handled(t, c) = Resolved(c.w, q, c.a)
  BY <1>4, <1>5 DEF Handled
<1>8. CASE t.do = "rejected"
  <2>1. HandlerOf(t) = NoCode
    BY <1>4, <1>8 DEF HandlerOf
  <2>2. c = PassedOn(w, t)
    BY <1>6, <2>1 DEF Ran
  <2>3. c.w = w /\ c.a = Throws(v)
    BY <1>1, <1>8, <2>2 DEF PassedOn
  <2>4. Handled(t, c) = Settled(w, q, "rejected", v)
    BY <1>7, <2>3 DEF Resolved, Throws
  <2>5. "rejected" \in Outcomes
    BY DEF Outcomes
  <2> QED
    BY <1>2, <1>6, <2>4, <2>5, FirstSettled
<1>9. CASE t.do = "fulfilled"
  <2>1. HandlerOf(t) = g /\ g # NoCode /\ g.do \notin Own
    <3>1. g.do # "none" /\ g.do \notin Own
      BY <1>4 DEF SinkCalls, Own
    <3>2. NoCode.do = "none"
      BY DEF NoCode, Code
    <3>3. HandlerOf(t) = g
      BY <1>3, <1>9 DEF HandlerOf
    <3> QED
      BY <3>1, <3>2, <3>3
  <2>2. c = Run(w, g, v)
    BY <1>1, <1>6, <2>1 DEF Ran
  <2>3. PICK n : n = g.n
    OBVIOUS
  <2>4. c = SinkWrite(w, "dst", n) \/ c = SinkClose(w, "dst")
    BY <1>4, <2>2, <2>3, RunIs DEF SinkCalls
  <2>5. PICK d : d = "dst"
    OBVIOUS
  <2>6. PICK y : y = GotTaken(w, d, n)
    OBVIOUS
  <2>7. PICK z : z = GotDone(w, d)
    OBVIOUS
  <2>8. d \in Consumers /\ n \in Values /\ 0 \in Values
    BY <1>4, <2>3, <2>5 DEF Consumers, Values
  <2>9. Goes(w, e, y, e) /\ Goes(w, e, z, e) /\ Good(y, e) /\ Good(z, e)
    BY <2>6, <2>7, <2>8, GotGoes, GoesWider
  <2>10. \/ c = Returns(y) \/ c = Returns(z)
         \/ c = Owes(y, "write", n) \/ c = Owes(z, "close", 0)
    BY <2>4, <2>5, <2>6, <2>7 DEF SinkWrite, SinkClose, GotTaken, GotDone
  <2>11. ASSUME NEW u, Goes(w, e, u, e), Good(u, e), c = Returns(u)
         PROVE  \E f : Goes(w, e, Handled(t, c), f)
    <3>1. Handled(t, c) = Settled(u, q, "fulfilled", Undefined)
      BY <1>7, <2>11 DEF Returns, Resolved, Value
    <3>2. "fulfilled" \in Outcomes /\ Undefined \in Values
      BY DEF Outcomes, Undefined, Values
    <3>3. PICK f : Goes(u, e, Settled(u, q, "fulfilled", Undefined), f)
      BY <2>11, <3>2, FirstSettled
    <3>4. Goes(w, e, Settled(u, q, "fulfilled", Undefined), f)
      BY <2>11, <3>3, GoesFurther
    <3> QED
      BY <3>1, <3>4
  <2>12. ASSUME NEW u, Goes(w, e, u, e), Good(u, e), NEW who, who \in {"write", "close"}, NEW k, k \in Values,
                c = Owes(u, who, k)
         PROVE  \E f : Goes(w, e, Handled(t, c), f)
    <3>1. PICK f : Goes(u, e, Resolved(c.w, q, c.a), f)
      BY <2>12, LaterGoes
    <3>2. Goes(w, e, Resolved(c.w, q, c.a), f)
      BY <2>12, <3>1, GoesFurther
    <3> QED
      BY <1>7, <3>2
  <2> QED
    BY <1>6, <2>8, <2>9, <2>10, <2>11, <2>12
<1> QED
  BY <1>2, <1>8, <1>9

LEMMA TokenGoes ==
  ASSUME NEW w, NEW e, Good(w, e), w.micro # << >>, NEW t, t = Head(w.micro), t.do # "check", IsToken(t.r, e)
  PROVE  \E f : Goes(w, e, Drained(w), f)
<1>1. PICK x : x = Tailed(w)
  OBVIOUS
<1>2. PICK f : f = EnvOf(e.pipes, e.line, e.key, "none")
  OBVIOUS
<1>3. Goes(w, e, x, f) /\ Good(x, f) /\ f.at = "none" /\ f.line = e.line /\ e.line # << >>
  BY <1>1, <1>2, TokenTaken
<1>4. t \in TaskShape
  BY LenHeap
<1>5. PICK q : q = f.line[1]
  OBVIOUS
<1>6. AnswersSink(t.r, q) \/ CallsSink(t.r, q)
  BY <1>3, <1>5 DEF IsToken
<1>7. PICK g : Goes(x, f, Handled(t, Ran(x, t)), g)
  BY <1>3, <1>4, <1>5, <1>6, AnswerToken, CallToken
<1>8. Drained(w) = Handled(t, Ran(x, t))
  BY <1>1, DrainedIs
<1>9. Goes(w, e, Drained(w), g)
  BY <1>3, <1>7, <1>8, GoesFurther
<1> QED
  BY <1>9

\* One microtask.
LEMMA DrainedGoes ==
  ASSUME NEW w, NEW e, Good(w, e), w.micro # << >>
  PROVE  \E f : Goes(w, e, Drained(w), f)
<1>1. PICK t : t = Head(w.micro)
  OBVIOUS
<1>2. PICK x : x = Tailed(w)
  OBVIOUS
<1>3. w.micro \in Seq(TaskShape)
  BY LenHeap
<1>4. t \in TaskShape /\ t = w.micro[1] /\ 1 \in DOMAIN w.micro
  BY <1>1, <1>3
<1>5. t.r \in Plain(Size(w), e) \/ IsToken(t.r, e)
  BY <1>4 DEF Good, MicroOK, TaskOK
<1>6. CASE t.do = "check"
  BY <1>1, <1>6, CheckGoes
<1>7. CASE t.do # "check" /\ IsToken(t.r, e)
  BY <1>1, <1>7, TokenGoes
<1>8. CASE t.do # "check" /\ t.r \in Plain(Size(w), e)
  <2>1. Goes(w, e, x, e) /\ Good(x, e)
    BY <1>1, <1>2, <1>8, TailGood
  <2>2. t.r \in Plain(Size(x), e)
    <3>1. Size(w) \in Nat /\ Size(x) \in Nat /\ Size(w) <= Size(x)
      BY <2>1, LenHeap DEF Goes
    <3> QED
      BY <1>8, <3>1, Wider
  <2>3. PICK h : Goes(x, e, Handled(t, Ran(x, t)), h)
    BY <1>4, <2>1, <2>2, PlainRuns
  <2>4. Drained(w) = Handled(t, Ran(x, t))
    BY <1>1, <1>2, <1>8, DrainedIs
  <2>5. Goes(w, e, Drained(w), h)
    BY <2>1, <2>3, <2>4, GoesFurther
  <2> QED
    BY <2>5
<1> QED
  BY <1>5, <1>6, <1>7, <1>8

LEMMA OwedIs ==
  ASSUME NEW w, NEW e, Good(w, e), NEW o, o \in w.owed
  PROVE  /\ o.who \in Asks /\ o.p \in All(w) /\ o.n \in Values
         /\ o.who \notin SinkAsks => o.p \in Free(Size(w), e)
         /\ o.who \in {"write", "close"} => e.at = "owed" /\ o.p = e.key
         /\ o.who = "sinkStart" => e.at = "start" /\ o.p = e.line[1]
<1>1. OwedOK(w, e)
  BY DEF Good
<1>2. o.who \in Asks /\ o.p \in All(w) /\ o.n \in Values
  BY <1>1 DEF OwedOK, Values
<1>3. (CASE o.who = "sinkStart" -> e.at = "start" /\ o.p = e.line[1]
         [] o.who \in {"write", "close"} -> e.at = "owed" /\ o.p = e.key
         [] OTHER -> o.p \in Free(Size(w), e))
  BY <1>1 DEF OwedOK
<1> QED
  BY <1>2, <1>3 DEF SinkAsks

\* A promise that is not of the chain is answered.
LEMMA AskGoes ==
  ASSUME NEW w, NEW e, Good(w, e), NEW p, p \in Free(Size(w), e), NEW o,
         NEW x, x = Owing(w, w.owed \ {o}), NEW a, Answer(a, w)
  PROVE  Goes(w, e, Resolved(x, p, a), e)
<1>1. PICK z : z = w.owed \ {o}
  OBVIOUS
<1>2. z \subseteq w.owed
  BY <1>1
<1>3. Goes(w, e, x, e) /\ Size(x) = Size(w) /\ Good(x, e)
  BY <1>1, <1>2, OwesLessGoes, GoesWider
<1>4. Answer(a, x)
  <2>1. All(w) \subseteq All(x)
    BY <1>3 DEF All
  <2> QED
    BY <2>1, AnswerStays
<1>5. Goes(x, e, Resolved(x, p, a), e)
  BY <1>3, <1>4, ResolvedGoes
<1> QED
  BY <1>3, <1>5, GoesFurther

Bare(a) == a.how \in {"value", "throw"} /\ a.v \in Values

LEMMA BareIs ==
  ASSUME NEW w, NEW p, NEW a, Bare(a)
  PROVE  \E state \in Outcomes : Resolved(w, p, a) = Settled(w, p, state, a.v)
BY DEF Bare, Resolved, Outcomes

\* A promise of the sink is answered, its start() or a call.
LEMMA SinkAnswered ==
  ASSUME NEW w, NEW e, Good(w, e), NEW o, o \in w.owed, o.who \in SinkAsks,
         NEW x, x = Owing(w, w.owed \ {o}), NEW a, Bare(a)
  PROVE  \E f : Goes(w, e, Resolved(x, o.p, a), f)
<1>1. PICK z : z = w.owed \ {o}
  OBVIOUS
<1>2. z \subseteq w.owed
  BY <1>1
<1>3. Goes(w, e, x, e) /\ Good(x, e)
  BY <1>1, <1>2, OwesLessGoes, GoesWider
<1>4. NoSinkAsks(x.owed)
  <2>1. IsWorld(w)
    BY LenHeap
  <2>2. x.owed = z
    BY <1>1, <2>1, OwingSet
  <2>3. \A b \in w.owed : b.who \in SinkAsks => b = o
    BY DEF Good, OwedOK
  <2> QED
    BY <1>1, <2>2, <2>3 DEF NoSinkAsks
<1>5. PICK p : p = o.p
  OBVIOUS
<1>6. PICK state \in Outcomes : Resolved(x, p, a) = Settled(x, p, state, a.v)
  BY BareIs
<1>7. PICK v : v = a.v
  OBVIOUS
<1>8. v \in Values
  BY <1>7 DEF Bare
<1>9. CASE o.who \in {"write", "close"}
  <2>1. e.at = "owed" /\ p = e.key
    BY <1>5, <1>9, OwedIs
  <2>2. PICK f : f = EnvOf(e.pipes, e.line, e.key, "answer")
    OBVIOUS
  <2>3. Goes(x, e, Settled(x, p, state, v), f)
    BY <1>3, <1>4, <1>8, <2>1, <2>2, KeySettled
  <2>4. Goes(w, e, Settled(x, p, state, v), f)
    BY <1>3, <2>3, GoesFurther
  <2> QED
    BY <1>5, <1>6, <1>7, <2>4
<1>10. CASE o.who = "sinkStart"
  <2>1. e.at = "start" /\ p = e.line[1]
    BY <1>5, <1>10, OwedIs
  <2>2. PICK f : f = EnvOf(e.pipes, e.line, e.key, "none")
    OBVIOUS
  <2>3. NoTokens(x, e)
    BY <2>1 DEF NoTokens, IsToken
  <2>4. Goes(x, e, x, f)
    BY <1>3, <1>4, <2>1, <2>2, <2>3, Idle
  <2>5. Good(x, f) /\ Goes(w, e, x, f)
    BY <1>3, <2>4, GoesFurther, GoesWider
  <2>6. f.at = "none" /\ f.line = e.line
    BY <2>2 DEF EnvOf
  <2>7. e.line # << >>
    <3>1. EnvOK(Size(w), e)
      BY DEF Good
    <3> QED
      BY <2>1, <3>1 DEF EnvOK
  <2>8. PICK g : Goes(x, f, Settled(x, p, state, v), g)
    BY <1>8, <2>1, <2>5, <2>6, <2>7, FirstSettled
  <2>9. Goes(w, e, Settled(x, p, state, v), g)
    BY <2>5, <2>8, GoesFurther
  <2> QED
    BY <1>5, <1>6, <1>7, <2>9
<1> QED
  BY <1>9, <1>10 DEF SinkAsks

\* Any answer that is a value or an error.
LEMMA AnyAnswered ==
  ASSUME NEW w, NEW e, Good(w, e), NEW o, o \in w.owed,
         NEW x, x = Owing(w, w.owed \ {o}), NEW a, Bare(a)
  PROVE  \E f : Goes(w, e, Resolved(x, o.p, a), f)
<1>1. CASE o.who \in SinkAsks
  BY <1>1, SinkAnswered
<1>2. CASE o.who \notin SinkAsks
  <2>1. PICK p : p = o.p
    OBVIOUS
  <2>2. p \in Free(Size(w), e)
    BY <1>2, <2>1, OwedIs
  <2>3. Answer(a, w)
    BY DEF Answer, Bare
  <2>4. Goes(w, e, Resolved(x, p, a), e)
    BY <2>2, <2>3, AskGoes
  <2> QED
    BY <2>1, <2>4
<1> QED
  BY <1>1, <1>2

Stays(w, e, x) == \E f : Goes(w, e, x, f)
LEMMA StaysIs ==
  ASSUME NEW w, NEW e, NEW x, NEW f, Goes(w, e, x, f)
  PROVE  Stays(w, e, x)
BY DEF Stays
LEMMA StaysFurther ==
  ASSUME NEW w, NEW e, Good(w, e), NEW x, NEW f, Goes(w, e, x, f), NEW y, Stays(x, f, y)
  PROVE  Stays(w, e, y)
<1>1. PICK g : Goes(x, f, y, g)
  BY DEF Stays
<1>2. Goes(w, e, y, g)
  BY <1>1, GoesFurther
<1> QED
  BY <1>2, StaysIs

\* The source is asked for the next chunk by what is outside.
LEMMA SourceGoes ==
  ASSUME NEW w, NEW e, Good(w, e), NEW o, o \in w.owed, o.who \notin SinkAsks, NEW n, n = GivesNext(w),
         NEW x, x = Owing(n.w, n.w.owed \ {o})
  PROVE  Stays(w, e, n.w) /\ Stays(w, e, Resolved(x, o.p, n.a))
<1>1. Goes(w, e, n.w, e) /\ Answer(n.a, n.w)
  BY GivesNextGets DEF Gets
<1>2. PICK p : p = o.p
  OBVIOUS
<1>3. p \in Free(Size(w), e)
  BY <1>2, OwedIs
<1>4. Good(n.w, e) /\ p \in Free(Size(n.w), e)
  BY <1>1, <1>3, GoesWider
<1>5. PICK y, a : y = n.w /\ a = n.a
  OBVIOUS
<1>6. Goes(y, e, Resolved(x, p, a), e)
  <2>1. Good(y, e) /\ p \in Free(Size(y), e) /\ x = Owing(y, y.owed \ {o}) /\ Answer(a, y)
    BY <1>1, <1>4, <1>5
  <2> QED
    BY <2>1, AskGoes
<1>7. Goes(w, e, Resolved(x, p, a), e)
  BY <1>1, <1>5, <1>6, GoesFurther
<1> QED
  BY <1>1, <1>2, <1>5, <1>7, StaysIs

\* What the transformer owes.
LEMMA TransformGoes ==
  ASSUME NEW w, NEW e, Good(w, e), NEW o, o \in w.owed, o.who \notin SinkAsks,
         NEW y, y = w \/ y = Enqueue(w, "out", o.n), NEW x, x = Owing(y, y.owed \ {o})
  PROVE  Stays(w, e, Resolved(x, o.p, Value(Undefined)))
<1>1. o.n \in Values /\ o.p \in Free(Size(w), e)
  BY OwedIs
<1>2. PICK p, c, r : p = o.p /\ c = o.n /\ r = "out"
  OBVIOUS
<1>3. r \in Readables /\ c \in Values
  BY <1>1, <1>2 DEF Readables
<1>4. Goes(w, e, y, e)
  <2>1. Goes(w, e, Enqueue(w, r, c), e)
    BY <1>3, EnqueueGoes
  <2> QED
    BY <1>2, <2>1, GoesNowhere
<1>5. Good(y, e) /\ p \in Free(Size(y), e)
  BY <1>1, <1>2, <1>4, GoesWider
<1>6. PICK a : a = Value(Undefined)
  OBVIOUS
<1>7. Answer(a, y)
  BY <1>6, AnswerIs DEF Undefined, Values
<1>8. Goes(y, e, Resolved(x, p, a), e)
  BY <1>5, <1>7, AskGoes
<1>9. Goes(w, e, Resolved(x, p, a), e)
  BY <1>4, <1>8, GoesFurther
<1> QED
  BY <1>2, <1>6, <1>9, StaysIs

LEMMA OneMoreFault ==
  ASSUME NEW w, NEW e, Good(w, e), NEW x, x = WithFaults(w, w.faults + 1)
  PROVE  Goes(w, e, x, e) /\ Good(x, e) /\ x.owed = w.owed
<1>1. PICK z : z = w.faults + 1
  OBVIOUS
<1>2. z \in Nat
  BY <1>1, ScriptIs
<1>3. Goes(w, e, WithFaults(w, z), e) /\ Alike(w, WithFaults(w, z))
  BY <1>2, FaultsGoes
<1> QED
  BY <1>1, <1>3, GoesWider DEF Alike

LEMMA FailsGoes ==
  ASSUME NEW w, NEW e, Good(w, e), NEW o, o \in w.owed
  PROVE  Stays(w, e, Resolved([w EXCEPT !.owed = @ \ {o}, !.faults = @ + 1], o.p, Throws(Boom)))
<1>1. PICK x : x = WithFaults(w, w.faults + 1)
  OBVIOUS
<1>2. Goes(w, e, x, e) /\ Good(x, e) /\ x.owed = w.owed
  BY <1>1, OneMoreFault
<1>3. PICK y : y = Owing(x, x.owed \ {o})
  OBVIOUS
<1>4. PICK a : a = Throws(Boom)
  OBVIOUS
<1>5. Bare(a)
  BY <1>4 DEF Bare, Throws, Boom, Values
<1>6. o \in x.owed
  BY <1>2
<1>7. \E f : Goes(x, e, Resolved(y, o.p, a), f)
  BY <1>2, <1>3, <1>5, <1>6, AnyAnswered
<1>8. Stays(w, e, Resolved(y, o.p, a))
  BY <1>2, <1>7, StaysFurther DEF Stays
<1>9. y = [w EXCEPT !.owed = @ \ {o}, !.faults = @ + 1]
  <2>1. IsWorld(w)
    BY LenHeap
  <2>2. y = [x EXCEPT !.owed = w.owed \ {o}]
    BY <1>2, <1>3 DEF Owing
  <2>3. x = [w EXCEPT !.faults = w.faults + 1]
    BY <1>1 DEF WithFaults
  <2> QED
    BY <2>1, <2>2, <2>3 DEF IsWorld, Fields
<1> QED
  BY <1>4, <1>8, <1>9

LEMMA SinkAnswersGo ==
  ASSUME NEW w, NEW e, Good(w, e), NEW o, o \in w.owed
  PROVE  Stays(w, e, Resolved([w EXCEPT !.owed = @ \ {o}], o.p, Value(Undefined)))
<1>1. PICK y : y = Owing(w, w.owed \ {o})
  OBVIOUS
<1>2. PICK a : a = Value(Undefined)
  OBVIOUS
<1>3. Bare(a)
  BY <1>2 DEF Bare, Value, Undefined, Values
<1>4. Stays(w, e, Resolved(y, o.p, a))
  BY <1>1, <1>3, AnyAnswered DEF Stays
<1>5. y = [w EXCEPT !.owed = @ \ {o}]
  BY <1>1 DEF Owing
<1> QED
  BY <1>2, <1>4, <1>5

LEMMA SinkErrorsGo ==
  ASSUME NEW w, NEW e, Good(w, e)
  PROVE  Stays(w, e, [w EXCEPT !.ws["dst"].errored = Boom, !.faults = @ + 1])
<1>1. PICK r : r = WErrored(w.ws["dst"], Boom)
  OBVIOUS
<1>2. PICK d : d = "dst"
  OBVIOUS
<1>3. d \in Writables /\ Boom \in Values
  BY <1>2 DEF Writables, Boom, Values
<1>4. r \in WritableShape(Size(w)) /\ r.writing = w.ws[d].writing
  BY <1>1, <1>2, <1>3, WritableAt, WFields
<1>5. PICK x : x = Writer(w, d, r)
  OBVIOUS
<1>6. Goes(w, e, x, e) /\ Good(x, e)
  BY <1>3, <1>4, <1>5, WriterGoes
<1>7. PICK y : y = WithFaults(x, x.faults + 1)
  OBVIOUS
<1>8. Goes(x, e, y, e)
  BY <1>6, <1>7, OneMoreFault
<1>9. Goes(w, e, y, e)
  BY <1>6, <1>8, GoesFurther
<1>10. y = [w EXCEPT !.ws["dst"].errored = Boom, !.faults = @ + 1]
  <2>1. IsWorld(w) /\ w.ws \in [Writables -> WritableShape(Size(w))]
    BY LenHeap DEF Good, StreamsOK
  <2>2. x = [w EXCEPT !.ws["dst"] = [w.ws["dst"] EXCEPT !.errored = Boom]]
    BY <1>1, <1>2, <1>5 DEF Writer, WErrored
  <2>3. x.faults = w.faults
    BY <2>1, <2>2 DEF IsWorld, Fields
  <2>4. y = [x EXCEPT !.faults = w.faults + 1]
    BY <1>7, <2>3 DEF WithFaults
  <2> QED
    BY <1>3, <2>1, <2>2, <2>4 DEF IsWorld, Fields
<1> QED
  BY <1>9, <1>10, StaysIs

Stopped(w) == [w EXCEPT !.script.stopped = TRUE]
LEMMA StoppedGoes ==
  ASSUME NEW w, NEW e, Good(w, e), NEW x, x = Stopped(w)
  PROVE  Goes(w, e, x, e) /\ Good(x, e)
<1>1. PICK s : s = [w.script EXCEPT !.stopped = TRUE]
  OBVIOUS
<1>2. IsWorld(w) /\ w.script \in ScriptShape(w)
  BY LenHeap, ScriptIs
<1>3. s \in ScriptShape(w)
  BY <1>1, <1>2 DEF ScriptShape
<1>4. Goes(w, e, WithScript(w, s), e)
  BY <1>3, ScriptSetGoes
<1>5. x = WithScript(w, s)
  BY <1>1, <1>2 DEF Stopped, WithScript, IsWorld, Fields
<1> QED
  BY <1>4, <1>5, GoesWider

LEMMA UserCancelsGo ==
  ASSUME NEW w, NEW e, Good(w, e)
  PROVE  Stays(w, e, Cancel(Stopped(w), "src").w)
<1>1. PICK x, s : x = Stopped(w) /\ s = "src"
  OBVIOUS
<1>2. Goes(w, e, x, e) /\ Good(x, e) /\ s \in Readables
  BY <1>1, StoppedGoes DEF Readables
<1>3. Goes(x, e, Cancel(x, s).w, e)
  BY <1>2, CancelGoes
<1>4. Goes(w, e, Cancel(x, s).w, e)
  BY <1>2, <1>3, GoesFurther
<1> QED
  BY <1>1, <1>4, StaysIs

LEMMA UserAbortsGo ==
  ASSUME NEW w, NEW e, Good(w, e), NEW s, s \in Writables
  PROVE  Stays(w, e, Abort(Stopped(w), s).w)
<1>1. PICK x : x = Stopped(w)
  OBVIOUS
<1>2. Goes(w, e, x, e) /\ Good(x, e)
  BY <1>1, StoppedGoes
<1>3. Goes(x, e, Abort(x, s).w, e)
  BY <1>2, AbortGoes
<1>4. Goes(w, e, Abort(x, s).w, e)
  BY <1>2, <1>3, GoesFurther
<1> QED
  BY <1>1, <1>4, StaysIs

LEMMA UserWritesGo ==
  ASSUME NEW w, NEW e, Good(w, e), w.ws["dst"].writing # 0,
         NEW c, c = Write(w, "dst", w.given + 1), NEW b, b \in BOOLEAN
  PROVE  Stays(w, e, [c.w EXCEPT !.script.writes = Append(@, c.p), !.given = IF b THEN @ + 1 ELSE @])
<1>1. PICK d, n : d = "dst" /\ n = w.given + 1
  OBVIOUS
<1>2. d \in Writables /\ w.ws[d].writing # 0 /\ n \in Values
  BY <1>1, ScriptIs DEF Writables, Values
<1>3. Calls(w, e, c)
  <2>1. c = Write(w, d, n)
    BY <1>1
  <2> QED
    BY <1>2, <2>1, WriteGoes
<1>4. PICK f : Goes(w, e, c.w, f)
  BY <1>3 DEF Calls
<1>5. PICK x, p : x = c.w /\ p = c.p
  OBVIOUS
<1>6. Good(x, f) /\ p \in All(x)
  BY <1>3, <1>4, <1>5, GoesWider DEF Calls
<1>7. PICK s : s = [x.script EXCEPT !.writes = Append(@, p)]
  OBVIOUS
<1>8. IsWorld(x) /\ x.script \in ScriptShape(x) /\ x.given \in Nat
  BY <1>6, LenHeap, ScriptIs
<1>9. s \in ScriptShape(x)
  <2>1. x.script.writes \in Seq(All(x))
    BY <1>8 DEF ScriptShape
  <2>2. Append(x.script.writes, p) \in Seq(All(x))
    BY <1>6, <2>1, SeqLast
  <2> QED
    BY <1>7, <1>8, <2>2 DEF ScriptShape
<1>10. PICK y : y = WithScript(x, s)
  OBVIOUS
<1>11. Goes(x, f, y, f) /\ Good(y, f)
  BY <1>6, <1>9, <1>10, ScriptSetGoes, GoesWider
<1>12. PICK g : g = (IF b THEN x.given + 1 ELSE x.given)
  OBVIOUS
<1>13. g \in Nat
  BY <1>8, <1>12
<1>14. PICK z : z = WithGiven(y, g)
  OBVIOUS
<1>15. Goes(y, f, z, f)
  BY <1>11, <1>13, <1>14, GivenGoes
<1>16. Goes(w, e, z, f)
  <2>1. Goes(x, f, z, f)
    BY <1>6, <1>11, <1>15, GoesFurther
  <2> QED
    BY <1>4, <1>5, <2>1, GoesFurther
<1>17. z = [x EXCEPT !.script.writes = Append(@, p), !.given = IF b THEN @ + 1 ELSE @]
  BY <1>7, <1>8, <1>10, <1>12, <1>14 DEF WithScript, WithGiven, IsWorld, Fields
<1> QED
  BY <1>5, <1>16, <1>17, StaysIs

Joins(w, p) == [w EXCEPT !.script.join = p]
LEMMA JoinsGo ==
  ASSUME NEW w, NEW e, Good(w, e), NEW j, Makes(w, e, j, e)
  PROVE  Stays(w, e, Joins(j.w, j.p))
<1>1. PICK x, p : x = j.w /\ p = j.p
  OBVIOUS
<1>2. Goes(w, e, x, e) /\ Good(x, e) /\ p \in Nat
  BY <1>1, GoesWider DEF Makes, Free
<1>3. PICK s : s = [x.script EXCEPT !.join = p]
  OBVIOUS
<1>4. IsWorld(x) /\ x.script \in ScriptShape(x)
  BY <1>2, LenHeap, ScriptIs
<1>5. s \in ScriptShape(x)
  BY <1>2, <1>3, <1>4 DEF ScriptShape
<1>6. Goes(x, e, WithScript(x, s), e)
  BY <1>2, <1>5, ScriptSetGoes
<1>7. Joins(x, p) = WithScript(x, s)
  BY <1>3, <1>4 DEF Joins, WithScript, IsWorld, Fields
<1>8. Goes(w, e, Joins(x, p), e)
  BY <1>2, <1>6, <1>7, GoesFurther
<1> QED
  BY <1>1, <1>8, StaysIs

LEMMA UserJoinsGo ==
  ASSUME NEW w, NEW e, Good(w, e), NEW j,
         \/ j = PromiseAll(w, w.script.writes) \/ j = PromiseRace(w, w.script.writes)
         \/ j = PromiseAny(w, w.script.writes) \/ j = PromiseAllSettled(w, w.script.writes)
  PROVE  Stays(w, e, Joins(j.w, j.p))
<1>1. PICK s : s = w.script.writes
  OBVIOUS
<1>2. s \in Seq(All(w))
  BY <1>1, ScriptIs DEF ScriptShape
<1>3. Makes(w, e, j, e)
  BY <1>1, <1>2, PromiseAllMakes, PromiseRaceMakes, PromiseAnyMakes, AllSettledMakes
<1> QED
  BY <1>3, JoinsGo

LEMMA UserClosesGo ==
  ASSUME NEW w, NEW e, Good(w, e), w.ws["dst"].writing # 0
  PROVE  Stays(w, e, [CloseWritable(w, "dst").w EXCEPT !.over = TRUE])
<1>1. PICK d : d = "dst"
  OBVIOUS
<1>2. d \in Writables /\ w.ws[d].writing # 0
  BY <1>1 DEF Writables
<1>3. Calls(w, e, CloseWritable(w, d))
  BY <1>2, CloseWritableGoes
<1>4. PICK x : x = CloseWritable(w, d).w
  OBVIOUS
<1>5. PICK f : Goes(w, e, x, f)
  BY <1>3, <1>4 DEF Calls
<1>6. Good(x, f)
  BY <1>5, GoesWider
<1>7. Goes(x, f, WithOver(x, TRUE), f)
  <2>1. PICK b : b = TRUE
    OBVIOUS
  <2>2. b \in BOOLEAN
    BY <2>1
  <2>3. Goes(x, f, WithOver(x, b), f)
    BY <1>6, <2>2, OverGoes
  <2> QED
    BY <2>1, <2>3
<1>8. Goes(w, e, WithOver(x, TRUE), f)
  BY <1>5, <1>7, GoesFurther
<1>9. WithOver(x, TRUE) = [x EXCEPT !.over = TRUE]
  BY DEF WithOver
<1> QED
  BY <1>1, <1>4, <1>8, <1>9, StaysIs

LEMMA WritingIn ==
  ASSUME NEW w, NEW k, k \in Nat, w.ws \in WsShape(k), NEW s, s \in Writables, NEW p, p \in 1 .. k,
         NEW g, g = Writing(w, s, p)
  PROVE  /\ g \in WsShape(k) /\ EndOf(g, s) = p /\ \A z \in Writables : z # s => g[z] = w.ws[z]
<1>1. w.ws[s] \in WritableShape(k) /\ DOMAIN w.ws = Writables
  BY DEF WsShape
<1>2. PICK r : r = [w.ws[s] EXCEPT !.writing = p]
  OBVIOUS
<1>3. r \in WritableShape(k) /\ r.writing = p
  <2>1. p \in 0 .. k
    OBVIOUS
  <2> QED
    BY <1>1, <1>2, <2>1 DEF WritableShape
<1>4. g = [w.ws EXCEPT ![s] = r]
  BY <1>1, <1>2 DEF Writing
<1> QED
  BY <1>1, <1>3, <1>4 DEF WsShape, EndOf

\* A writable stream begins its chain with a promise that is settled, or is not the sink's.
LEMMA BeginsGoes ==
  ASSUME NEW w, NEW e, Good(w, e), NEW s, s \in Writables, NEW p, p \in All(w), p # 0,
         s = "dst" => e.line = << >> /\ w.heap[p].state # "pending",
         NEW x, x = WithWs(w, Writing(w, s, p))
  PROVE  Goes(w, e, x, e) /\ Good(x, e) /\ x.ws[s].writing = p
<1>1. PICK k : k = Size(w)
  OBVIOUS
<1>2. PICK g : g = Writing(w, s, p)
  OBVIOUS
<1>3. k \in Nat /\ IsWorld(w) /\ StreamsOK(w, e) /\ OwedOK(w, e) /\ ScriptOK(w)
  BY <1>1, LenHeap DEF Good
<1>4. /\ g \in WsShape(k) /\ EndOf(g, s) = p /\ \A z \in Writables : z # s => g[z] = w.ws[z]
  <2>1. w.ws \in WsShape(k) /\ p \in 1 .. k
    BY <1>1, <1>3 DEF StreamsOK, WsShape, All
  <2> QED
    BY <1>2, <1>3, <2>1, WritingIn
<1>5. /\ IsWorld(x) /\ x.rs = w.rs /\ x.ws = g /\ x.heap = w.heap /\ x.micro = w.micro /\ x.owed = w.owed
      /\ SameScript(w, x)
  BY <1>2, <1>3, WsSet
<1>6. Size(x) = k /\ All(x) = All(w) /\ x.plan = w.plan
  BY <1>1, <1>5 DEF Size, All, SameScript
<1>7. x.ws[s].writing = p
  BY <1>4, <1>5 DEF EndOf
<1>8. Writes(w, x)
  <2>1. ASSUME NEW z \in Writables, w.ws[z].writing # 0 PROVE x.ws[z].writing # 0
    BY <1>4, <1>5, <1>7, <2>1
  <2> QED
    BY <2>1 DEF Writes
<1>9. Grows(Size(w), e, Size(x), e)
  BY <1>1, <1>3, <1>6 DEF Grows
<1>10. LineOK(x, e)
  <2>1. CASE s = "dst"
    BY <1>5, <1>7, <2>1 DEF LineOK
  <2>2. CASE s # "dst"
    <3>1. x.ws["dst"] = w.ws["dst"]
      BY <1>4, <1>5, <2>2 DEF Writables
    <3> QED
      BY <1>3, <1>5, <3>1 DEF LineOK, StreamsOK
  <2> QED
    BY <2>1, <2>2
<1>11. StreamsOK(x, e)
  <2>1. x.ws \in [Writables -> WritableShape(Size(x))]
    BY <1>4, <1>5, <1>6 DEF WsShape
  <2> QED
    BY <1>5, <1>6, <1>8, <1>9, <1>10, <2>1, StreamsMove
<1>12. ScriptOK(x)
  BY <1>5, <1>6, ScriptMoves
<1>13. OwedOK(x, e)
  BY <1>1, <1>3, <1>5, <1>6 DEF OwedOK
<1>14. Good(x, e)
  BY <1>5, <1>11, <1>12, <1>13, SameHeap
<1>15. Goes(w, e, x, e)
  <2>1. Size(w) <= Size(x)
    BY <1>1, <1>3, <1>6
  <2> QED
    BY <1>1, <1>6, <1>8, <1>14, <2>1 DEF Goes, Writes
<1> QED
  BY <1>7, <1>14, <1>15

\* A promise that Promise.resolve() makes of a value is settled.
LEMMA ResolvedNow ==
  ASSUME NEW w, NEW e, Good(w, e), NEW r, r = PromiseResolve(w, Value(Undefined))
  PROVE  Makes(w, e, r, e) /\ r.w.heap[r.p].state # "pending" /\ r.p \in All(r.w) /\ r.p # 0 /\ Rest(r.w) = Rest(w)
<1>1. Undefined \in Values /\ "fulfilled" \in Outcomes
  BY DEF Undefined, Values, Outcomes
<1>2. Makes(w, e, r, e) /\ Rest(r.w) = Rest(w)
  BY <1>1, ResolvesValue
<1>3. PICK m, p : m = Made(w).w /\ p = Made(w).p
  OBVIOUS
<1>4. r.w = Settled(m, p, "fulfilled", Undefined) /\ r.p = p
  BY <1>3 DEF PromiseResolve, Resolved, Value
<1>5. Good(m, e) /\ p \in All(m) /\ m.heap[p].state = "pending"
  <2>1. Good(m, e) /\ p \in Free(Size(m), e)
    BY <1>3, MadeGood
  <2>2. p = Size(w) + 1 /\ m.heap[Size(w) + 1] = Pending
    BY <1>3, MadeIs
  <2> QED
    BY <2>1, <2>2, FreeIsMade DEF Pending
<1>6. r.w.heap[p].state # "pending"
  BY <1>1, <1>4, <1>5, SettledAt
<1>7. r.p \in All(r.w)
  BY <1>2, FreeIsMade DEF Makes
<1> QED
  BY <1>2, <1>4, <1>6, <1>7 DEF All

Begun(r, s) == WithWs(r.w, Writing(r.w, s, r.p))
LEMMA BegunGoes ==
  ASSUME NEW w, NEW e, Good(w, e), NEW s, s \in Writables, s = "dst" => e.line = << >>,
         NEW r, r = PromiseResolve(w, Value(Undefined)), NEW x, x = Begun(r, s)
  PROVE  Goes(w, e, x, e) /\ Good(x, e) /\ x.ws[s].writing # 0
<1>1. PICK y, p : y = r.w /\ p = r.p
  OBVIOUS
<1>2. Goes(w, e, y, e) /\ y.heap[p].state # "pending" /\ p \in All(y) /\ p # 0 /\ Good(y, e)
  BY <1>1, ResolvedNow, GoesWider DEF Makes
<1>3. x = WithWs(y, Writing(y, s, p))
  BY <1>1 DEF Begun
<1>4. Goes(y, e, x, e) /\ Good(x, e) /\ x.ws[s].writing = p
  BY <1>2, <1>3, BeginsGoes
<1> QED
  BY <1>2, <1>4, GoesFurther

LEMMA NewTransformGoes ==
  ASSUME NEW w, NEW e, Good(w, e), NEW x, x = NewTransform(w)
  PROVE  Goes(w, e, x, e) /\ Good(x, e) /\ x.ws["in"].writing # 0
<1>1. PICK r : r = PromiseResolve(w, Value(Undefined))
  OBVIOUS
<1>2. PICK s : s = "in"
  OBVIOUS
<1>3. x = Begun(r, s)
  <2>1. Good(r.w, e)
    BY <1>1, ResolvedNow, GoesWider DEF Makes
  <2>2. IsWorld(r.w) /\ DOMAIN r.w.ws = Writables
    BY <2>1, LenHeap DEF Good, StreamsOK
  <2> QED
    BY <1>1, <1>2, <2>2 DEF NewTransform, Begun, WithWs, Writing, IsWorld, Fields
<1>4. s \in Writables /\ s # "dst"
  BY <1>2 DEF Writables
<1>5. Goes(w, e, x, e) /\ Good(x, e) /\ x.ws[s].writing # 0
  BY <1>1, <1>3, <1>4, BegunGoes
<1> QED
  BY <1>2, <1>5

LEMMA OneLine ==
  ASSUME NEW m, m \in Nat, NEW l, l = <<m>>
  PROVE  /\ l \in Seq(Nat) /\ l # << >> /\ Len(l) = 1 /\ DOMAIN l = {1} /\ l[1] = m
         /\ {l[i] : i \in DOMAIN l} = {m} /\ \A i, j \in DOMAIN l : i = j
OBVIOUS

\* The sink's start() returns a promise: the chain begins with it.
LEMMA LaterBegun ==
  ASSUME NEW w, NEW e, Good(w, e), e.line = << >>, NEW n, n \in Values, NEW c, c = Owes(w, "sinkStart", n),
         NEW m, m = Size(w) + 1, NEW l, l = <<m>>, NEW f, f = EnvOf(e.pipes, l, e.key, "start"),
         NEW x, x = WithWs(c.w, Writing(c.w, "dst", m))
  PROVE  Goes(w, e, x, f) /\ x.ws["dst"].writing # 0 /\ f.pipes = e.pipes /\ c.a = Promised(m)
<1>1. PICK k : k = Size(w)
  OBVIOUS
<1>2. k \in Nat /\ m \in Nat /\ m = k + 1 /\ k <= m /\ m \notin 1 .. k
  BY <1>1, LenHeap
<1>3. EnvOK(k, e) /\ StreamsOK(w, e) /\ OwedOK(w, e) /\ MicroOK(w, e)
  BY <1>1 DEF Good
<1>4. PICK y : y = Made(w).w
  OBVIOUS
<1>5. /\ IsWorld(y) /\ y.micro = w.micro /\ Rest(y) = Rest(w) /\ Size(y) = m /\ Made(w).p = m
      /\ \A z \in All(w) : y.heap[z] = w.heap[z]
  BY <1>1, <1>2, <1>4, MadeIs
<1>6. PICK o : o = w.owed \cup {[who |-> "sinkStart", p |-> m, n |-> n]}
  OBVIOUS
<1>7. PICK u : u = Owing(y, o)
  OBVIOUS
<1>8. c.w = u /\ c.a = Promised(m)
  <2>1. y.owed = w.owed
    BY <1>5 DEF Rest
  <2> QED
    BY <1>4, <1>5, <1>6, <1>7, <2>1 DEF Owes, Owing
<1>9. /\ IsWorld(u) /\ u.rs = w.rs /\ u.ws = w.ws /\ u.heap = y.heap /\ u.micro = w.micro /\ u.owed = o
      /\ SameScript(w, u)
  <2>1. IsWorld(u) /\ u.rs = y.rs /\ u.ws = y.ws /\ u.heap = y.heap /\ u.micro = y.micro /\ u.owed = o /\ SameScript(y, u)
    BY <1>5, <1>7, OwingSet DEF SameScript
  <2> QED
    BY <1>5, <2>1 DEF Rest, SameScript
<1>10. PICK g : g = Writing(u, "dst", m)
  OBVIOUS
<1>11. /\ IsWorld(x) /\ x.rs = w.rs /\ x.ws = g /\ x.heap = y.heap /\ x.micro = w.micro /\ x.owed = o
       /\ SameScript(w, x)
  <2>1. x = WithWs(u, g)
    BY <1>8, <1>10
  <2>2. IsWorld(x) /\ x.rs = u.rs /\ x.ws = g /\ x.heap = u.heap /\ x.micro = u.micro /\ x.owed = u.owed /\ SameScript(u, x)
    BY <1>9, <2>1, WsSet
  <2> QED
    BY <1>9, <2>2 DEF SameScript
<1>12. Size(x) = m /\ All(x) = 1 .. m /\ All(w) = 1 .. k
  BY <1>1, <1>5, <1>11 DEF Size, All
<1>13. /\ f.pipes = e.pipes /\ f.line = l /\ f.key = e.key /\ f.at = "start"
       /\ f = [pipes |-> e.pipes, line |-> l, key |-> e.key, at |-> "start"]
  BY DEF EnvOf
<1>14. /\ l \in Seq(Nat) /\ l # << >> /\ Len(l) = 1 /\ DOMAIN l = {1} /\ l[1] = m
       /\ {l[i] : i \in DOMAIN l} = {m} /\ \A i, j \in DOMAIN l : i = j
  BY <1>2, OneLine
<1>15. e.at = "none" /\ Held(e) = {}
  <2>1. e.at = "none"
    BY <1>3 DEF EnvOK
  <2>2. DOMAIN e.line = {}
    OBVIOUS
  <2> QED
    BY <2>1, <2>2 DEF Held
<1>16. Held(f) = {m}
  BY <1>13, <1>14 DEF Held
<1>17. EnvOK(m, f)
  <2>1. f \in Envs
    BY <1>3, <1>13, <1>14 DEF EnvOK, Envs
  <2> QED
    <3>1. Held(f) \subseteq 1 .. m
      BY <1>2, <1>16
    <3>2. \A i, j \in DOMAIN f.line : f.line[i] = f.line[j] => i = j
      BY <1>13, <1>14
    <3>3. f.line # << >> /\ f.at # "owed"
      BY <1>13, <1>14
    <3> QED
      BY <1>2, <2>1, <3>1, <3>2, <3>3 DEF EnvOK
<1>18. Free(k, e) \subseteq Free(m, f)
  BY <1>2, <1>15, <1>16 DEF Free
<1>19. Grows(k, e, m, f)
  BY <1>2, <1>13, <1>18 DEF Grows
<1>20. NoSinkAsks(w.owed)
  BY <1>3, <1>15, SinkIdle
<1>21. OwedOK(x, f)
  <2>1. o \subseteq [who : Asks, p : All(x), n : Int]
    <3>1. [who |-> "sinkStart", p |-> m, n |-> n] \in [who : Asks, p : All(x), n : Int]
      BY <1>2, <1>12 DEF Asks, SinkAsks, Values
    <3>2. w.owed \subseteq [who : Asks, p : All(x), n : Int]
      BY <1>2, <1>3, <1>12 DEF OwedOK
    <3> QED
      BY <1>6, <3>1, <3>2
  <2>2. ASSUME NEW a \in w.owed
        PROVE  a.who \notin SinkAsks /\ a.p \in Free(m, f)
    <3>1. a.who \notin SinkAsks
      BY <1>20 DEF NoSinkAsks
    <3>2. a.p \in Free(k, e)
      BY <1>1, <1>3, <3>1 DEF OwedOK, SinkAsks
    <3> QED
      BY <1>18, <3>1, <3>2
  <2>3. PICK b : b = [who |-> "sinkStart", p |-> m, n |-> n]
    OBVIOUS
  <2>4. b.who = "sinkStart" /\ b.p = f.line[1] /\ \A a \in o : a \in w.owed \/ a = b
    BY <1>6, <1>13, <1>14, <2>3
  <2>5. \A a \in o : CASE a.who = "sinkStart" -> f.at = "start" /\ a.p = f.line[1]
                       [] a.who \in {"write", "close"} -> f.at = "owed" /\ a.p = f.key
                       [] OTHER -> a.p \in Free(m, f)
    <3>1. ASSUME NEW a \in o
          PROVE CASE a.who = "sinkStart" -> f.at = "start" /\ a.p = f.line[1]
                       [] a.who \in {"write", "close"} -> f.at = "owed" /\ a.p = f.key
                       [] OTHER -> a.p \in Free(m, f)
      <4>1. CASE a \in w.owed
        BY <2>2, <4>1 DEF SinkAsks
      <4>2. CASE a = b
        BY <1>13, <2>4, <4>2
      <4> QED
        BY <2>4, <3>1, <4>1, <4>2
    <3> QED
      BY <3>1
  <2>6. \A a, q \in o : a.who \in SinkAsks /\ q.who \in SinkAsks => a = q
    BY <2>2, <2>4
  <2> QED
    BY <1>11, <1>12, <2>1, <2>5, <2>6 DEF OwedOK
<1>22. /\ g \in WsShape(m) /\ EndOf(g, "dst") = m /\ \A z \in Writables : z # "dst" => g[z] = w.ws[z]
  <2>1. PICK s : s = "dst"
    OBVIOUS
  <2>2. s \in Writables /\ m \in 1 .. m
    BY <1>2, <2>1 DEF Writables
  <2>3. u.ws \in WsShape(m)
    <3>1. WritableShape(k) \subseteq WritableShape(m)
      BY <1>2, ShapesWider
    <3> QED
      BY <1>1, <1>3, <1>9, <3>1 DEF StreamsOK, WsShape
  <2>4. g = Writing(u, s, m)
    BY <1>10, <2>1
  <2>5. g \in WsShape(m)
    BY <1>2, <2>2, <2>3, <2>4, WritingIn
  <2>6. EndOf(g, s) = m
    BY <1>2, <2>2, <2>3, <2>4, WritingIn
  <2>7. \A z \in Writables : z # s => g[z] = u.ws[z]
    BY <1>2, <2>2, <2>3, <2>4, WritingIn
  <2> QED
    BY <1>9, <2>1, <2>5, <2>6, <2>7
<1>23. x.ws["dst"].writing = m
  BY <1>11, <1>22 DEF EndOf
<1>24. Writes(w, x)
  <2>1. ASSUME NEW z \in Writables, w.ws[z].writing # 0 PROVE x.ws[z].writing # 0
    BY <1>2, <1>11, <1>22, <1>23, <2>1
  <2> QED
    BY <2>1 DEF Writes
<1>25. LineOK(x, f)
  BY <1>13, <1>14, <1>23 DEF LineOK
<1>26. StreamsOK(x, f)
  <2>1. x.ws \in [Writables -> WritableShape(Size(x))]
    BY <1>11, <1>12, <1>22 DEF WsShape
  <2>2. x.rs = w.rs /\ x.plan = w.plan /\ Grows(Size(w), e, Size(x), f) /\ f.pipes = e.pipes
    BY <1>1, <1>11, <1>12, <1>13, <1>19 DEF SameScript
  <2> QED
    BY <1>24, <1>25, <2>1, <2>2, StreamsMove
<1>27. ScriptOK(x)
  <2>1. All(w) \subseteq All(x)
    BY <1>2, <1>12
  <2> QED
    BY <1>11, <2>1, ScriptMoves
<1>28. \A z \in All(w) : ChainStays(z, e, f) /\ (z \in Held(f) => z \in Held(e))
  <2>1. \A z : ChainStays(z, e, f)
    <3>1. EnvOK(k, e) /\ \A z : z \notin Held(e)
      BY <1>3, <1>15
    <3>2. \A z, r : ~OnChain(r, z, e)
      BY <3>1, NotChain DEF EnvOK
    <3> QED
      BY <3>2 DEF ChainStays
  <2> QED
    BY <1>2, <1>12, <1>16, <2>1
<1>29. TokensStay(w, e, f)
  BY <1>15 DEF TokensStay, IsToken
<1>30. Good(x, f)
  <2>1. x.heap = Made(w).w.heap
    BY <1>4, <1>11
  <2>2. Grows(Size(w), e, Size(w) + 1, f) /\ EnvOK(Size(w) + 1, f)
    BY <1>1, <1>2, <1>17, <1>19
  <2> QED
    BY <1>11, <1>21, <1>26, <1>27, <1>28, <1>29, <2>1, <2>2, MadeMoves
<1>31. Goes(w, e, x, f)
  <2>1. Size(w) <= Size(x)
    BY <1>1, <1>2, <1>12
  <2>2. x.plan = w.plan
    BY <1>11 DEF SameScript
  <2>3. Free(Size(w), e) \subseteq Free(Size(x), f)
    BY <1>1, <1>12, <1>18
  <2> QED
    BY <1>13, <1>24, <1>30, <2>1, <2>2, <2>3 DEF Goes, Writes
<1> QED
  BY <1>2, <1>8, <1>13, <1>23, <1>31

LEMMA NewSinkGoes ==
  ASSUME NEW w, NEW e, Good(w, e), e.line = << >>, NEW x, x = NewSink(w)
  PROVE  \E f : Goes(w, e, x, f) /\ f.pipes = e.pipes /\ x.ws["dst"].writing # 0
<1>1. CASE w.plan.sink = "later"
  <2>1. PICK c : c = Owes(w, "sinkStart", 0)
    OBVIOUS
  <2>2. PICK m : m = Size(w) + 1
    OBVIOUS
  <2>3. PICK l : l = <<m>>
    OBVIOUS
  <2>4. PICK f : f = EnvOf(e.pipes, l, e.key, "start")
    OBVIOUS
  <2>5. PICK y : y = WithWs(c.w, Writing(c.w, "dst", m))
    OBVIOUS
  <2>6. 0 \in Values
    BY DEF Values
  <2>7. Goes(w, e, y, f)
    BY <2>1, <2>2, <2>3, <2>4, <2>5, <2>6, LaterBegun
  <2>8. y.ws["dst"].writing # 0 /\ f.pipes = e.pipes
    BY <2>1, <2>2, <2>3, <2>4, <2>5, <2>6, LaterBegun
  <2>9. c.a = Promised(m)
    BY <2>1, <2>2, <2>3, <2>4, <2>5, <2>6, LaterBegun
  <2>10. IsWorld(c.w) /\ c.w.ws \in [Writables -> WritableShape(Size(w))]
    <3>1. w.ws \in [Writables -> WritableShape(Size(w))]
      BY DEF Good, StreamsOK
    <3>2. PICK n : n = Made(w).w
      OBVIOUS
    <3>3. IsWorld(n) /\ n.ws = w.ws
      BY <3>2, MadeIs DEF Rest
    <3>4. PICK o : o = n.owed \cup {[who |-> "sinkStart", p |-> Made(w).p, n |-> 0]}
      OBVIOUS
    <3>5. c.w = Owing(n, o)
      BY <2>1, <3>2, <3>4 DEF Owes, Owing
    <3>6. IsWorld(c.w) /\ c.w.ws = n.ws
      BY <3>3, <3>5, OwingSet
    <3> QED
      BY <3>1, <3>3, <3>6
  <2>11. x = y
    <3>1. PromiseResolve(c.w, c.a) = [w |-> c.w, p |-> m]
      BY <2>9 DEF PromiseResolve, Promised
    <3>2. x = [c.w EXCEPT !.ws["dst"].writing = m]
      BY <1>1, <2>1, <3>1 DEF NewSink
    <3> QED
      BY <2>5, <2>10, <3>2 DEF WithWs, Writing, IsWorld, Fields
  <2> QED
    BY <2>7, <2>8, <2>11
<1>2. CASE w.plan.sink # "later"
  <2>1. PICK r : r = PromiseResolve(w, Value(Undefined))
    OBVIOUS
  <2>2. PICK s : s = "dst"
    OBVIOUS
  <2>3. x = Begun(r, s)
    <3>1. Good(r.w, e)
      BY <2>1, ResolvedNow, GoesWider DEF Makes
    <3>2. IsWorld(r.w) /\ DOMAIN r.w.ws = Writables
      BY <3>1, LenHeap DEF Good, StreamsOK
    <3>3. x = [r.w EXCEPT !.ws["dst"].writing = r.p]
      BY <1>2, <2>1 DEF NewSink
    <3> QED
      BY <2>2, <3>2, <3>3 DEF Begun, WithWs, Writing, IsWorld, Fields
  <2>4. s \in Writables
    BY <2>2 DEF Writables
  <2>5. Goes(w, e, x, e) /\ x.ws[s].writing # 0
    BY <2>1, <2>3, <2>4, BegunGoes
  <2> QED
    BY <2>2, <2>5
<1> QED
  BY <1>1, <1>2

\* One more readable stream is piped.
LEMMA PipesGrow ==
  ASSUME NEW w, NEW e, Good(w, e), NEW s, s \in Readables, w.ws[PipesInto(w, s)].writing # 0,
         NEW p, p = e.pipes \cup {s}, NEW f, f = EnvOf(p, e.line, e.key, e.at)
  PROVE  Goes(w, e, w, f) /\ s \in f.pipes /\ f.line = e.line
<1>1. PICK k : k = Size(w)
  OBVIOUS
<1>2. k \in Nat /\ EnvOK(k, e) /\ StreamsOK(w, e) /\ OwedOK(w, e) /\ IsWorld(w)
  BY <1>1, LenHeap DEF Good
<1>3. f.pipes = p /\ f.line = e.line /\ f.key = e.key /\ f.at = e.at /\ f = [pipes |-> p, line |-> e.line, key |-> e.key, at |-> e.at]
  BY DEF EnvOf
<1>4. Held(f) = Held(e)
  BY <1>3 DEF Held
<1>5. \A n : Free(n, f) = Free(n, e)
  BY <1>4 DEF Free
<1>6. EnvOK(k, f)
  <2>1. f \in Envs
    BY <1>2, <1>3 DEF EnvOK, Envs
  <2> QED
    BY <1>2, <1>3, <1>4, <2>1 DEF EnvOK
<1>7. Grows(k, e, k, f)
  BY <1>2, <1>3, <1>5 DEF Grows
<1>8. OwedOK(w, f)
  BY <1>2, <1>3, <1>5 DEF OwedOK
<1>9. StreamsOK(w, f)
  <2>1. \A n : ReadableShape(n, f) = ReadableShape(n, e)
    BY <1>5 DEF ReadableShape
  <2>2. \A z \in f.pipes : w.ws[PipesInto(w, z)].writing # 0
    BY <1>2, <1>3 DEF StreamsOK
  <2> QED
    BY <1>2, <1>3, <1>5, <2>1, <2>2 DEF StreamsOK
<1>10. \A z \in All(w) : ChainStays(z, e, f) /\ (z \in Held(f) => z \in Held(e))
  BY <1>3, <1>4 DEF ChainStays, OnChain
<1>11. TokensStay(w, e, f)
  BY <1>3 DEF TokensStay, IsToken
<1>12. Good(w, f)
  <2>1. SeenOK(w) /\ ScriptOK(w) /\ w.heap \in Seq(PromiseShape)
    BY LenHeap DEF Good
  <2> QED
    BY <1>1, <1>2, <1>6, <1>7, <1>8, <1>9, <1>10, <1>11, <2>1, Moves
<1>13. Goes(w, e, w, f)
  BY <1>1, <1>2, <1>3, <1>5, <1>12 DEF Goes
<1> QED
  BY <1>3, <1>13

LEMMA PipeToMakes ==
  ASSUME NEW w, NEW e, Good(w, e), NEW s, s \in Readables, w.ws[PipesInto(w, s)].writing # 0
  PROVE  \E f : Makes(w, e, PipeTo(w, s), f) /\ f.line = e.line
<1>1. PICK p : p = e.pipes \cup {s}
  OBVIOUS
<1>2. PICK f : f = EnvOf(p, e.line, e.key, e.at)
  OBVIOUS
<1>3. Goes(w, e, w, f) /\ s \in f.pipes /\ f.line = e.line /\ Good(w, f)
  BY <1>1, <1>2, PipesGrow, GoesWider
<1>4. PICK x : x = GetReader(w, s)
  OBVIOUS
<1>5. Goes(w, f, x, f) /\ Good(x, f)
  BY <1>3, <1>4, GetReaderGoes, GoesWider
<1>6. PICK d : d = PipesInto(w, s)
  OBVIOUS
<1>7. PICK y : y = WsLocked(x, d, TRUE)
  OBVIOUS
<1>8. Goes(x, f, y, f) /\ Good(y, f)
  <2>1. d \in Writables
    BY <1>6 DEF PipesInto, Writables
  <2>2. PICK b : b = TRUE
    OBVIOUS
  <2>3. b \in BOOLEAN /\ y = WsLocked(x, d, b)
    BY <1>7, <2>2
  <2> QED
    BY <1>5, <2>1, <2>3, WsLockedGoes, GoesWider
<1>9. PICK m : m = Made(y)
  OBVIOUS
<1>10. Makes(y, f, m, f) /\ DOMAIN m = {"w", "p"}
  BY <1>8, <1>9, MadeGoes DEF Made
<1>11. PICK u, q : u = m.w /\ q = m.p
  OBVIOUS
<1>12. Goes(y, f, u, f) /\ Good(u, f) /\ q \in Free(Size(u), f)
  BY <1>8, <1>10, <1>11, GoesWider DEF Makes
<1>13. PICK z : z = PipeStep(u, s, q)
  OBVIOUS
<1>14. Goes(u, f, z, f)
  BY <1>3, <1>12, <1>13, PipeStepGoes
<1>15. q \in Free(Size(z), f)
  BY <1>12, <1>14, GoesWider
<1>16. Goes(w, f, z, f)
  <2>1. Goes(w, f, y, f)
    BY <1>3, <1>5, <1>8, GoesFurther
  <2>2. Goes(w, f, u, f)
    BY <1>3, <1>12, <2>1, GoesFurther
  <2> QED
    BY <1>3, <1>14, <2>2, GoesFurther
<1>17. Goes(w, e, z, f)
  BY <1>3, <1>16, GoesFurther
<1>18. PipeTo(w, s).w = z /\ PipeTo(w, s).p = q
  <2>1. y = [GetReader(w, s) EXCEPT !.ws[PipesInto(w, s)].locked = TRUE]
    BY <1>4, <1>6, <1>7 DEF WsLocked
  <2>2. PipeTo(w, s) = [m EXCEPT !.w = PipeStep(@, s, m.p)]
    BY <1>9, <2>1 DEF PipeTo
  <2> QED
    BY <1>10, <1>11, <1>13, <2>2
<1> QED
  BY <1>3, <1>15, <1>17, <1>18 DEF Makes

LEMMA KeptGoes ==
  ASSUME NEW w, NEW e, NEW t, NEW f, Good(w, e), Makes(w, e, t, f), NEW x, x = Kept(t)
  PROVE  Goes(w, e, x, f)
<1>1. PICK y, p : y = t.w /\ p = t.p
  OBVIOUS
<1>2. Goes(w, e, y, f) /\ Good(y, f) /\ p \in Nat
  BY <1>1, GoesWider DEF Makes, Free
<1>3. PICK s : s = [y.script EXCEPT !.pipe = p]
  OBVIOUS
<1>4. IsWorld(y) /\ y.script \in ScriptShape(y)
  BY <1>2, LenHeap, ScriptIs
<1>5. s \in ScriptShape(y)
  BY <1>2, <1>3, <1>4 DEF ScriptShape
<1>6. Goes(y, f, WithScript(y, s), f)
  BY <1>2, <1>5, ScriptSetGoes
<1>7. x = WithScript(y, s)
  BY <1>1, <1>3, <1>4 DEF Kept, WithScript, IsWorld, Fields
<1> QED
  BY <1>2, <1>6, <1>7, GoesFurther

LEMMA DroppedGoes ==
  ASSUME NEW w, NEW e, NEW t, NEW f, Good(w, e), Makes(w, e, t, f), NEW x, x = Dropped(t)
  PROVE  Goes(w, e, x, f)
<1>1. PICK z, p : z = t.w /\ p = t.p
  OBVIOUS
<1>2. Goes(w, e, z, f) /\ Good(z, f) /\ p \in Nat /\ p \in All(z)
  BY <1>1, GoesWider, FreeIsMade DEF Makes, Free
<1>3. PICK y : y = Then(z, p, NoCode, Noop).w
  OBVIOUS
<1>4. Goes(z, f, y, f) /\ Good(y, f)
  <2>1. NoCode \in Codes(Size(z), f) /\ Noop \in Codes(Size(z), f)
    BY NoCodeIs
  <2> QED
    BY <1>2, <1>3, <2>1, ThenGoes, GoesWider DEF Makes
<1>5. PICK s : s = [y.script EXCEPT !.first = p]
  OBVIOUS
<1>6. IsWorld(y) /\ y.script \in ScriptShape(y)
  BY <1>4, LenHeap, ScriptIs
<1>7. s \in ScriptShape(y)
  BY <1>2, <1>5, <1>6 DEF ScriptShape
<1>8. Goes(y, f, WithScript(y, s), f)
  BY <1>4, <1>7, ScriptSetGoes
<1>9. x = WithScript(y, s)
  <2>1. x = [y EXCEPT !.script.first = p]
    BY <1>1, <1>3 DEF Dropped, Catch
  <2> QED
    BY <1>5, <1>6, <2>1 DEF WithScript, IsWorld, Fields
<1>10. Goes(w, e, y, f)
  BY <1>2, <1>4, GoesFurther
<1> QED
  BY <1>8, <1>9, <1>10, GoesFurther

LEMMA PipesGo ==
  ASSUME NEW w, NEW e, Good(w, e), e.line = << >>, NEW s, s \in Readables,
         s # "src" \/ w.plan.shape # "through"
  PROVE  Stays(w, e, Pipes(w, s))
<1>1. PICK x : x = NewSink(w)
  OBVIOUS
<1>2. PICK f : Goes(w, e, x, f) /\ f.pipes = e.pipes /\ x.ws["dst"].writing # 0
  BY <1>1, NewSinkGoes
<1>3. Good(x, f) /\ x.plan = w.plan
  BY <1>2 DEF Goes
<1>4. x.ws[PipesInto(x, s)].writing # 0
  BY <1>2, <1>3 DEF PipesInto
<1>5. PICK t : t = PipeTo(x, s)
  OBVIOUS
<1>6. PICK g : Makes(x, f, t, g)
  BY <1>3, <1>4, <1>5, PipeToMakes
<1>7. Goes(x, f, Kept(t), g)
  BY <1>3, <1>6, KeptGoes
<1>8. Goes(w, e, Kept(t), g)
  BY <1>2, <1>7, GoesFurther
<1> QED
  BY <1>1, <1>5, <1>8, StaysIs DEF Pipes

LEMMA PipeThroughGoes ==
  ASSUME NEW w, NEW e, Good(w, e), e.line = << >>, w.plan.shape = "through", NEW x, x = PipeThrough(w)
  PROVE  \E f : Goes(w, e, x, f) /\ f.line = << >>
<1>1. PICK y : y = NewTransform(w)
  OBVIOUS
<1>2. Goes(w, e, y, e) /\ Good(y, e) /\ y.ws["in"].writing # 0
  BY <1>1, NewTransformGoes
<1>3. y.plan = w.plan
  BY <1>2 DEF Goes
<1>4. PICK s : s = "src"
  OBVIOUS
<1>5. s \in Readables /\ y.ws[PipesInto(y, s)].writing # 0
  BY <1>2, <1>3, <1>4 DEF PipesInto, Readables
<1>6. PICK t : t = PipeTo(y, s)
  OBVIOUS
<1>7. PICK f : Makes(y, e, t, f) /\ f.line = e.line
  BY <1>2, <1>5, <1>6, PipeToMakes
<1>8. Goes(y, e, Dropped(t), f)
  BY <1>2, <1>7, DroppedGoes
<1>9. Goes(w, e, Dropped(t), f)
  BY <1>2, <1>8, GoesFurther
<1> QED
  BY <1>1, <1>4, <1>6, <1>7, <1>9 DEF PipeThrough

LEMMA ReadsGo ==
  ASSUME NEW w, NEW e, Good(w, e)
  PROVE  Goes(w, e, Reads(w), e)
<1>1. PICK s, l, r : s = "src" /\ l = "left" /\ r = "right"
  OBVIOUS
<1>2. s \in Readables /\ l \in Readables /\ r \in Readables /\ {s, l, r} \subseteq {"src", "left", "right"}
  BY <1>1 DEF Readables
<1>3. ASSUME NEW x, Goes(w, e, x, e), NEW z, z \in Readables
      PROVE  Goes(w, e, GetReader(x, z), e)
  <2>1. Good(x, e)
    BY <1>3, GoesWider
  <2>2. Goes(x, e, GetReader(x, z), e)
    BY <1>3, <2>1, GetReaderGoes
  <2> QED
    BY <1>3, <2>2, GoesFurther
<1>4. ASSUME NEW x, Goes(w, e, x, e), NEW z, z \in {"src", "left", "right"}
      PROVE  Goes(w, e, Loop(x, z), e)
  <2>1. Good(x, e)
    BY <1>4, GoesWider
  <2>2. Goes(x, e, Loop(x, z), e)
    BY <1>4, <2>1, LoopGoes
  <2> QED
    BY <1>4, <2>2, GoesFurther
<1>5. Goes(w, e, w, e)
  BY GoesNowhere
<1>6. PICK a : a = GetReader(w, s)
  OBVIOUS
<1>7. Goes(w, e, a, e)
  BY <1>2, <1>3, <1>5, <1>6
<1>8. PICK b : b = GetReader(a, l)
  OBVIOUS
<1>9. Goes(w, e, b, e)
  BY <1>2, <1>3, <1>7, <1>8
<1>10. PICK c : c = GetReader(b, r)
  OBVIOUS
<1>11. Goes(w, e, c, e)
  BY <1>2, <1>3, <1>9, <1>10
<1>12. PICK d : d = Loop(c, l)
  OBVIOUS
<1>13. Goes(w, e, d, e)
  BY <1>2, <1>4, <1>11, <1>12
<1>14. Goes(w, e, Loop(d, r), e)
  BY <1>2, <1>4, <1>13
<1>15. PICK g : g = Loop(a, s)
  OBVIOUS
<1>16. Goes(w, e, g, e)
  BY <1>2, <1>4, <1>7, <1>15
<1>17. Goes(w, e, Loop(g, s), e)
  BY <1>2, <1>4, <1>16
<1> QED
  BY <1>1, <1>6, <1>8, <1>10, <1>12, <1>14, <1>15, <1>16, <1>17 DEF Reads

\* What the script builds.
LEMMA BuiltGoes ==
  ASSUME NEW w, NEW e, Good(w, e), e.line = << >>, w.plan.shape \in {"read", "pipe", "through", "tee", "write"},
         NEW x, x = Built(w)
  PROVE  Stays(w, e, x) /\ (w.plan.shape = "write" => x.ws["dst"].writing # 0)
<1>1. CASE w.plan.shape \in {"read", "tee"}
  BY <1>1, ReadsGo, StaysIs DEF Built
<1>2. CASE w.plan.shape = "pipe"
  <2>1. PICK s : s = "src"
    OBVIOUS
  <2>2. s \in Readables
    BY <2>1 DEF Readables
  <2>3. Stays(w, e, Pipes(w, s))
    BY <1>2, <2>2, PipesGo
  <2> QED
    BY <1>2, <2>1, <2>3 DEF Built
<1>3. CASE w.plan.shape = "through"
  <2>1. PICK y : y = PipeThrough(w)
    OBVIOUS
  <2>2. PICK f : Goes(w, e, y, f) /\ f.line = << >>
    BY <1>3, <2>1, PipeThroughGoes
  <2>3. PICK s : s = "out"
    OBVIOUS
  <2>4. s \in Readables /\ s # "src" /\ Good(y, f)
    BY <2>2, <2>3, GoesWider DEF Readables
  <2>5. Stays(y, f, Pipes(y, s))
    BY <2>2, <2>4, PipesGo
  <2>6. Stays(w, e, Pipes(y, s))
    BY <2>2, <2>5, StaysFurther
  <2> QED
    BY <1>3, <2>1, <2>3, <2>6 DEF Built
<1>4. CASE w.plan.shape = "write"
  <2>1. PICK y : y = NewSink(w)
    OBVIOUS
  <2>2. PICK f : Goes(w, e, y, f) /\ y.ws["dst"].writing # 0
    BY <2>1, NewSinkGoes
  <2>3. Good(y, f)
    BY <2>2, GoesWider
  <2>4. PICK d, b : d = "dst" /\ b = TRUE
    OBVIOUS
  <2>5. d \in Writables /\ b \in BOOLEAN
    BY <2>4 DEF Writables
  <2>6. Goes(y, f, WsLocked(y, d, b), f)
    BY <2>3, <2>5, WsLockedGoes
  <2>7. x = WsLocked(y, d, b)
    BY <1>4, <2>1, <2>4 DEF Built, WsLocked
  <2>8. x.ws["dst"].writing # 0
    BY <2>2, <2>4, <2>5, <2>6, <2>7 DEF Goes
  <2>9. Goes(w, e, x, f)
    BY <2>2, <2>6, <2>7, GoesFurther
  <2> QED
    BY <2>8, <2>9, StaysIs
<1> QED
  BY <1>1, <1>2, <1>3, <1>4

LEMMA BuildingGoes ==
  ASSUME NEW w, NEW e, Good(w, e), e.line = << >>, w.plan.shape \in {"read", "pipe", "through", "tee", "write"},
         NEW x, x = Building(w)
  PROVE  Stays(w, e, x) /\ (w.plan.shape = "write" => x.ws["dst"].writing # 0)
<1>1. CASE w.plan.shape = "write"
  BY <1>1, BuiltGoes DEF Building
<1>2. CASE w.plan.shape # "write"
  <2>1. PICK y : y = StartSource(w)
    OBVIOUS
  <2>2. Goes(w, e, y, e) /\ Good(y, e)
    BY <2>1, StartSourceGoes, GoesWider
  <2>3. y.plan = w.plan
    BY <2>2 DEF Goes
  <2>4. x = Built(y)
    BY <1>2, <2>1 DEF Building
  <2>5. Stays(y, e, x)
    BY <2>2, <2>3, <2>4, BuiltGoes
  <2>6. Stays(w, e, x)
    BY <2>2, <2>5, StaysFurther
  <2> QED
    BY <1>2, <2>6
<1> QED
  BY <1>1, <1>2


(* The inductive invariant: nothing is built yet, or the world is a good one. *)

Running ==
  /\ plan # NoPlan /\ (plan.shape = "write" => ws["dst"].writing # 0)
  /\ \E e : Good(World, e)
IInv == Init \/ Running

LEMMA BecomesIs ==
  ASSUME NEW x, NEW f, Good(x, f), Becomes(x)
  PROVE  World' = x
<1>1. IsWorld(x)
  BY LenHeap
<1> QED
  BY <1>1 DEF World, Becomes, IsWorld, Fields

LEMMA WorldIs ==
  /\ World.heap = heap /\ World.micro = micro /\ World.rs = rs /\ World.ws = ws /\ World.owed = owed
  /\ World.plan = plan /\ World.given = given /\ World.script = script /\ World.faults = faults
BY DEF World

LEMMA RunsOn ==
  ASSUME Running, NEW e, Good(World, e), NEW x, Stays(World, e, x), Becomes(x)
  PROVE  Running'
<1>1. PICK w : w = World
  OBVIOUS
<1>2. PICK f : Goes(w, e, x, f)
  BY <1>1 DEF Stays
<1>3. Good(x, f) /\ World' = x
  BY <1>1, <1>2, GoesWider, BecomesIs
<1>4. x.plan = plan /\ (ws["dst"].writing # 0 => x.ws["dst"].writing # 0)
  <2>1. PICK d : d = "dst"
    OBVIOUS
  <2>2. d \in Writables
    BY <2>1 DEF Writables
  <2> QED
    BY <1>1, <1>2, <2>1, <2>2, WorldIs DEF Goes
<1>5. plan' = x.plan /\ ws' = x.ws
  BY DEF Becomes
<1> QED
  BY <1>3, <1>4, <1>5 DEF Running

\* Before anything is built.
NoEnv == [pipes |-> {}, line |-> << >>, key |-> 0, at |-> "none"]
LEMMA FreshIsGood ==
  ASSUME Init, NEW p, p \in Plans, NEW x, x = [World EXCEPT !.plan = p]
  PROVE  Good(x, NoEnv) /\ x.plan = p
<1>1. /\ x.heap = << >> /\ x.micro = << >> /\ x.owed = {} /\ x.plan = p
      /\ x.rs = [s \in Readables |-> NewReadable] /\ x.ws = [s \in Writables |-> NewWritable]
      /\ x.given = 0 /\ x.over = FALSE /\ x.done = {} /\ x.taken = [c \in Consumers |-> << >>]
      /\ x.script = [first |-> 0, pipe |-> 0, writes |-> << >>, join |-> 0, stopped |-> FALSE]
      /\ x.faults = 0
  BY DEF Init, World
<1>2. x = [f \in Fields |-> x[f]]
  BY DEF World, Fields
<1>3. Size(x) = 0 /\ All(x) = {} /\ Held(NoEnv) = {}
  BY <1>1 DEF Size, All, Held, NoEnv
<1>4. NoEnv \in Envs
  BY DEF NoEnv, Envs
<1>5. EnvOK(Size(x), NoEnv)
  <2>1. NoEnv.line = << >> /\ NoEnv.at = "none"
    BY DEF NoEnv
  <2> QED
    BY <1>3, <1>4, <2>1 DEF EnvOK
<1>6. HeapOK(x, NoEnv)
  <2>1. << >> \in Seq(PromiseShape)
    OBVIOUS
  <2>2. \A q \in All(x) : PromiseOK(x.heap[q], q, Size(x), NoEnv)
    BY <1>3
  <2> QED
    BY <1>1, <2>1, <2>2 DEF HeapOK
<1>7. SeenOK(x)
  BY <1>3 DEF SeenOK
<1>8. MicroOK(x, NoEnv)
  <2>1. << >> \in Seq(TaskShape)
    OBVIOUS
  <2>2. DOMAIN x.micro = {}
    BY <1>1
  <2> QED
    BY <1>1, <2>1, <2>2 DEF MicroOK
<1>9. OwedOK(x, NoEnv)
  BY <1>1 DEF OwedOK
<1>10. StreamsOK(x, NoEnv)
  <2>1. NewReadable \in ReadableShape(Size(x), NoEnv)
    BY <1>3 DEF NewReadable, ReadableShape, Undefined
  <2>2. NewWritable \in WritableShape(Size(x))
    BY <1>3 DEF NewWritable, WritableShape, Undefined
  <2>3. x.ws["dst"].writing = 0 /\ \A s \in Readables : ~x.rs[s].locked
    BY <1>1 DEF NewWritable, NewReadable, Writables
  <2>4. x.rs \in [Readables -> ReadableShape(Size(x), NoEnv)]
    BY <1>1, <2>1
  <2>5. x.ws \in [Writables -> WritableShape(Size(x))]
    BY <1>1, <2>2
  <2>6. NoEnv.line = << >> /\ NoEnv.pipes = {}
    BY DEF NoEnv
  <2> QED
    BY <2>3, <2>4, <2>5, <2>6 DEF StreamsOK
<1>11. ScriptOK(x)
  <2>1. << >> \in Seq(Int) /\ << >> \in Seq(All(x))
    OBVIOUS
  <2>2. x.taken \in [Consumers -> Seq(Int)]
    <3>1. x.taken = [c \in Consumers |-> << >>]
      BY <1>1
    <3> QED
      BY <2>1, <3>1
  <2>3. x.script \in [first : Nat, pipe : Nat, join : Nat, stopped : BOOLEAN, writes : Seq(All(x))]
    <3>1. x.script = [first |-> 0, pipe |-> 0, writes |-> << >>, join |-> 0, stopped |-> FALSE]
      BY <1>1
    <3>2. PICK z, S, b : z = << >> /\ S = Seq(All(x)) /\ b = FALSE
      OBVIOUS
    <3>3. z \in S /\ b \in BOOLEAN
          /\ x.script = [first |-> 0, pipe |-> 0, writes |-> z, join |-> 0, stopped |-> b]
      BY <2>1, <3>1, <3>2
    <3>4. x.script \in [first : Nat, pipe : Nat, join : Nat, stopped : BOOLEAN, writes : S]
      BY <3>3
    <3> QED
      BY <3>2, <3>4
  <2>4. x.plan \in Plans \cup {NoPlan}
    <3>1. x.plan = p
      BY <1>1
    <3> QED
      BY <3>1
  <2>6. x.given \in Nat
    BY <1>1
  <2>7. x.over \in BOOLEAN
    <3>1. x.over = FALSE
      BY <1>1
    <3> QED
      BY <3>1, Zenon
  <2>5. x.done \subseteq Consumers /\ x.faults \in Nat
    BY <1>1
  <2> QED
    BY <2>2, <2>3, <2>4, <2>5, <2>6, <2>7 DEF ScriptOK
<1> QED
  BY <1>1, <1>2, <1>5, <1>6, <1>7, <1>8, <1>9, <1>10, <1>11 DEF Good

LEMMA PlanIs ==
  ASSUME NEW p, p \in Plans
  PROVE  p # NoPlan /\ p.shape \in {"read", "pipe", "through", "tee", "write"}
<1>1. p.shape \in {"read", "pipe", "through", "tee", "write"}
  BY WebStreamsAssumption
<1>2. NoPlan.shape = "none"
  BY DEF NoPlan
<1> QED
  BY <1>1, <1>2

LEMMA BuildRuns ==
  ASSUME Init, Build
  PROVE  Running'
<1>1. PICK p : p \in Plans /\ Becomes(Building([World EXCEPT !.plan = p]))
  BY DEF Build
<1>2. PICK w, x : w = [World EXCEPT !.plan = p] /\ x = Building(w)
  OBVIOUS
<1>3. PICK e : e = NoEnv
  OBVIOUS
<1>4. Good(w, e) /\ w.plan = p /\ e.line = << >>
  BY <1>1, <1>2, <1>3, FreshIsGood DEF NoEnv
<1>5. p # NoPlan /\ p.shape \in {"read", "pipe", "through", "tee", "write"}
  BY <1>1, PlanIs
<1>6. Stays(w, e, x) /\ (p.shape = "write" => x.ws["dst"].writing # 0)
  BY <1>2, <1>4, <1>5, BuildingGoes
<1>7. PICK f : Goes(w, e, x, f)
  BY <1>6 DEF Stays
<1>8. Becomes(x)
  BY <1>1, <1>2
<1>9. Good(x, f) /\ World' = x /\ x.plan = p
  BY <1>4, <1>7, <1>8, GoesWider, BecomesIs DEF Goes
<1>10. plan' = p /\ ws' = x.ws
  BY <1>8, <1>9 DEF Becomes
<1> QED
  BY <1>5, <1>6, <1>9, <1>10 DEF Running


(* One lemma for each action. *)

LEMMA MicrotaskRuns ==
  ASSUME Running, Microtask
  PROVE  Running'
<1>1. PICK e : Good(World, e)
  BY DEF Running
<1>2. PICK w, x : w = World /\ x = Drained(World)
  OBVIOUS
<1>3. w.micro # << >> /\ Becomes(x)
  BY <1>2, WorldIs DEF Microtask
<1>4. \E f : Goes(w, e, Drained(w), f)
  BY <1>1, <1>2, <1>3, DrainedGoes
<1>5. Stays(w, e, x)
  BY <1>2, <1>4 DEF Stays
<1> QED
  BY <1>1, <1>2, <1>3, <1>5, RunsOn

LEMMA SourcePushesRuns ==
  ASSUME Running, SourcePushes
  PROVE  Running'
<1>1. PICK e : Good(World, e)
  BY DEF Running
<1>2. PICK w : w = World
  OBVIOUS
<1>3. PICK n : n = GivesNext(w)
  OBVIOUS
<1>4. PICK o : o \in owed /\ o.who = "start"
                /\ Becomes(IF n.a.how = "throw" \/ Over(n.w.rs["src"])
                           THEN Resolved([n.w EXCEPT !.owed = @ \ {o}], o.p, n.a) ELSE n.w)
  <2>1. n = GivesNext(World)
    BY <1>2, <1>3
  <2>2. PICK o \in OfWhom("start") :
          Becomes(IF n.a.how = "throw" \/ Over(n.w.rs["src"])
                  THEN Resolved([n.w EXCEPT !.owed = @ \ {o}], o.p, n.a) ELSE n.w)
    BY <2>1, Zenon DEF SourcePushes
  <2>3. o \in owed /\ o.who = "start"
    BY <2>2 DEF OfWhom
  <2> QED
    BY <2>2, <2>3
<1>5. o \in w.owed /\ o.who \notin SinkAsks
  BY <1>2, <1>4, WorldIs DEF SinkAsks
<1>6. PICK x : x = Owing(n.w, n.w.owed \ {o})
  OBVIOUS
<1>7. Stays(w, e, n.w) /\ Stays(w, e, Resolved(x, o.p, n.a))
  BY <1>1, <1>2, <1>3, <1>5, <1>6, SourceGoes
<1>8. Becomes(Resolved(x, o.p, n.a)) \/ Becomes(n.w)
  <2>1. x = [n.w EXCEPT !.owed = @ \ {o}]
    BY <1>6 DEF Owing
  <2> QED
    BY <1>4, <2>1
<1> QED
  BY <1>1, <1>2, <1>7, <1>8, RunsOn

LEMMA SourceAnswersRuns ==
  ASSUME Running, SourceAnswers
  PROVE  Running'
<1>1. PICK e : Good(World, e)
  BY DEF Running
<1>2. PICK w : w = World
  OBVIOUS
<1>3. PICK n : n = GivesNext(w)
  OBVIOUS
<1>4. PICK o : o \in owed /\ o.who = "source"
                /\ Becomes(Resolved([n.w EXCEPT !.owed = @ \ {o}], o.p, n.a))
  BY <1>2, <1>3 DEF SourceAnswers, OfWhom
<1>5. o \in w.owed /\ o.who \notin SinkAsks
  BY <1>2, <1>4, WorldIs DEF SinkAsks
<1>6. PICK x : x = Owing(n.w, n.w.owed \ {o})
  OBVIOUS
<1>7. Stays(w, e, Resolved(x, o.p, n.a))
  BY <1>1, <1>2, <1>3, <1>5, <1>6, SourceGoes
<1>8. x = [n.w EXCEPT !.owed = @ \ {o}]
  BY <1>6 DEF Owing
<1> QED
  BY <1>1, <1>2, <1>4, <1>7, <1>8, RunsOn

LEMMA SinkAnswersRuns ==
  ASSUME Running, SinkAnswers
  PROVE  Running'
<1>1. PICK e : Good(World, e)
  BY DEF Running
<1>2. PICK w : w = World
  OBVIOUS
<1>3. PICK o : o \in owed /\ Becomes(Resolved([w EXCEPT !.owed = @ \ {o}], o.p, Value(Undefined)))
  BY <1>2 DEF SinkAnswers, OfWhom
<1>4. o \in w.owed
  BY <1>2, <1>3, WorldIs
<1>5. PICK x : x = Resolved([w EXCEPT !.owed = @ \ {o}], o.p, Value(Undefined))
  OBVIOUS
<1>6. Stays(w, e, x)
  BY <1>1, <1>2, <1>4, <1>5, SinkAnswersGo
<1> QED
  BY <1>1, <1>2, <1>3, <1>5, <1>6, RunsOn

LEMMA TransformAnswersRuns ==
  ASSUME Running, TransformAnswers
  PROVE  Running'
<1>1. PICK e : Good(World, e)
  BY DEF Running
<1>2. PICK w : w = World
  OBVIOUS
<1>3. PICK o, y : /\ o \in owed /\ o.who \in {"transform", "flush"}
                  /\ y = (IF o.who = "transform" THEN Enqueue(w, "out", o.n) ELSE w)
                  /\ Becomes(Resolved([y EXCEPT !.owed = @ \ {o}], o.p, Value(Undefined)))
  BY <1>2 DEF TransformAnswers, OfWhom
<1>4. o \in w.owed /\ o.who \notin SinkAsks /\ (y = w \/ y = Enqueue(w, "out", o.n))
  BY <1>2, <1>3, WorldIs DEF SinkAsks
<1>5. PICK x : x = Owing(y, y.owed \ {o})
  OBVIOUS
<1>6. PICK z : z = Resolved(x, o.p, Value(Undefined))
  OBVIOUS
<1>7. Stays(w, e, z)
  BY <1>1, <1>2, <1>4, <1>5, <1>6, TransformGoes
<1>8. x = [y EXCEPT !.owed = @ \ {o}]
  BY <1>5 DEF Owing
<1> QED
  BY <1>1, <1>2, <1>3, <1>6, <1>7, <1>8, RunsOn

LEMMA FailsRuns ==
  ASSUME Running, Fails
  PROVE  Running'
<1>1. PICK e : Good(World, e)
  BY DEF Running
<1>2. PICK w : w = World
  OBVIOUS
<1>3. PICK o : /\ o \in owed
               /\ Becomes(Resolved([w EXCEPT !.owed = @ \ {o}, !.faults = @ + 1], o.p, Throws(Boom)))
  BY <1>2 DEF Fails
<1>4. o \in w.owed
  BY <1>2, <1>3, WorldIs
<1>5. PICK x : x = Resolved([w EXCEPT !.owed = @ \ {o}, !.faults = @ + 1], o.p, Throws(Boom))
  OBVIOUS
<1>6. Stays(w, e, x)
  BY <1>1, <1>2, <1>4, <1>5, FailsGoes
<1> QED
  BY <1>1, <1>2, <1>3, <1>5, <1>6, RunsOn

LEMMA SinkErrorsRuns ==
  ASSUME Running, SinkErrors
  PROVE  Running'
<1>1. PICK e : Good(World, e)
  BY DEF Running
<1>2. PICK w : w = World
  OBVIOUS
<1>3. PICK x : x = [w EXCEPT !.ws["dst"].errored = Boom, !.faults = @ + 1]
  OBVIOUS
<1>4. Stays(w, e, x)
  BY <1>1, <1>2, <1>3, SinkErrorsGo
<1>5. Becomes(x)
  BY <1>2, <1>3 DEF SinkErrors
<1> QED
  BY <1>1, <1>2, <1>4, <1>5, RunsOn

LEMMA UserCancelsRuns ==
  ASSUME Running, UserCancels
  PROVE  Running'
<1>1. PICK e : Good(World, e)
  BY DEF Running
<1>2. PICK w : w = World
  OBVIOUS
<1>3. PICK x : x = Cancel(Stopped(w), "src").w
  OBVIOUS
<1>4. Stays(w, e, x)
  BY <1>1, <1>2, <1>3, UserCancelsGo
<1>5. Becomes(x)
  BY <1>2, <1>3 DEF UserCancels, Stopped
<1> QED
  BY <1>1, <1>2, <1>4, <1>5, RunsOn

LEMMA UserAbortsRuns ==
  ASSUME Running, UserAborts
  PROVE  Running'
<1>1. PICK e : Good(World, e)
  BY DEF Running
<1>2. PICK w : w = World
  OBVIOUS
<1>3. PICK s : s \in Writables /\ Becomes(Abort(Stopped(w), s).w)
  BY <1>2 DEF UserAborts, Stopped
<1>4. PICK x : x = Abort(Stopped(w), s).w
  OBVIOUS
<1>5. Stays(w, e, x)
  BY <1>1, <1>2, <1>3, <1>4, UserAbortsGo
<1> QED
  BY <1>1, <1>2, <1>3, <1>4, <1>5, RunsOn

LEMMA UserWritesRuns ==
  ASSUME Running, UserWrites
  PROVE  Running'
<1>1. PICK e : Good(World, e)
  BY DEF Running
<1>2. PICK w, c, b : w = World /\ c = Write(World, "dst", given + 1) /\ b = ~Over(ws["dst"])
  OBVIOUS
<1>3. b \in BOOLEAN
  BY <1>2 DEF Over
<1>4. w.ws["dst"].writing # 0 /\ c = Write(w, "dst", w.given + 1)
  BY <1>2, WorldIs DEF UserWrites, Outside, Running
<1>5. PICK x : x = [c.w EXCEPT !.script.writes = Append(@, c.p), !.given = IF b THEN @ + 1 ELSE @]
  OBVIOUS
<1>6. Stays(w, e, x)
  BY <1>1, <1>2, <1>3, <1>4, <1>5, UserWritesGo
<1>7. Becomes(x)
  BY <1>2, <1>5 DEF UserWrites
<1> QED
  BY <1>1, <1>2, <1>6, <1>7, RunsOn

LEMMA UserJoinsRuns ==
  ASSUME Running, UserJoins
  PROVE  Running'
<1>1. PICK e : Good(World, e)
  BY DEF Running
<1>2. PICK w : w = World
  OBVIOUS
<1>3. PICK j : /\ \/ j = PromiseAll(w, script.writes) \/ j = PromiseRace(w, script.writes)
                  \/ j = PromiseAny(w, script.writes) \/ j = PromiseAllSettled(w, script.writes)
               /\ Becomes([j.w EXCEPT !.script.join = j.p])
  <2>1. PICK j : /\ j = (CASE plan.join = "all" -> PromiseAll(w, script.writes)
                           [] plan.join = "race" -> PromiseRace(w, script.writes)
                           [] plan.join = "any" -> PromiseAny(w, script.writes)
                           [] OTHER -> PromiseAllSettled(w, script.writes))
                 /\ Becomes([j.w EXCEPT !.script.join = j.p])
    BY <1>2 DEF UserJoins
  <2>2. PICK a, r, n, l : /\ a = PromiseAll(w, script.writes) /\ r = PromiseRace(w, script.writes)
                          /\ n = PromiseAny(w, script.writes)
                          /\ l = PromiseAllSettled(w, script.writes)
    OBVIOUS
  <2>3. j \in {a, r, n, l}
    BY <2>1, <2>2
  <2> QED
    BY <2>1, <2>2, <2>3
<1>4. PICK x : x = Joins(j.w, j.p)
  OBVIOUS
<1>5. Stays(w, e, x)
  BY <1>1, <1>2, <1>3, <1>4, WorldIs, UserJoinsGo
<1>6. Becomes(x)
  BY <1>3, <1>4 DEF Joins
<1> QED
  BY <1>1, <1>2, <1>5, <1>6, RunsOn

LEMMA UserClosesRuns ==
  ASSUME Running, UserCloses
  PROVE  Running'
<1>1. PICK e : Good(World, e)
  BY DEF Running
<1>2. PICK w : w = World
  OBVIOUS
<1>3. w.ws["dst"].writing # 0
  BY <1>2, WorldIs DEF UserCloses, Outside, Running
<1>4. PICK x : x = [CloseWritable(w, "dst").w EXCEPT !.over = TRUE]
  OBVIOUS
<1>5. Stays(w, e, x)
  BY <1>1, <1>2, <1>3, <1>4, UserClosesGo
<1>6. Becomes(x)
  BY <1>2, <1>4 DEF UserCloses
<1> QED
  BY <1>1, <1>2, <1>5, <1>6, RunsOn

LEMMA NothingElseBegins ==
  ASSUME Init, Next
  PROVE  Build
<1>1. plan = NoPlan /\ micro = << >>
  BY DEF Init
<1>2. ~Microtask /\ ~Outside
  BY <1>1 DEF Microtask, Outside
<1> QED
  BY <1>2 DEF Next, SourcePushes, SourceAnswers, SinkAnswers, TransformAnswers, Fails, SinkErrors,
              UserCancels, UserAborts, UserWrites, UserJoins, UserCloses

LEMMA IInvKept ==
  ASSUME IInv, [Next]_vars
  PROVE  IInv'
<1>1. CASE UNCHANGED vars
  <2>1. CASE Init
    <3>1. Init'
      BY <1>1, <2>1 DEF Init, vars
    <3> QED
      BY <3>1 DEF IInv
  <2>2. CASE Running
    <3>1. World' = World /\ plan' = plan /\ ws' = ws
      BY <1>1 DEF vars, World
    <3>2. Running'
      BY <2>2, <3>1 DEF Running
    <3> QED
      BY <3>2 DEF IInv
  <2> QED
    BY <2>1, <2>2 DEF IInv
<1>2. CASE Next /\ Init
  BY <1>2, NothingElseBegins, BuildRuns DEF IInv
<1>3. CASE Next /\ Running
  <2>1. ~Build
    BY <1>3 DEF Build, Running
  <2>2. Running'
    BY <1>3, <2>1, MicrotaskRuns, SourcePushesRuns, SourceAnswersRuns, SinkAnswersRuns,
       TransformAnswersRuns, FailsRuns, SinkErrorsRuns, UserCancelsRuns, UserAbortsRuns,
       UserWritesRuns, UserJoinsRuns, UserClosesRuns DEF Next
  <2> QED
    BY <2>2 DEF IInv
<1> QED
  BY <1>1, <1>2, <1>3 DEF IInv

LEMMA IInvSeen ==
  ASSUME IInv
  PROVE  RejectionsAreSeen
<1>1. CASE Init
  BY <1>1 DEF Init, RejectionsAreSeen
<1>2. CASE Running
  <2>1. PICK w, e : w = World /\ Good(w, e)
    BY <1>2 DEF Running
  <2>2. DOMAIN w.heap = All(w) /\ SeenOK(w)
    BY <2>1, LenHeap DEF Good
  <2>3. ASSUME micro = << >>, NEW p, p \in DOMAIN heap, heap[p].state = "rejected"
        PROVE  heap[p].heard \/ heap[p].flagged
    <3>1. p \in All(w) /\ w.heap[p].state = "rejected" /\ DOMAIN w.micro = {}
      BY <2>1, <2>2, <2>3, WorldIs
    <3>2. w.heap[p].heard \/ w.heap[p].flagged
      BY <2>2, <3>1 DEF SeenOK
    <3> QED
      BY <2>1, <3>2, WorldIs
  <2> QED
    BY <2>3 DEF RejectionsAreSeen
<1> QED
  BY <1>1, <1>2 DEF IInv

LEMMA IInvSink ==
  ASSUME IInv
  PROVE  SinkOneAtATime
<1>1. PICK S : S = OfWhom("write") \cup OfWhom("close") \cup OfWhom("sinkStart")
  OBVIOUS
<1>2. \A o, q \in S : o = q
  <2>1. CASE Init
    BY <1>1, <2>1 DEF Init, OfWhom
  <2>2. CASE Running
    <3>1. PICK w, e : w = World /\ Good(w, e)
      BY <2>2 DEF Running
    <3>2. \A o, q \in w.owed : o.who \in SinkAsks /\ q.who \in SinkAsks => o = q
      BY <3>1 DEF Good, OwedOK
    <3>3. \A o \in S : o \in w.owed /\ o.who \in SinkAsks
      BY <1>1, <3>1, WorldIs DEF OfWhom, SinkAsks
    <3> QED
      BY <3>2, <3>3
  <2> QED
    BY <2>1, <2>2 DEF IInv
<1>3. Cardinality(S) <= 1
  <2>1. CASE S = {}
    BY <2>1, FS_EmptySet
  <2>2. CASE S # {}
    <3>1. PICK o : S = {o}
      BY <1>2, <2>2
    <3>2. Cardinality(S) = 1
      BY <3>1, FS_Singleton
    <3> QED
      BY <3>2
  <2> QED
    BY <2>1, <2>2
<1> QED
  BY <1>1, <1>3 DEF SinkOneAtATime

\* Whatever the plan, the world is one that Good describes from the moment it is built: the
\* invariant behind the two theorems that follow.
THEOREM WorldStaysGood == Spec => []IInv
<1>1. Init => IInv
  BY DEF IInv
<1>2. IInv /\ [Next]_vars => IInv'
  BY IInvKept
<1> QED
  BY <1>1, <1>2, PTL DEF Spec

\* _schedCheck() looks at every rejected promise that nobody had listened to (globals.cpp:5193):
\* when the microtasks are drained, each was listened to, or reported as unhandled.
THEOREM RejectionsSeen == Spec => []RejectionsAreSeen
<1>1. IInv => RejectionsAreSeen
  BY IInvSeen
<1> QED
  BY <1>1, WorldStaysGood, PTL

\* The chain of _writing promises (globals.cpp:4046) calls the sink for the next chunk, or for
\* close(), only when the promise of the call before it, or of start(), is fulfilled.
THEOREM SinkIsSerial == Spec => []SinkOneAtATime
<1>1. IInv => SinkOneAtATime
  BY IInvSink
<1> QED
  BY <1>1, WorldStaysGood, PTL
=============================================================================
