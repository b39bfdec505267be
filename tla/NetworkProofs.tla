----------------------------- MODULE NetworkProofs -----------------------------
(***************************************************************************)
(* The network for every value of the constants.  The socket, at every     *)
(* depth of listeners that call it again: bytes in order, FIN after the    *)
(* data, and no watcher left behind.  HTTP, wherever the stream is cut:    *)
(* every request reaches its handler once, in order and whole.             *)
(***************************************************************************)
EXTENDS Socket, Http, TLAPS

-----------------------------------------------------------------------------
(* The socket *)

LEMMA ConcatFrames ==
  ASSUME NEW a \in Seq(Frames), NEW b \in Seq(Frames)
  PROVE  /\ a \o b \in Seq(Frames)
         /\ \A j \in DOMAIN (a \o b) : \/ \E i \in DOMAIN a : (a \o b)[j] = a[i]
                                      \/ \E i \in DOMAIN b : (a \o b)[j] = b[i]
<1> DEFINE c == a \o b
<1>1. c \in Seq(Frames) /\ Len(c) = Len(a) + Len(b)
  OBVIOUS
<1>2. ASSUME NEW j \in DOMAIN c
      PROVE  \/ j \in DOMAIN a /\ c[j] = a[j]
             \/ j - Len(a) \in DOMAIN b /\ c[j] = b[j - Len(a)]
  BY <1>1
<1> QED BY <1>1, <1>2

\* The stack after Then holds the new frames and those there were.
LEMMA ThenFrames ==
  ASSUME stack \in Seq(Frames), stack # << >>, NEW frames \in Seq(Frames), Then(frames)
  PROVE  /\ stack' \in Seq(Frames)
         /\ \A j \in DOMAIN stack' :
              \/ \E i \in DOMAIN stack \ {1} : stack'[j] = stack[i]
              \/ \E i \in DOMAIN frames : stack'[j] = frames[i]
<1> DEFINE rest == Tail(stack)
<1>1. rest \in Seq(Frames) /\ \A i \in DOMAIN rest : i + 1 \in DOMAIN stack /\ rest[i] = stack[i + 1]
  OBVIOUS
<1>2. \A i \in DOMAIN rest : \E k \in DOMAIN stack \ {1} : rest[i] = stack[k]
  <2>1. \A i \in DOMAIN rest : i + 1 # 1
    BY <1>1
  <2> QED BY <1>1, <2>1
<1> HIDE DEF rest
<1>3. stack' = frames \o rest \/ (frames # << >> /\ stack' = Front(frames) \o rest)
  BY DEF Then, rest
<1>4. frames # << >> =>
        /\ Front(frames) \in Seq(Frames)
        /\ \A i \in DOMAIN Front(frames) : i \in DOMAIN frames /\ Front(frames)[i] = frames[i]
  BY DEF Front
<1>5. ASSUME NEW a \in Seq(Frames), stack' = a \o rest,
             \A i \in DOMAIN a : \E k \in DOMAIN frames : a[i] = frames[k]
      PROVE  /\ stack' \in Seq(Frames)
             /\ \A j \in DOMAIN stack' :
                  \/ \E i \in DOMAIN stack \ {1} : stack'[j] = stack[i]
                  \/ \E i \in DOMAIN frames : stack'[j] = frames[i]
  <2>1. /\ stack' \in Seq(Frames)
        /\ \A j \in DOMAIN stack' : \/ \E i \in DOMAIN a : stack'[j] = a[i]
                                    \/ \E i \in DOMAIN rest : stack'[j] = rest[i]
    BY <1>1, <1>5, ConcatFrames
  <2>2. ASSUME NEW j \in DOMAIN stack'
        PROVE  \/ \E i \in DOMAIN stack \ {1} : stack'[j] = stack[i]
               \/ \E i \in DOMAIN frames : stack'[j] = frames[i]
    <3>1. ASSUME NEW i \in DOMAIN a, stack'[j] = a[i]
          PROVE  \E k \in DOMAIN frames : stack'[j] = frames[k]
      BY <1>5, <3>1
    <3>2. ASSUME NEW i \in DOMAIN rest, stack'[j] = rest[i]
          PROVE  \E k \in DOMAIN stack \ {1} : stack'[j] = stack[k]
      BY <1>2, <3>2
    <3> QED BY <2>1, <3>1, <3>2
  <2> QED BY <2>1, <2>2
<1>6. CASE stack' = frames \o rest
  BY <1>5, <1>6
<1>7. CASE frames # << >> /\ stack' = Front(frames) \o rest
  BY <1>4, <1>5, <1>7
<1> QED BY <1>3, <1>6, <1>7

\* Popping a frame brings none.
LEMMA PopFrames ==
  ASSUME stack \in Seq(Frames), stack # << >>, Then(<< >>)
  PROVE  stack' \in Seq(Frames) /\ \A what : OnStack(what)' => OnStack(what)
<1>1. << >> \in Seq(Frames) /\ DOMAIN << >> = {}
  OBVIOUS
<1>2. /\ stack' \in Seq(Frames)
      /\ \A j \in DOMAIN stack' : \E i \in DOMAIN stack : stack'[j] = stack[i]
  BY <1>1, ThenFrames
<1> QED BY <1>2 DEF OnStack

LEMMA FramesOK ==
  /\ User \in Frames
  /\ \A what \in {"user", "read", "ended", "failed", "connected", "writable", "flush",
                  "finish", "shutdown", "finished"} :
       Frame(what) \in Frames /\ Frame(what).what = what
  /\ \A k \in Nat : Finish(k) \in Frames /\ Finish(k).what = "finish"
BY DEF User, Frame, Finish, Frames

-----------------------------------------------------------------------------
\* The parts of the queue's state.
queueState == <<queue, accepted, sent>>

\* A chunk goes to the end of the queue.
LEMMA AppendHolds ==
  ASSUME NEW q \in Seq(Items), NEW s \in Nat, NEW a \in Nat, NEW n \in Nat, n > 0,
         Holds(q, s, a), NEW item \in Items, item.from = a + 1, item.to = a + n
  PROVE  Holds(Append(q, item), s, a + n)
<1> DEFINE r == Append(q, item)
<1>1. /\ r # << >> /\ Len(r) = Len(q) + 1 /\ r[Len(q) + 1] = item
      /\ \A i \in 1 .. Len(q) : r[i] = q[i] /\ q[i] \in Items
      /\ Len(q) \in Nat /\ (q = << >> <=> Len(q) = 0)
  OBVIOUS
<1> HIDE DEF r
<1>2. \A i \in 1 .. Len(r) : r[i].from <= r[i].to /\ r[i].to <= a + n
  <2>1. ASSUME NEW i \in 1 .. Len(q) PROVE r[i].from <= r[i].to /\ r[i].to <= a + n
    <3>1. q[i].to \in Nat /\ q[i].from <= q[i].to /\ q[i].to <= a /\ r[i] = q[i]
      BY <1>1 DEF Holds, Items
    <3> QED BY <3>1
  <2>2. item.from <= item.to /\ item.to <= a + n
    OBVIOUS
  <2> QED BY <1>1, <2>1, <2>2
<1>3. r[1].from = s + 1 /\ s <= a + n
  BY <1>1 DEF Holds
<1>4. \A i \in 1 .. Len(r) - 1 : r[i + 1].from = r[i].to + 1
  <2>1. ASSUME NEW i \in 1 .. Len(q) PROVE r[i + 1].from = r[i].to + 1
    <3>1. CASE i = Len(q)
      BY <1>1, <3>1 DEF Holds
    <3>2. CASE i < Len(q)
      BY <1>1, <3>2 DEF Holds
    <3> QED BY <1>1, <3>1, <3>2
  <2> QED BY <1>1, <2>1
<1> QED BY <1>1, <1>2, <1>3, <1>4 DEF Holds, r

\* The first item is sent, whole (it goes) or in part (the rest stays).
LEMMA TailHolds ==
  ASSUME NEW q \in Seq(Items), NEW s \in Nat, NEW a \in Nat, q # << >>, Holds(q, s, a)
  PROVE  Tail(q) \in Seq(Items) /\ Holds(Tail(q), q[1].to, a)
<1> DEFINE r == Tail(q)
<1>1. /\ r \in Seq(Items) /\ Len(r) = Len(q) - 1 /\ Len(q) \in Nat \ {0}
      /\ \A i \in 1 .. Len(r) : r[i] = q[i + 1]
      /\ \A i \in 1 .. Len(q) : q[i] \in Items
      /\ (r = << >> <=> Len(r) = 0)
  <2>1. Len(q) \in Nat \ {0} /\ \A i \in 1 .. Len(q) : q[i] \in Items
    OBVIOUS
  <2>2. r \in Seq(Items) /\ Len(r) = Len(q) - 1
    OBVIOUS
  <2>3. \A i \in 1 .. Len(r) : r[i] = q[i + 1]
    BY <2>2
  <2> HIDE DEF r
  <2> QED BY <2>1, <2>2, <2>3
<1> HIDE DEF r
<1>2. \A i \in 1 .. Len(r) : r[i].from <= r[i].to /\ r[i].to <= a
  BY <1>1 DEF Holds
<1>3. \A i \in 1 .. Len(r) - 1 : r[i + 1].from = r[i].to + 1
  BY <1>1 DEF Holds
<1>4. q[1].to <= a /\ (r = << >> => q[1].to = a)
  BY <1>1 DEF Holds
<1>5. r # << >> => r[1].from = q[1].to + 1 /\ r[Len(r)].to = a
  BY <1>1 DEF Holds
<1> QED BY <1>1, <1>2, <1>3, <1>4, <1>5 DEF Holds, r

LEMMA SliceHolds ==
  ASSUME NEW q \in Seq(Items), NEW s \in Nat, NEW a \in Nat, q # << >>, Holds(q, s, a),
         NEW t \in Nat, NEW item \in Items, item.from = t + 1, item.to = q[1].to,
         item.from <= item.to
  PROVE  <<item>> \o Tail(q) \in Seq(Items) /\ Holds(<<item>> \o Tail(q), t, a)
<1> DEFINE r == <<item>> \o Tail(q)
<1>1. /\ r \in Seq(Items) /\ Len(r) = Len(q) /\ r # << >> /\ Len(q) \in Nat \ {0}
      /\ r[1] = item
      /\ \A i \in 2 .. Len(q) : r[i] = q[i]
      /\ \A i \in 1 .. Len(q) : q[i] \in Items
  OBVIOUS
<1> HIDE DEF r
<1>2. \A i \in 1 .. Len(r) : r[i].from <= r[i].to /\ r[i].to <= a
  BY <1>1 DEF Holds
<1>3. \A i \in 1 .. Len(r) - 1 : r[i + 1].from = r[i].to + 1
  BY <1>1 DEF Holds
<1>4. r[1].from = t + 1 /\ r[Len(r)].to = a
  BY <1>1 DEF Holds
<1>5. t <= a
  BY <1>1 DEF Holds, Items
<1> QED BY <1>1, <1>2, <1>3, <1>4, <1>5 DEF Holds, r

LEMMA OrderWrite ==
  ASSUME OrderInv, NEW n \in WriteSizes, Write(n) PROVE OrderInv'
<1>1. n \in Nat /\ n > 0
  BY SocketAssumption
<1>2. [from |-> accepted + 1, to |-> accepted + n] \in Items
  BY <1>1 DEF OrderInv, Items
<1>3. Holds(queue', sent', accepted')
  BY <1>1, <1>2, AppendHolds DEF Write, OrderInv, SentInOrder
<1>4. queue' \in Seq(Items) /\ accepted' \in Nat /\ sent' = sent /\ tcp' = tcp
  BY <1>1, <1>2 DEF Write, OrderInv, tcpVars
<1> QED BY <1>3, <1>4 DEF OrderInv, SentInOrder

LEMMA OrderFlush ==
  ASSUME OrderInv, FlushSome
  PROVE  OrderInv' /\ sent' >= sent /\ accepted' = accepted
<1>0. SendBuffer \in Nat /\ tcp.buffered \in 0 .. SendBuffer /\ Room \in Int
  BY SocketAssumption DEF OrderInv, Tcps, Room
<1> DEFINE len == queue[1].to - queue[1].from + 1
           k == Taken(len)
           rest == Left(queue[1], k)
<1>1. /\ queue # << >> /\ sent' = sent + k /\ accepted' = accepted /\ Room > 0
      /\ IF k = len THEN queue' = Tail(queue) ELSE queue' = <<rest>> \o Tail(queue)
  BY DEF FlushSome, Writes, OrderInv
<1>2. /\ queue[1] \in Items /\ queue[1].from = sent + 1 /\ queue[1].from <= queue[1].to
      /\ queue[1].from \in Nat /\ queue[1].to \in Nat
  <2>1. queue[1] \in Items /\ 1 \in 1 .. Len(queue)
    BY <1>1 DEF OrderInv
  <2> QED BY <1>1, <2>1 DEF OrderInv, SentInOrder, Holds, Items
<1>3. len \in Nat /\ k \in Nat /\ 0 < k /\ k <= len
  BY <1>0, <1>1, <1>2 DEF Taken
<1>t. tcp' \in Tcps
  <2>1. k <= Room
    BY <1>0, <1>2 DEF Taken
  <2>2. Head(queue) = queue[1]
    BY <1>1
  <2>3. tcp' = [tcp EXCEPT !.buffered = @ + k]
    <3>1. tcp' = [tcp EXCEPT !.buffered =
                    @ + Taken(Head(queue).to - Head(queue).from + 1)]
      BY DEF FlushSome, TcpBecomes
    <3> QED BY <2>2, <3>1, Zenon
  <2> HIDE DEF k
  <2>4. tcp.buffered + k \in 0 .. SendBuffer
    BY <1>0, <1>3, <2>1 DEF Room
  <2> QED BY <2>3, <2>4 DEF OrderInv, Tcps
<1>4. sent' \in Nat /\ accepted' \in Nat /\ sent' >= sent
  BY <1>1, <1>3 DEF OrderInv
<1>5. ASSUME k = len PROVE OrderInv'
  <2>1. sent' = queue[1].to /\ queue' = Tail(queue)
    BY <1>1, <1>2, <1>5 DEF OrderInv
  <2>2. queue' \in Seq(Items) /\ Holds(queue', sent', accepted')
    BY <1>1, <2>1, TailHolds DEF OrderInv, SentInOrder
  <2> HIDE DEF k
  <2>3. SentInOrder'
    BY <2>2 DEF SentInOrder
  <2> QED BY <1>t, <1>4, <2>2, <2>3 DEF OrderInv
<1>6. ASSUME k # len PROVE OrderInv'
  <2>1. queue' = <<rest>> \o Tail(queue)
    BY <1>1, <1>6
  <2>2. rest.from = queue[1].from + k /\ rest.to = queue[1].to /\ rest \in Items
    BY <1>2, <1>3 DEF Left, Items
  <2>3. rest.from = sent' + 1 /\ rest.from <= rest.to
    BY <1>1, <1>2, <1>3, <1>6, <2>2 DEF OrderInv
  <2> HIDE DEF rest
  <2>4. queue' \in Seq(Items) /\ Holds(queue', sent', accepted')
    BY <1>1, <1>4, <2>1, <2>2, <2>3, SliceHolds DEF OrderInv, SentInOrder
  <2>5. SentInOrder'
    BY <2>4 DEF SentInOrder
  <2> QED BY <1>t, <1>4, <2>4, <2>5 DEF OrderInv
<1> QED BY <1>1, <1>4, <1>5, <1>6

\* Everything else leaves the queue alone.
LEMMA OrderElse ==
  ASSUME OrderInv, UNCHANGED queueState, tcp' \in Tcps PROVE OrderInv'
BY DEF OrderInv, SentInOrder, queueState

LEMMA TcpStepTyped ==
  ASSUME OrderInv, ConnectSettles \/ PeerTakes \/ PeerSends \/ PeerEnds \/ PeerResets
  PROVE  tcp' \in Tcps /\ tcp'.finSent = tcp.finSent
         /\ (tcp'.state = "none" => tcp.state = "none")
<1>1. SendBuffer \in Nat /\ 0 \in 0 .. SendBuffer
  BY SocketAssumption
<1>2. ASSUME ConnectSettles PROVE tcp' \in Tcps /\ tcp'.finSent = tcp.finSent
         /\ (tcp'.state = "none" => tcp.state = "none")
  <2>1. PICK outcome \in {"up", "refused"} : tcp' = [tcp EXCEPT !.state = outcome]
    BY <1>2 DEF ConnectSettles, TcpStep, TcpBecomes
  <2> QED BY <2>1 DEF OrderInv, Tcps
<1>3. ASSUME PeerTakes PROVE tcp' \in Tcps /\ tcp'.finSent = tcp.finSent
         /\ (tcp'.state = "none" => tcp.state = "none")
  <2>1. tcp' = [tcp EXCEPT !.buffered = 0]
    BY <1>3 DEF PeerTakes, TcpStep, TcpBecomes
  <2> QED BY <1>1, <2>1 DEF OrderInv, Tcps
<1>4. ASSUME PeerSends PROVE tcp' \in Tcps /\ tcp'.finSent = tcp.finSent
         /\ (tcp'.state = "none" => tcp.state = "none")
  <2>1. tcp' = [tcp EXCEPT !.inbox = @ + 1]
    BY <1>4 DEF PeerSends, TcpStep, TcpBecomes
  <2>2. tcp.inbox + 1 \in Nat
    BY DEF OrderInv, Tcps
  <2> QED BY <2>1, <2>2 DEF OrderInv, Tcps
<1>5. ASSUME PeerEnds PROVE tcp' \in Tcps /\ tcp'.finSent = tcp.finSent
         /\ (tcp'.state = "none" => tcp.state = "none")
  <2>1. tcp' = [tcp EXCEPT !.peerFin = TRUE]
    BY <1>5 DEF PeerEnds, TcpStep, TcpBecomes
  <2> QED BY <2>1 DEF OrderInv, Tcps
<1>6. ASSUME PeerResets PROVE tcp' \in Tcps /\ tcp'.finSent = tcp.finSent
         /\ (tcp'.state = "none" => tcp.state = "none")
  <2>1. tcp' = [tcp EXCEPT !.state = "reset"]
    BY <1>6 DEF PeerResets, TcpStep, TcpBecomes
  <2> QED BY <2>1 DEF OrderInv, Tcps
<1> QED BY <1>2, <1>3, <1>4, <1>5, <1>6

LEMMA ConnectTyped ==
  ASSUME OrderInv, Connect PROVE tcp' \in Tcps
BY DEF OrderInv, Tcps, Connect

LEMMA DestroysTyped ==
  ASSUME OrderInv, Destroys PROVE tcp' \in Tcps /\ tcp'.finSent = tcp.finSent
<1>1. 0 \in 0 .. SendBuffer
  BY SocketAssumption
<1>2. tcp' = [tcp EXCEPT !.state = "closed", !.buffered = 0, !.inbox = 0]
  BY DEF Destroys
<1> QED BY <1>1, <1>2 DEF OrderInv, Tcps

LEMMA OrderStep ==
  ASSUME OrderInv, [SocketNext]_sockAll PROVE OrderInv'
<1> USE DEF history, tcpVars
<1>1. ASSUME NEW n \in WriteSizes, Write(n) PROVE OrderInv'
  BY <1>1, OrderWrite
<1>2. ASSUME FlushSome PROVE OrderInv'
  BY <1>2, OrderFlush
<1>3. ASSUME Connect PROVE OrderInv'
  BY <1>3, ConnectTyped, OrderElse DEF Connect, queueState
<1>4. ASSUME ConnectSettles \/ PeerTakes \/ PeerSends \/ PeerEnds \/ PeerResets
      PROVE  OrderInv'
  BY <1>4, TcpStepTyped, OrderElse DEF ConnectSettles, PeerTakes, PeerSends, PeerEnds,
     PeerResets, TcpStep, queueState
<1>5. ASSUME Destroy \/ Closes PROVE OrderInv'
  <2>1. UNCHANGED queueState /\ (Destroys \/ tcp' = tcp)
    BY <1>5 DEF Destroy, Closes, Destroys, queueState
  <2> QED BY <2>1, DestroysTyped, OrderElse DEF OrderInv
<1>6. ASSUME Shutdown \/ ReadData PROVE OrderInv'
  <2>1. UNCHANGED queueState
    BY <1>6 DEF Shutdown, ReadData, queueState
  <2>2. ASSUME Shutdown PROVE tcp' \in Tcps
    <3>1. tcp' = tcp \/ tcp' = [tcp EXCEPT !.finSent = TRUE]
      BY <2>2 DEF Shutdown
    <3> QED BY <3>1 DEF OrderInv, Tcps
  <2>3. ASSUME ReadData PROVE tcp' \in Tcps
    <3>1. tcp' = [tcp EXCEPT !.inbox = 0]
      BY <2>3 DEF ReadData, TcpBecomes
    <3> QED BY <3>1 DEF OrderInv, Tcps
  <2> QED BY <1>6, <2>1, <2>2, <2>3, OrderElse
<1>7. ASSUME End \/ UserTimer \/ Connected \/ FlushBlocks \/ FlushFails \/ FlushDone
             \/ Writable \/ Finishes \/ ReadEnd \/ ReadFails \/ ReadReturns
             \/ UserReturns \/ CallbackReturns \/ LoopSteps
             \/ (Exited /\ UNCHANGED <<socketVars, tcpVars>>) \/ UNCHANGED sockAll
      PROVE  OrderInv'
  <2>1. UNCHANGED queueState /\ tcp' = tcp
    BY <1>7 DEF End, UserTimer, Connected, FlushBlocks, FlushFails, FlushDone, Writable,
       Finishes, ReadEnd, ReadFails, ReadReturns, UserReturns, CallbackReturns,
       LoopSteps, socketVars, sockAll, queueState
  <2> QED BY <2>1, OrderElse DEF OrderInv
<1> QED BY <1>1, <1>2, <1>3, <1>4, <1>5, <1>6, <1>7 DEF SocketNext, Library

LEMMA OrderInit == SocketInit => OrderInv
BY SocketAssumption DEF SocketInit, OrderInv, SentInOrder, Holds, Tcps, Items

LEMMA OrderAlways == SocketSpec => []OrderInv
BY OrderInit, OrderStep, PTL DEF SocketSpec

\* The kernel gets the bytes of write() once and in order, whatever the sizes of
\* chunks and buffers and however listeners call write() again.
THEOREM BytesInOrder == SocketSpec => []SentInOrder
<1>1. OrderInv => SentInOrder
  BY DEF OrderInv
<1> QED BY <1>1, OrderAlways, PTL

-----------------------------------------------------------------------------
\* The frames that the invariants below speak of.
Special == {"finish", "shutdown", "connected"}

LEMMA ThenBrings ==
  ASSUME stack \in Seq(Frames), stack # << >>, NEW frames \in Seq(Frames), Then(frames)
  PROVE  /\ stack' \in Seq(Frames)
         /\ \A what : OnStack(what)' => \/ OnStack(what)
                                        \/ \E i \in DOMAIN frames : frames[i].what = what
<1>1. /\ stack' \in Seq(Frames)
      /\ \A j \in DOMAIN stack' :
           \/ \E i \in DOMAIN stack : stack'[j] = stack[i]
           \/ \E i \in DOMAIN frames : stack'[j] = frames[i]
  BY ThenFrames
<1> QED BY <1>1 DEF OnStack

LEMMA PushBrings ==
  ASSUME stack \in Seq(Frames), NEW rest \in Seq(Frames), NEW frames \in Seq(Frames),
         rest = stack \/ (stack # << >> /\ rest = Tail(stack)),
         stack' = frames \o rest
  PROVE  /\ stack' \in Seq(Frames)
         /\ \A what : OnStack(what)' => \/ OnStack(what)
                                        \/ \E i \in DOMAIN frames : frames[i].what = what
<1>1. \A i \in DOMAIN rest : \E k \in DOMAIN stack : rest[i] = stack[k]
  <2>1. ASSUME stack # << >>, rest = Tail(stack)
        PROVE  \A i \in DOMAIN rest : i + 1 \in DOMAIN stack /\ rest[i] = stack[i + 1]
    BY <2>1
  <2> QED BY <2>1
<1>2. /\ stack' \in Seq(Frames)
      /\ \A j \in DOMAIN stack' : \/ \E i \in DOMAIN frames : stack'[j] = frames[i]
                                  \/ \E i \in DOMAIN rest : stack'[j] = rest[i]
  BY ConcatFrames
<1> QED BY <1>1, <1>2 DEF OnStack

LEMMA ThenQuiet ==
  ASSUME stack \in Seq(Frames), stack # << >>, NEW frames \in Seq(Frames), Then(frames),
         \A i \in DOMAIN frames : frames[i].what \notin Special
  PROVE  stack' \in Seq(Frames) /\ \A what \in Special : OnStack(what)' => OnStack(what)
<1>1. /\ stack' \in Seq(Frames)
      /\ \A what \in Special : OnStack(what)' => \/ OnStack(what)
                                                \/ \E i \in DOMAIN frames : frames[i].what = what
  BY ThenBrings
<1> QED BY <1>1

LEMMA PushQuiet ==
  ASSUME stack \in Seq(Frames), NEW rest \in Seq(Frames), NEW frames \in Seq(Frames),
         rest = stack \/ (stack # << >> /\ rest = Tail(stack)),
         stack' = frames \o rest,
         \A i \in DOMAIN frames : frames[i].what \notin Special
  PROVE  stack' \in Seq(Frames) /\ \A what \in Special : OnStack(what)' => OnStack(what)
<1>1. /\ stack' \in Seq(Frames)
      /\ \A what \in Special : OnStack(what)' => \/ OnStack(what)
                                                \/ \E i \in DOMAIN frames : frames[i].what = what
  BY PushBrings
<1> QED BY <1>1

\* A step that starts no finish() and no shutdown().
LEMMA FinElse ==
  ASSUME FinInv, OrderInv', UNCHANGED <<finishers, shutTimers, endedAt>>,
         stack' \in Seq(Frames), \A what \in Special : OnStack(what)' => OnStack(what),
         sent' >= sent, accepted' >= accepted, tcp'.finSent => tcp.finSent, calls' \in Nat
  PROVE  FinInv'
<1>1. sent \in Nat /\ sent' \in Nat /\ accepted \in Nat /\ accepted' \in Nat
  BY DEF FinInv, OrderInv
<1>2. Drained => Drained'
  BY <1>1 DEF Drained, FinInv, NotEnded, EndedEarly
<1>3. endedAt' <= accepted'
  BY <1>1 DEF FinInv, NotEnded, EndedEarly
<1> QED BY <1>2, <1>3 DEF FinInv, Special

\* With an empty queue everything accepted was sent.
LEMMA EmptyIsDrained ==
  ASSUME FinInv, queue = << >>, endedAt # NotEnded PROVE Drained
BY DEF FinInv, OrderInv, SentInOrder, Holds, Drained, NotEnded, EndedEarly

LEMMA FinWrite ==
  ASSUME FinInv, NEW n \in WriteSizes, Write(n) PROVE FinInv'
<1>1. OrderInv' /\ accepted' >= accepted /\ sent' = sent
  BY OrderWrite, SocketAssumption DEF FinInv, OrderInv, Write
<1>2. <<Frame("flush")>> \in Seq(Frames) /\ stack' = <<Frame("flush")>> \o stack
      /\ \A i \in DOMAIN <<Frame("flush")>> : <<Frame("flush")>>[i].what \notin Special
  BY FramesOK DEF Write, Special
<1>3. stack' \in Seq(Frames) /\ \A what \in Special : OnStack(what)' => OnStack(what)
  BY <1>2, PushQuiet DEF FinInv
<1>4. UNCHANGED <<finishers, shutTimers, endedAt>> /\ tcp' = tcp /\ sent \in Nat
      /\ calls' \in Nat
  BY DEF Write, tcpVars, FinInv, OrderInv
<1> QED BY <1>1, <1>3, <1>4, FinElse

LEMMA FinFlushSome ==
  ASSUME FinInv, FlushSome PROVE FinInv'
<1>1. OrderInv' /\ sent' >= sent /\ accepted' = accepted
  BY OrderFlush DEF FinInv
<1>2. <<User>> \in Seq(Frames)
      /\ \A i \in DOMAIN <<User>> : <<User>>[i].what \notin Special
  BY FramesOK DEF User, Frame, Special
<1>3. stack' \in Seq(Frames) /\ \A what \in Special : OnStack(what)' => OnStack(what)
  <2>1. stack' = stack \/ stack' = <<User>> \o stack
    BY DEF FlushSome
  <2>2. ASSUME stack' = stack PROVE \A what : OnStack(what)' => OnStack(what)
    BY <2>2 DEF OnStack
  <2> QED BY <1>2, <2>1, <2>2, PushQuiet DEF FinInv
<1>4. UNCHANGED <<finishers, shutTimers, endedAt>> /\ tcp'.finSent = tcp.finSent
  <2>1. UNCHANGED <<finishers, shutTimers, endedAt>>
    BY DEF FlushSome
  <2>2. \E k : tcp' = [tcp EXCEPT !.buffered = @ + k]
    BY DEF FlushSome, TcpBecomes
  <2> QED BY <2>1, <2>2 DEF FinInv, OrderInv, Tcps
<1>5. accepted \in Nat /\ calls' \in Nat
  BY DEF FinInv, OrderInv, FlushSome
<1> QED BY <1>1, <1>3, <1>4, <1>5, FinElse

\* What the step of a function that returns, calling these, leaves alone.
finState == <<calls, finishers, shutTimers, endedAt, sent, accepted>>

LEMMA FinThen ==
  ASSUME FinInv, OrderInv', NEW frames \in Seq(Frames), stack # << >>, Then(frames),
         \A i \in DOMAIN frames : frames[i].what \notin Special,
         UNCHANGED finState, tcp'.finSent = tcp.finSent
  PROVE  FinInv'
<1>1. stack' \in Seq(Frames) /\ \A what \in Special : OnStack(what)' => OnStack(what)
  BY ThenQuiet DEF FinInv
<1>2. sent' >= sent /\ accepted' >= accepted /\ calls' \in Nat
  BY DEF finState, FinInv, OrderInv
<1> QED BY <1>1, <1>2, FinElse DEF finState

\* A step after which everything that was written before end() has been sent.
LEMMA FinDrained ==
  ASSUME FinInv, Drained, OrderInv', stack' \in Seq(Frames), finishers' \in Seq(Nat),
         UNCHANGED <<calls, endedAt, sent, accepted>>
  PROVE  FinInv'
BY DEF FinInv, Drained, NotEnded, EndedEarly

LEMMA QuietFrames ==
  /\ << >> \in Seq(Frames) /\ \A i \in DOMAIN << >> : << >>[i].what \notin Special
  /\ \A what \in {"failed", "ended", "flush"} :
       /\ <<Frame(what)>> \in Seq(Frames)
       /\ \A i \in DOMAIN <<Frame(what)>> : <<Frame(what)>>[i].what \notin Special
       /\ <<User, Frame(what)>> \in Seq(Frames)
       /\ \A i \in DOMAIN <<User, Frame(what)>> : <<User, Frame(what)>>[i].what \notin Special
       /\ <<Frame(what), User>> \in Seq(Frames)
       /\ \A i \in DOMAIN <<Frame(what), User>> : <<Frame(what), User>>[i].what \notin Special
  /\ <<User>> \in Seq(Frames) /\ \A i \in DOMAIN <<User>> : <<User>>[i].what \notin Special
<1>1. << >> \in Seq(Frames) /\ DOMAIN << >> = {}
  OBVIOUS
<1>2. User \in Frames /\ User.what = "user"
  BY FramesOK DEF User, Frame
<1>3. <<User>> \in Seq(Frames) /\ \A i \in DOMAIN <<User>> : <<User>>[i].what \notin Special
  BY <1>2 DEF Special
<1>4. ASSUME NEW what \in {"failed", "ended", "flush"}
      PROVE  /\ <<Frame(what)>> \in Seq(Frames)
             /\ \A i \in DOMAIN <<Frame(what)>> : <<Frame(what)>>[i].what \notin Special
             /\ <<User, Frame(what)>> \in Seq(Frames)
             /\ \A i \in DOMAIN <<User, Frame(what)>> :
                  <<User, Frame(what)>>[i].what \notin Special
             /\ <<Frame(what), User>> \in Seq(Frames)
             /\ \A i \in DOMAIN <<Frame(what), User>> :
                  <<Frame(what), User>>[i].what \notin Special
  <2>1. Frame(what) \in Frames /\ Frame(what).what = what /\ what \notin Special
    BY FramesOK DEF Special
  <2>2. User.what \notin Special
    BY <1>2 DEF Special
  <2> QED BY <1>2, <2>1, <2>2
<1> QED BY <1>1, <1>3, <1>4

LEMMA FinReturns ==
  ASSUME FinInv, OrderInv',
         Connected \/ FlushBlocks \/ FlushFails \/ Writable \/ ReadEnd \/ ReadFails
         \/ ReadReturns \/ Closes \/ UserReturns
  PROVE  FinInv'
<1> DEFINE quiet == {<< >>, <<User>>} \cup
                    UNION {{<<Frame(what)>>, <<User, Frame(what)>>, <<Frame(what), User>>} :
                             what \in {"failed", "ended", "flush"}}
<1>1. stack # << >>
  BY DEF Connected, FlushBlocks, FlushFails, Writable, ReadEnd, ReadFails, ReadReturns,
     Closes, UserReturns, Running, Writes, Reads
<1>2. \E frames \in quiet : Then(frames)
  BY DEF Connected, FlushBlocks, FlushFails, Writable, ReadEnd, ReadFails, ReadReturns,
     Closes, UserReturns
<1>3. UNCHANGED finState
  BY DEF Connected, FlushBlocks, FlushFails, Writable, ReadEnd, ReadFails, ReadReturns,
     Closes, UserReturns, Destroys, history, finState
<1>4. tcp' = tcp \/ Destroys
  BY DEF Connected, FlushBlocks, FlushFails, Writable, ReadEnd, ReadFails, ReadReturns,
     Closes, UserReturns, tcpVars
<1>5. tcp'.finSent = tcp.finSent
  BY <1>4, DestroysTyped DEF FinInv
<1>6. ASSUME NEW frames \in quiet
      PROVE  frames \in Seq(Frames) /\ \A i \in DOMAIN frames : frames[i].what \notin Special
  BY QuietFrames
<1> QED BY <1>1, <1>2, <1>3, <1>5, <1>6, FinThen

LEMMA FinFlushDone ==
  ASSUME FinInv, OrderInv', FlushDone PROVE FinInv'
<1>1. stack # << >> /\ UNCHANGED finState /\ tcp' = tcp
  BY DEF FlushDone, Running, history, tcpVars, finState
<1>2. ASSUME queue # << >> PROVE FinInv'
  <2>1. Then(<< >>)
    BY <1>2 DEF FlushDone
  <2> QED BY <1>1, <2>1, QuietFrames, FinThen
<1>3. ASSUME queue = << >>, finishers = << >> PROVE FinInv'
  <2>1. DrainListeners = <<User>>
    BY <1>3 DEF DrainListeners
  <2>2. Then(<<User>>)
    BY <1>3, <2>1 DEF FlushDone
  <2> QED BY <1>1, <2>2, QuietFrames, FinThen
<1>4. ASSUME queue = << >>, finishers # << >> PROVE FinInv'
  <2>1. Drained
    BY <1>4, EmptyIsDrained DEF FinInv
  <2>2. DrainListeners \in Seq(Frames)
    <3>1. Len(finishers) \in Nat /\ \A i \in 1 .. Len(finishers) : finishers[i] \in Nat
      BY DEF FinInv
    <3>2. ASSUME NEW i \in 1 .. 2 * Len(finishers) + 1
          PROVE  (IF i % 2 = 1 THEN User ELSE Finish(finishers[i \div 2])) \in Frames
      <4>1. i % 2 # 1 => i \div 2 \in 1 .. Len(finishers)
        BY <3>1
      <4> QED BY <3>1, <4>1, FramesOK
    <3> QED BY <3>1, <3>2 DEF DrainListeners
  <2>3. Then(DrainListeners)
    BY <1>4 DEF FlushDone
  <2>4. stack' \in Seq(Frames)
    BY <1>1, <2>2, <2>3, ThenFrames DEF FinInv
  <2> QED BY <1>1, <2>1, <2>4, FinDrained DEF finState, FinInv
<1> QED BY <1>2, <1>3, <1>4

LEMMA FinFinishes ==
  ASSUME FinInv, OrderInv', Finishes PROVE FinInv'
<1>1. stack # << >> /\ Head(stack).what = "finish" /\ Head(stack) = stack[1]
      /\ 1 \in DOMAIN stack
  BY DEF Finishes, Running, FinInv
<1>2. Drained
  BY <1>1 DEF OnStack, FinInv
<1>3. stack' \in Seq(Frames)
  <2>1. Then(<< >>)
    BY DEF Finishes
  <2> QED BY <1>1, <2>1, PopFrames DEF FinInv
<1>4. finishers' \in Seq(Nat)
  <2>1. ASSUME NEW i \in DOMAIN finishers PROVE RemoveAt(finishers, i) \in Seq(Nat)
    BY <2>1 DEF RemoveAt, FinInv
  <2>2. finishers' = finishers \/ \E i \in DOMAIN finishers : finishers' = RemoveAt(finishers, i)
    BY DEF Finishes
  <2> QED BY <2>1, <2>2 DEF FinInv
<1> QED BY <1>2, <1>3, <1>4, FinDrained DEF Finishes, history

LEMMA FinShutdown ==
  ASSUME FinInv, OrderInv', Shutdown PROVE FinInv'
<1>1. stack # << >> /\ Head(stack).what = "shutdown" /\ Head(stack) = stack[1]
      /\ 1 \in DOMAIN stack
  BY DEF Shutdown, Running, FinInv
<1>2. Drained
  BY <1>1 DEF OnStack, FinInv
<1>3. stack' \in Seq(Frames)
  <2>1. Then(<<User, Frame("finished")>>) /\ <<User, Frame("finished")>> \in Seq(Frames)
    BY FramesOK DEF Shutdown
  <2> QED BY <1>1, <2>1, ThenFrames DEF FinInv
<1> QED BY <1>2, <1>3, FinDrained DEF Shutdown, history, FinInv

LEMMA FinEnd ==
  ASSUME FinInv, OrderInv', End PROVE FinInv'
<1>1. /\ UNCHANGED <<stack, queue, accepted, sent, tcp>>
      /\ endedAt' = IF endedAt # NotEnded THEN endedAt
                     ELSE IF sock.writable THEN accepted ELSE EndedEarly
      /\ calls' = calls + 1
      /\ \/ queue # << >> /\ finishers' = Append(finishers, calls) /\ shutTimers' = shutTimers
         \/ queue = << >> /\ finishers' = finishers
  BY DEF End, MustDrain, SetsShutdown, tcpVars
<1>2. /\ accepted \in Nat /\ sent \in Nat
      /\ endedAt \in Nat \cup {NotEnded, EndedEarly} /\ endedAt <= accepted
  BY DEF FinInv, OrderInv
<1>3. /\ endedAt' \in Nat \cup {EndedEarly} /\ endedAt' <= accepted'
      /\ (endedAt # NotEnded => endedAt' = endedAt) /\ endedAt' # NotEnded
  BY <1>1, <1>2 DEF NotEnded, EndedEarly
<1>4. Drained => Drained'
  BY <1>1, <1>2, <1>3 DEF Drained, NotEnded, EndedEarly
<1>5. queue = << >> => Drained'
  <2>1. queue = << >> => sent = accepted
    BY DEF FinInv, OrderInv, SentInOrder, Holds
  <2> QED BY <1>1, <1>2, <1>3, <2>1 DEF Drained, NotEnded, EndedEarly
<1>6. finishers' \in Seq(Nat) /\ calls' \in Nat
  BY <1>1 DEF FinInv
<1>7. \A what : OnStack(what)' <=> OnStack(what)
  BY <1>1 DEF OnStack
<1> QED BY <1>1, <1>3, <1>4, <1>5, <1>6, <1>7 DEF FinInv

LEMMA FinConnect ==
  ASSUME FinInv, OrderInv', Connect PROVE FinInv'
<1>1. /\ UNCHANGED finState /\ stack # << >>
      /\ tcp'.finSent = tcp.finSent /\ tcp'.state \in {"up", "connecting", "refused"}
  <2>1. \E outcome \in {"up", "connecting", "refused"} : tcp' = [tcp EXCEPT !.state = outcome]
    BY DEF Connect
  <2>2. tcp'.finSent = tcp.finSent /\ tcp'.state \in {"up", "connecting", "refused"}
    BY <2>1 DEF FinInv, OrderInv, Tcps
  <2> QED BY <2>2 DEF Connect, Running, history, finState
<1>2. \/ stack' = <<Frame("flush"), User>> \o Tail(stack)
      \/ stack' = stack
      \/ stack' = <<User, Frame("failed")>> \o stack
  BY <1>1 DEF Connect
<1>3. stack' \in Seq(Frames) /\ \A what \in Special : OnStack(what)' => OnStack(what)
  <2>1. ASSUME stack' = <<Frame("flush"), User>> \o Tail(stack)
        PROVE  stack' \in Seq(Frames) /\ \A what \in Special : OnStack(what)' => OnStack(what)
    <3>1. Tail(stack) \in Seq(Frames)
      BY <1>1 DEF FinInv
    <3> QED BY <1>1, <2>1, <3>1, QuietFrames, PushQuiet DEF FinInv
  <2>2. ASSUME stack' = <<User, Frame("failed")>> \o stack
        PROVE  stack' \in Seq(Frames) /\ \A what \in Special : OnStack(what)' => OnStack(what)
    BY <1>1, <2>2, QuietFrames, PushQuiet DEF FinInv
  <2>3. ASSUME stack' = stack
        PROVE  stack' \in Seq(Frames) /\ \A what \in Special : OnStack(what)' => OnStack(what)
    BY <2>3 DEF FinInv, OnStack
  <2> QED BY <1>2, <2>1, <2>2, <2>3
<1>4. sent' >= sent /\ accepted' >= accepted /\ calls' \in Nat
  BY <1>1 DEF finState, FinInv, OrderInv
<1> QED BY <1>1, <1>3, <1>4, FinElse DEF finState

LEMMA FinLoopSteps ==
  ASSUME FinInv, OrderInv', LoopSteps PROVE FinInv'
<1>1. UNCHANGED finState /\ tcp' = tcp
  BY DEF LoopSteps, tcpVars, finState
<1>2. Callback \in Frames /\ Callback.what # "finish"
      /\ (Callback.what = "shutdown" => shutTimers # {})
  BY FramesOK DEF Callback, User, Frame, Frames
<1>3. stack' \in {<< >>, <<Callback>>}
  BY DEF LoopSteps
<1>4. /\ stack' \in Seq(Frames) /\ ~OnStack("finish")'
      /\ OnStack("shutdown")' => shutTimers # {}
  <2>1. ASSUME stack' = << >> PROVE stack' \in Seq(Frames) /\ DOMAIN stack' = {}
    BY <2>1
  <2>2. ASSUME stack' = <<Callback>>
        PROVE  stack' \in Seq(Frames) /\ DOMAIN stack' = {1} /\ stack'[1] = Callback
    BY <1>2, <2>2
  <2> QED BY <1>2, <1>3, <2>1, <2>2 DEF OnStack
<1>5. Drained => Drained'
  BY <1>1 DEF Drained, finState
<1> QED BY <1>1, <1>4, <1>5 DEF FinInv, finState

\* A step that leaves the stack alone, or empties it.
LEMMA FinSame ==
  ASSUME FinInv, OrderInv', UNCHANGED finState, stack' = stack \/ stack' = << >>,
         tcp'.finSent = tcp.finSent
  PROVE  FinInv'
<1>1. stack' \in Seq(Frames) /\ \A what \in Special : OnStack(what)' => OnStack(what)
  <2>1. ASSUME stack' = << >> PROVE stack' \in Seq(Frames) /\ DOMAIN stack' = {}
    BY <2>1
  <2> QED BY <2>1 DEF FinInv, OnStack
<1>2. sent' >= sent /\ accepted' >= accepted /\ calls' \in Nat
  BY DEF finState, FinInv, OrderInv
<1> QED BY <1>1, <1>2, FinElse DEF finState

LEMMA FinStep ==
  ASSUME FinInv, [SocketNext]_sockAll PROVE FinInv'
<1>0. OrderInv'
  BY OrderStep DEF FinInv
<1>1. ASSUME NEW n \in WriteSizes, Write(n) PROVE FinInv'
  BY <1>1, FinWrite
<1>2. ASSUME FlushSome PROVE FinInv'
  BY <1>2, FinFlushSome
<1>3. ASSUME Connected \/ FlushBlocks \/ FlushFails \/ Writable \/ ReadEnd \/ ReadFails
             \/ ReadReturns \/ Closes \/ UserReturns
      PROVE  FinInv'
  BY <1>0, <1>3, FinReturns
<1>4. ASSUME FlushDone \/ Finishes \/ Shutdown \/ End \/ Connect \/ LoopSteps PROVE FinInv'
  BY <1>0, <1>4, FinFlushDone, FinFinishes, FinShutdown, FinEnd, FinConnect, FinLoopSteps
<1>5. ASSUME ReadData PROVE FinInv'
  <2>1. tcp' = [tcp EXCEPT !.inbox = 0] /\ UNCHANGED <<finState, sent, accepted>>
    BY <1>5 DEF ReadData, TcpBecomes, history, finState
  <2>2. stack' = <<User>> \o stack /\ tcp'.finSent = tcp.finSent
    BY <1>5, <2>1 DEF ReadData, FinInv, OrderInv, Tcps
  <2>3. stack' \in Seq(Frames) /\ \A what \in Special : OnStack(what)' => OnStack(what)
    BY <2>2, QuietFrames, PushQuiet DEF FinInv
  <2>4. sent' >= sent /\ accepted' >= accepted /\ calls' \in Nat
    BY <2>1 DEF finState, FinInv, OrderInv
  <2> QED BY <1>0, <2>1, <2>2, <2>3, <2>4, FinElse DEF finState
<1>6. ASSUME ConnectSettles \/ PeerTakes \/ PeerSends \/ PeerEnds \/ PeerResets
      PROVE  FinInv'
  <2>1. UNCHANGED <<finState, stack>>
    BY <1>6 DEF ConnectSettles, PeerTakes, PeerSends, PeerEnds, PeerResets, TcpStep, finState
  <2>2. tcp'.finSent = tcp.finSent
    BY <1>6, TcpStepTyped DEF FinInv
  <2> QED BY <1>0, <2>1, <2>2, FinSame
<1>7. ASSUME Destroy PROVE FinInv'
  <2>1. UNCHANGED <<finState, stack>>
    BY <1>7 DEF Destroy, Destroys, history, finState
  <2>2. tcp'.finSent = tcp.finSent
    BY <1>7, DestroysTyped DEF Destroy, FinInv
  <2> QED BY <1>0, <2>1, <2>2, FinSame
<1>8. ASSUME CallbackReturns \/ (Exited /\ UNCHANGED <<socketVars, tcpVars>>)
             \/ UNCHANGED sockAll
      PROVE  FinInv'
  <2>1. UNCHANGED finState /\ tcp' = tcp /\ (stack' = stack \/ stack' = << >>)
    BY <1>8 DEF CallbackReturns, socketVars, tcpVars, sockAll, history, finState
  <2> QED BY <1>0, <2>1, FinSame
<1>9. ASSUME UserTimer PROVE FinInv'
  <2>1. /\ UNCHANGED <<stack, finishers, shutTimers, endedAt, sent, accepted, tcp>>
        /\ calls' = calls + 1
    BY <1>9 DEF UserTimer, history, tcpVars
  <2>2. stack' \in Seq(Frames) /\ \A what : OnStack(what)' <=> OnStack(what)
    BY <2>1 DEF FinInv, OnStack
  <2>3. sent' >= sent /\ accepted' >= accepted /\ calls' \in Nat
    BY <2>1 DEF FinInv, OrderInv
  <2> QED BY <1>0, <2>1, <2>2, <2>3, FinElse
<1> QED BY <1>1, <1>2, <1>3, <1>4, <1>5, <1>6, <1>7, <1>8, <1>9 DEF SocketNext, Library

LEMMA FinInit == SocketInit => FinInv
<1> SUFFICES ASSUME SocketInit PROVE FinInv
  OBVIOUS
<1>1. stack \in Seq(Frames) /\ ~OnStack("finish") /\ ~OnStack("shutdown")
  BY FramesOK DEF SocketInit, OnStack, User, Frame
<1>2. OrderInv
  BY OrderInit
<1>3. finishers = << >> /\ calls = 0 /\ accepted = 0 /\ endedAt = NotEnded
      /\ shutTimers = {} /\ ~tcp.finSent
  BY DEF SocketInit
<1> QED BY <1>1, <1>2, <1>3 DEF FinInv, NotEnded, EndedEarly

\* Whatever writes, buffers, listeners and further calls come in between, the FIN of
\* end() never leaves before what was written before end().
THEOREM FinComesLast == SocketSpec => []FinAfterData
<1>1. FinInv => FinAfterData
  BY DEF FinInv, FinAfterData, Drained, NotEnded, EndedEarly
<1> QED BY <1>1, FinInit, FinStep, PTL DEF SocketSpec

-----------------------------------------------------------------------------
(* The watchers. *)

\* What is watched anew: nothing, or the descriptor for one event.
Masks == {{}, {{"r"}}, {{"w"}}}

\* The ids that Rewatches gives out.
NewIds(masks) == {nextWatcherId : m \in masks}

LEMMA RewatchesAlive ==
  ASSUME watchers \subseteq Watcher, nextWatcherId \in Nat \ {0},
         NEW ids, NEW fd, NEW masks \in Masks,
         masks # {} => fd \in Fds, Rewatches(ids, fd, masks)
  PROVE  /\ watchers' \subseteq Watcher
         /\ nextWatcherId' \in Nat \ {0} /\ nextWatcherId' >= nextWatcherId
         /\ masks # {} => nextWatcherId' > nextWatcherId
         /\ AliveIds' = (AliveIds \ ids) \cup NewIds(masks)
         /\ watcherCbs' = (watcherCbs \ ids) \cup NewIds(masks)
         /\ \A w \in Alive(watchers)' : w.fd = fd \/ w \in Alive(watchers)
<1> DEFINE dead(w) == IF w.id \in ids THEN [w EXCEPT !.alive = FALSE] ELSE w
           new == {[id |-> nextWatcherId, fd |-> fd, events |-> m, alive |-> TRUE] : m \in masks}
<1>1. watchers' = {dead(w) : w \in watchers} \cup new
  BY DEF Rewatches
<1>2. \A w \in watchers :
        /\ dead(w) \in Watcher /\ dead(w).id = w.id
        /\ dead(w).alive <=> w.alive /\ w.id \notin ids
        /\ w.id \notin ids => dead(w) = w
  BY DEF Watcher
<1>3. \A w \in new : w \in Watcher /\ w.id = nextWatcherId /\ w.alive /\ w.fd = fd
  <2>1. ASSUME NEW m \in masks
        PROVE  [id |-> nextWatcherId, fd |-> fd, events |-> m, alive |-> TRUE] \in Watcher
    <3>1. m \in SUBSET Events /\ fd \in Fds
      BY DEF Events, Masks
    <3> QED BY <3>1 DEF Watcher
  <2> QED BY <2>1
<1>4. masks # {} => \E w \in new : w.id = nextWatcherId /\ w.alive
  <2>1. ASSUME NEW m \in masks PROVE \E w \in new : w.id = nextWatcherId /\ w.alive
    <3>1. [id |-> nextWatcherId, fd |-> fd, events |-> m, alive |-> TRUE] \in new
      OBVIOUS
    <3> QED BY <1>3, <3>1
  <2> QED BY <2>1
<1>5. masks = {} => new = {}
  OBVIOUS
<1> HIDE DEF dead, new
<1>6. watchers' \subseteq Watcher
  BY <1>1, <1>2, <1>3
<1>7. AliveIds' = (AliveIds \ ids) \cup NewIds(masks)
  <2>1. ASSUME NEW id \in AliveIds'
        PROVE  id \in (AliveIds \ ids) \cup NewIds(masks)
    BY <1>1, <1>2, <1>3, <1>5 DEF AliveIds, Alive, NewIds
  <2>2. ASSUME NEW id \in AliveIds \ ids PROVE id \in AliveIds'
    BY <1>1, <1>2 DEF AliveIds, Alive
  <2>3. ASSUME NEW id \in NewIds(masks) PROVE id \in AliveIds'
    BY <1>1, <1>4 DEF AliveIds, Alive, NewIds
  <2> QED BY <2>1, <2>2, <2>3
<1>8. \A w \in Alive(watchers)' : w.fd = fd \/ w \in Alive(watchers)
  BY <1>1, <1>2, <1>3 DEF Alive
<1> QED BY <1>6, <1>7, <1>8 DEF Rewatches, NewIds

\* The watcher of connect() runs before any other code of the socket.
LEMMA NotConnected ==
  ASSUME WatchInv, stack # << >>, Head(stack).what # "connected"
  PROVE  ~OnStack("connected")
BY DEF WatchInv, Frame

\* A step that leaves the watchers alone.
LEMMA WatchElse ==
  ASSUME WatchInv, UNCHANGED <<Watching, open>>,
         sock' = sock \/ sock' = [sock EXCEPT !.writable = FALSE],
         tcp'.state = "none" => tcp.state = "none",
         stack' \in Seq(Frames),
         OnStack("connected")' => OnStack("connected") /\ stack' = stack
  PROVE  WatchInv'
<1>1. /\ sock' \in Socks
      /\ sock'.fd = sock.fd /\ sock'.readWatch = sock.readWatch
      /\ sock'.writeWatch = sock.writeWatch /\ sock'.connecting = sock.connecting
      /\ sock'.destroyed = sock.destroyed
      /\ sock'.writable => sock.writable
  BY DEF WatchInv, Socks
<1>2. UNCHANGED <<watchers, watcherCbs, nextWatcherId, open, AliveIds>>
      /\ Alive(watchers)' = Alive(watchers)
  BY DEF Watching, AliveIds, Alive
<1> QED BY <1>1, <1>2 DEF WatchInv

\* A step that changes them: what it leaves alive is what the socket knows.
LEMMA WatchChange ==
  ASSUME WatchInv, NEW ids, NEW fd, NEW masks \in Masks,
         masks # {} => fd \in Fds, Rewatches(ids, fd, masks),
         sock' \in Socks, open' = {sock'.fd} \ {NoFd},
         \/ sock'.fd = fd /\ sock.fd \in {NoFd, fd}
         \/ sock'.fd = NoFd,
         {sock'.readWatch, sock'.writeWatch} \ {NoWatch}
           = (AliveIds \ ids) \cup NewIds(masks),
         sock'.readWatch < nextWatcherId', sock'.writeWatch < nextWatcherId',
         sock'.readWatch = sock'.writeWatch => sock'.readWatch = NoWatch,
         sock'.fd = NoFd => /\ ~sock'.writable
                            /\ sock'.readWatch = NoWatch /\ sock'.writeWatch = NoWatch,
         sock'.destroyed => sock'.fd = NoFd,
         tcp'.state = "none" => sock'.fd = NoFd,
         sock'.connecting => sock'.readWatch = NoWatch,
         stack' \in Seq(Frames), ~OnStack("connected")'
  PROVE  WatchInv'
<1>1. /\ watchers \subseteq Watcher /\ nextWatcherId \in Nat \ {0} /\ watcherCbs = AliveIds
      /\ sock.fd = NoFd => Alive(watchers) = {}
      /\ \A w \in Alive(watchers) : w.fd = sock.fd
  BY DEF WatchInv
<1>2. /\ watchers' \subseteq Watcher /\ nextWatcherId' \in Nat \ {0}
      /\ AliveIds' = (AliveIds \ ids) \cup NewIds(masks)
      /\ watcherCbs' = (watcherCbs \ ids) \cup NewIds(masks)
      /\ \A w \in Alive(watchers)' : w.fd = fd \/ w \in Alive(watchers)
  BY <1>1, RewatchesAlive
<1>3. AliveIds' = {sock'.readWatch, sock'.writeWatch} \ {NoWatch}
  BY <1>2
<1>4. sock'.fd = NoFd => AliveIds' = {} /\ Alive(watchers)' = {}
  <2>1. sock'.fd = NoFd => AliveIds' = {}
    BY <1>3
  <2>2. \A w \in Alive(watchers)' : w.id \in AliveIds'
    BY DEF AliveIds
  <2> QED BY <2>1, <2>2
<1>5. \A w \in Alive(watchers)' : w.fd = sock'.fd
  BY <1>1, <1>2, <1>4
<1> QED BY <1>1, <1>2, <1>3, <1>4, <1>5 DEF WatchInv

LEMMA NoneConnected ==
  ASSUME WatchInv, stack # << >>, Head(stack).what # "connected",
         NEW frames \in Seq(Frames), \A i \in DOMAIN frames : frames[i].what # "connected",
         Then(frames)
  PROVE  stack' \in Seq(Frames) /\ ~OnStack("connected")'
<1>1. stack \in Seq(Frames) /\ ~OnStack("connected")
  BY NotConnected DEF WatchInv
<1> QED BY <1>1, ThenBrings

LEMMA NoneConnectedPushed ==
  ASSUME WatchInv, stack # << >>, Head(stack).what # "connected",
         NEW frames \in Seq(Frames), \A i \in DOMAIN frames : frames[i].what # "connected",
         stack' = frames \o stack \/ stack' = frames \o Tail(stack)
  PROVE  stack' \in Seq(Frames) /\ ~OnStack("connected")'
<1>1. stack \in Seq(Frames) /\ Tail(stack) \in Seq(Frames) /\ ~OnStack("connected")
  BY NotConnected DEF WatchInv
<1>2. CASE stack' = frames \o stack
  BY <1>1, <1>2, PushBrings
<1>3. CASE stack' = frames \o Tail(stack)
  BY <1>1, <1>3, PushBrings
<1> QED BY <1>2, <1>3

LEMMA PlainFrames ==
  /\ << >> \in Seq(Frames) /\ \A i \in DOMAIN << >> : << >>[i].what # "connected"
  /\ <<User>> \in Seq(Frames) /\ \A i \in DOMAIN <<User>> : <<User>>[i].what # "connected"
  /\ \A what \in {"failed", "ended", "flush", "finished"} :
       /\ <<Frame(what)>> \in Seq(Frames)
       /\ \A i \in DOMAIN <<Frame(what)>> : <<Frame(what)>>[i].what # "connected"
       /\ <<User, Frame(what)>> \in Seq(Frames)
       /\ \A i \in DOMAIN <<User, Frame(what)>> : <<User, Frame(what)>>[i].what # "connected"
       /\ <<Frame(what), User>> \in Seq(Frames)
       /\ \A i \in DOMAIN <<Frame(what), User>> : <<Frame(what), User>>[i].what # "connected"
<1>1. << >> \in Seq(Frames) /\ DOMAIN << >> = {}
  OBVIOUS
<1>2. User \in Frames /\ User.what # "connected"
  BY FramesOK DEF User, Frame
<1>3. ASSUME NEW what \in {"failed", "ended", "flush", "finished"}
      PROVE  Frame(what) \in Frames /\ Frame(what).what # "connected"
  BY FramesOK
<1>4. ASSUME NEW f \in Frames, NEW g \in Frames,
             f.what # "connected", g.what # "connected"
      PROVE  /\ <<f>> \in Seq(Frames) /\ \A i \in DOMAIN <<f>> : <<f>>[i].what # "connected"
             /\ <<f, g>> \in Seq(Frames)
             /\ \A i \in DOMAIN <<f, g>> : <<f, g>>[i].what # "connected"
  BY <1>4
<1> QED BY <1>1, <1>2, <1>3, <1>4

\* Functions that push frames or return, without touching a watcher.
LEMMA WatchPushes ==
  ASSUME WatchInv, FinInv, FinInv',
         (\E n \in WriteSizes : Write(n)) \/ FlushSome \/ ReadData
  PROVE  WatchInv'
<1>1. stack # << >> /\ Head(stack).what # "connected"
  BY DEF Write, FlushSome, ReadData, Running, Writes, Reads
<1>2. stack' = stack \/ stack' = <<User>> \o stack \/ stack' = <<Frame("flush")>> \o stack
  BY DEF Write, FlushSome, ReadData
<1>3. stack' \in Seq(Frames) /\ ~OnStack("connected")'
  <2>1. CASE stack' = stack
    BY <1>1, <2>1, NotConnected DEF WatchInv, OnStack
  <2>2. CASE stack' = <<User>> \o stack
    BY <1>1, <2>2, PlainFrames, NoneConnectedPushed
  <2>3. CASE stack' = <<Frame("flush")>> \o stack
    BY <1>1, <2>3, PlainFrames, NoneConnectedPushed
  <2> QED BY <1>2, <2>1, <2>2, <2>3
<1>4. UNCHANGED <<Watching, open>> /\ sock' = sock
  BY DEF Write, FlushSome, ReadData, vars, loopVars, native, tables, descriptors, Watching
<1>5. tcp'.state = tcp.state
  <2>1. \/ tcp' = tcp
        \/ tcp' = [tcp EXCEPT !.inbox = 0]
        \/ \E k : tcp' = [tcp EXCEPT !.buffered = @ + k]
    BY DEF Write, FlushSome, ReadData, TcpBecomes, tcpVars
  <2> QED BY <2>1 DEF FinInv, OrderInv, Tcps
<1> QED BY <1>3, <1>4, <1>5, WatchElse

LEMMA DrainPlain ==
  ASSUME FinInv
  PROVE  /\ DrainListeners \in Seq(Frames)
         /\ \A i \in DOMAIN DrainListeners : DrainListeners[i].what # "connected"
<1>1. Len(finishers) \in Nat /\ \A i \in 1 .. Len(finishers) : finishers[i] \in Nat
  BY DEF FinInv
<1>2. ASSUME NEW i \in 1 .. 2 * Len(finishers) + 1
      PROVE  LET f == IF i % 2 = 1 THEN User ELSE Finish(finishers[i \div 2])
             IN f \in Frames /\ f.what # "connected"
  <2>1. i % 2 # 1 => i \div 2 \in 1 .. Len(finishers)
    BY <1>1
  <2> QED BY <1>1, <2>1, FramesOK DEF User, Frame
<1> QED BY <1>1, <1>2 DEF DrainListeners

LEMMA WatchReturns ==
  ASSUME WatchInv, FinInv, FinInv',
         FlushFails \/ FlushDone \/ Finishes \/ Shutdown \/ ReadFails \/ ReadReturns
         \/ UserReturns
  PROVE  WatchInv'
<1>1. stack # << >> /\ Head(stack).what # "connected"
  BY DEF FlushFails, FlushDone, Finishes, Shutdown, ReadFails, ReadReturns, UserReturns,
     Running, Writes, Reads
<1>2. \/ Then(<< >>) \/ Then(<<User, Frame("failed")>>) \/ Then(<<User, Frame("finished")>>)
      \/ Then(DrainListeners)
  BY DEF FlushFails, FlushDone, Finishes, Shutdown, ReadFails, ReadReturns, UserReturns
<1>3. stack' \in Seq(Frames) /\ ~OnStack("connected")'
  <2>1. CASE Then(<< >>)
    BY <1>1, <2>1, PlainFrames, NoneConnected
  <2>2. CASE Then(<<User, Frame("failed")>>)
    BY <1>1, <2>2, PlainFrames, NoneConnected
  <2>3. CASE Then(<<User, Frame("finished")>>)
    BY <1>1, <2>3, PlainFrames, NoneConnected
  <2>4. CASE Then(DrainListeners)
    BY <1>1, <2>4, DrainPlain, NoneConnected
  <2> QED BY <1>2, <2>1, <2>2, <2>3, <2>4
<1>4. UNCHANGED <<Watching, open>>
      /\ (sock' = sock \/ sock' = [sock EXCEPT !.writable = FALSE])
  BY DEF FlushFails, FlushDone, Finishes, Shutdown, ReadFails, ReadReturns, UserReturns,
     SetsShutdown, vars, loopVars, native, tables, descriptors, Watching
<1>5. tcp'.state = tcp.state
  <2>1. tcp' = tcp \/ tcp' = [tcp EXCEPT !.finSent = TRUE]
    BY DEF FlushFails, FlushDone, Finishes, Shutdown, ReadFails, ReadReturns, UserReturns,
       tcpVars
  <2> QED BY <2>1 DEF FinInv, OrderInv, Tcps
<1> QED BY <1>3, <1>4, <1>5, WatchElse

LEMMA WatchDestroys ==
  ASSUME WatchInv, FinInv, Destroys, stack' \in Seq(Frames), ~OnStack("connected")'
  PROVE  WatchInv'
<1>1. /\ sock \in Socks /\ nextWatcherId \in Nat \ {0}
      /\ AliveIds = {sock.readWatch, sock.writeWatch} \ {NoWatch}
      /\ open = {sock.fd} \ {NoFd}
  BY DEF WatchInv
<1>2. /\ sock' \in Socks /\ sock'.fd = NoFd /\ ~sock'.writable /\ sock'.destroyed
      /\ sock'.readWatch = NoWatch /\ sock'.writeWatch = NoWatch
  BY <1>1 DEF Destroys, Socks, NoWatch
<1>3. Rewatches(WatchesOf, sock.fd, {}) /\ {} \in Masks
  BY DEF Destroys, Masks
<1>4. AliveIds \ WatchesOf = {} /\ NewIds({}) = {}
  BY <1>1 DEF WatchesOf, NewIds
<1>5. nextWatcherId' = nextWatcherId
  BY <1>3 DEF Rewatches
<1>6. open' = {}
  BY <1>1 DEF Destroys
<1>7. 0 < nextWatcherId
  BY <1>1
<1> QED BY <1>2, <1>3, <1>4, <1>5, <1>6, <1>7, WatchChange DEF NoWatch

LEMMA WatchConnect ==
  ASSUME WatchInv, FinInv, Connect PROVE WatchInv'
<1>0. /\ sock \in Socks /\ nextWatcherId \in Nat \ {0} /\ sock.fd = NoFd
      /\ sock.readWatch = NoWatch /\ sock.writeWatch = NoWatch /\ ~sock.writable
      /\ AliveIds = {} /\ open = {} /\ ~sock.destroyed
      /\ stack # << >> /\ Head(stack).what # "connected"
  BY DEF WatchInv, Connect, Running
<1>1. PICK fd \in Fds \ open, outcome \in {"up", "connecting", "refused"} :
        /\ open' = open \cup {fd}
        /\ tcp' = [tcp EXCEPT !.state = outcome]
        /\ CASE tcp'.state = "up" ->
                  /\ sock' = [OnConnected EXCEPT !.fd = fd]
                  /\ Rewatches({}, fd, {{"r"}})
                  /\ stack' = <<Frame("flush"), User>> \o Tail(stack)
             [] tcp'.state = "connecting" ->
                  /\ sock' = [sock EXCEPT !.fd = fd, !.connecting = TRUE,
                                          !.writeWatch = nextWatcherId]
                  /\ Rewatches({}, fd, {{"w"}})
                  /\ UNCHANGED stack
             [] tcp'.state = "refused" ->
                  /\ sock' = [sock EXCEPT !.fd = fd, !.connecting = TRUE]
                  /\ stack' = <<User, Frame("failed")>> \o stack
                  /\ UNCHANGED Watching
  BY DEF Connect
<1>2. tcp'.state = outcome /\ tcp'.state # "none" /\ fd # NoFd /\ open' = {fd} \ {NoFd}
  <2>1. tcp'.state = outcome
    BY <1>1 DEF FinInv, OrderInv, Tcps
  <2>2. fd # NoFd
    BY LoopAssumption DEF NoFd
  <2>3. open' = {fd} \ {NoFd}
    BY <1>0, <1>1, <2>2
  <2> QED
    BY <2>1, <2>2, <2>3
<1>3. {{"r"}} \in Masks /\ {{"w"}} \in Masks /\ NewIds({{"r"}}) = {nextWatcherId}
      /\ NewIds({{"w"}}) = {nextWatcherId}
  BY DEF Masks, NewIds
<1>4. CASE outcome = "up"
  <2>1. /\ sock' = [OnConnected EXCEPT !.fd = fd] /\ Rewatches({}, fd, {{"r"}})
        /\ stack' = <<Frame("flush"), User>> \o Tail(stack)
    BY <1>1, <1>2, <1>4
  <2>2. stack' \in Seq(Frames) /\ ~OnStack("connected")'
    BY <1>0, <2>1, PlainFrames, NoneConnectedPushed
  <2>3. /\ sock' \in Socks /\ sock'.fd = fd /\ sock'.readWatch = nextWatcherId
        /\ sock'.writeWatch = NoWatch /\ ~sock'.connecting /\ ~sock'.destroyed
    BY <1>0, <2>1 DEF OnConnected, Socks, NoWatch
  <2>4. nextWatcherId' = nextWatcherId + 1
    BY <2>1 DEF Rewatches
  <2>5. sock'.readWatch < nextWatcherId' /\ sock'.writeWatch < nextWatcherId'
        /\ sock'.readWatch # sock'.writeWatch
        /\ {sock'.readWatch, sock'.writeWatch} \ {NoWatch} = (AliveIds \ {}) \cup {nextWatcherId}
    BY <1>0, <2>3, <2>4 DEF NoWatch
  <2> QED BY <1>0, <1>2, <1>3, <2>1, <2>2, <2>3, <2>5, WatchChange
<1>5. CASE outcome = "connecting"
  <2>1. /\ sock' = [sock EXCEPT !.fd = fd, !.connecting = TRUE, !.writeWatch = nextWatcherId]
        /\ Rewatches({}, fd, {{"w"}}) /\ stack' = stack
    BY <1>1, <1>2, <1>5
  <2>2. stack' \in Seq(Frames) /\ ~OnStack("connected")'
    BY <1>0, <2>1, NotConnected DEF WatchInv, OnStack
  <2>3. /\ sock' \in Socks /\ sock'.fd = fd /\ sock'.writeWatch = nextWatcherId
        /\ sock'.readWatch = NoWatch /\ ~sock'.destroyed
    BY <1>0, <2>1 DEF Socks
  <2>4. nextWatcherId' = nextWatcherId + 1
    BY <2>1 DEF Rewatches
  <2>5. sock'.readWatch < nextWatcherId' /\ sock'.writeWatch < nextWatcherId'
        /\ sock'.readWatch # sock'.writeWatch
        /\ {sock'.readWatch, sock'.writeWatch} \ {NoWatch} = (AliveIds \ {}) \cup {nextWatcherId}
    BY <1>0, <2>3, <2>4 DEF NoWatch
  <2> QED BY <1>0, <1>2, <1>3, <2>1, <2>2, <2>3, <2>5, WatchChange
<1>6. CASE outcome = "refused"
  <2>1. /\ sock' = [sock EXCEPT !.fd = fd, !.connecting = TRUE]
        /\ stack' = <<User, Frame("failed")>> \o stack /\ UNCHANGED Watching
    BY <1>1, <1>2, <1>6
  <2>2. stack' \in Seq(Frames) /\ ~OnStack("connected")'
    BY <1>0, <2>1, PlainFrames, NoneConnectedPushed
  <2>3. /\ sock' \in Socks /\ sock'.fd = fd /\ sock'.readWatch = NoWatch
        /\ sock'.writeWatch = NoWatch /\ ~sock'.destroyed
    BY <1>0, <2>1 DEF Socks
  <2>4. UNCHANGED <<watchers, watcherCbs, nextWatcherId>> /\ AliveIds' = AliveIds
        /\ Alive(watchers)' = Alive(watchers)
    BY <2>1 DEF Watching, AliveIds, Alive
  <2>5. Alive(watchers) = {} /\ watchers \subseteq Watcher /\ watcherCbs = AliveIds
    BY <1>0 DEF WatchInv
  <2> QED BY <1>0, <1>2, <2>2, <2>3, <2>4, <2>5 DEF WatchInv, NoWatch
<1> QED BY <1>1, <1>4, <1>5, <1>6

LEMMA WatchConnected ==
  ASSUME WatchInv, FinInv, Connected PROVE WatchInv'
<1>0. /\ sock \in Socks /\ nextWatcherId \in Nat \ {0}
      /\ AliveIds = {sock.readWatch, sock.writeWatch} \ {NoWatch}
      /\ sock.fd = NoFd => sock.readWatch = NoWatch
      /\ sock.destroyed => sock.fd = NoFd
      /\ tcp.state = "none" => sock.fd = NoFd
      /\ open = {sock.fd} \ {NoFd}
  BY DEF WatchInv
<1>1. stack = <<Frame("connected")>> /\ sock.connecting /\ sock.fd # NoFd
  <2>1. stack # << >> /\ stack[1].what = "connected" /\ 1 \in DOMAIN stack
    BY DEF Connected, Running, WatchInv
  <2> QED BY <2>1 DEF WatchInv, OnStack
<1>2. sock.readWatch = NoWatch /\ ~sock.destroyed /\ tcp.state # "none" /\ tcp' = tcp
      /\ open' = open /\ sock.fd \in Fds
  BY <1>0, <1>1 DEF WatchInv, Connected, descriptors, tcpVars, Socks
<1>3. stack' \in Seq(Frames) /\ ~OnStack("connected")'
  <2>1. \/ Then(<<Frame("flush"), User>>) \/ Then(<<User, Frame("failed")>>)
    BY DEF Connected
  <2>2. ASSUME NEW frames \in Seq(Frames),
               \A i \in DOMAIN frames : frames[i].what # "connected", Then(frames)
        PROVE  stack' \in Seq(Frames) /\ ~OnStack("connected")'
    <3>1. /\ stack' \in Seq(Frames)
          /\ \A j \in DOMAIN stack' :
               \/ \E i \in DOMAIN stack \ {1} : stack'[j] = stack[i]
               \/ \E i \in DOMAIN frames : stack'[j] = frames[i]
      BY <1>1, <2>2, ThenFrames DEF WatchInv
    <3>2. DOMAIN stack \ {1} = {}
      BY <1>1
    <3> QED BY <2>2, <3>1, <3>2 DEF OnStack
  <2> QED BY <2>1, <2>2, PlainFrames
<1>4. {} \in Masks /\ {{"r"}} \in Masks /\ NewIds({{"r"}}) = {nextWatcherId} /\ NewIds({}) = {}
  BY DEF Masks, NewIds
<1>5. CASE tcp.state = "up"
  <2>1. sock' = OnConnected /\ Rewatches({sock.writeWatch}, sock.fd, {{"r"}})
    BY <1>5 DEF Connected
  <2>2. /\ sock' \in Socks /\ sock'.fd = sock.fd /\ sock'.readWatch = nextWatcherId
        /\ sock'.writeWatch = NoWatch /\ ~sock'.connecting /\ ~sock'.destroyed
    BY <1>0, <1>2, <2>1 DEF OnConnected, Socks, NoWatch
  <2>3. nextWatcherId' = nextWatcherId + 1
    BY <2>1 DEF Rewatches
  <2>4. sock'.readWatch < nextWatcherId' /\ sock'.writeWatch < nextWatcherId'
        /\ sock'.readWatch # sock'.writeWatch
        /\ {sock'.readWatch, sock'.writeWatch} \ {NoWatch}
             = (AliveIds \ {sock.writeWatch}) \cup {nextWatcherId}
    BY <1>0, <1>2, <2>2, <2>3 DEF NoWatch
  <2> QED BY <1>0, <1>1, <1>2, <1>3, <1>4, <2>1, <2>2, <2>4, WatchChange
<1>6. CASE tcp.state # "up"
  <2>1. sock' = [sock EXCEPT !.writeWatch = NoWatch]
        /\ Rewatches({sock.writeWatch}, sock.fd, {})
    BY <1>6 DEF Connected
  <2>2. /\ sock' \in Socks /\ sock'.fd = sock.fd /\ sock'.readWatch = NoWatch
        /\ sock'.writeWatch = NoWatch /\ ~sock'.destroyed
    BY <1>0, <1>2, <2>1 DEF Socks, NoWatch
  <2>3. nextWatcherId' = nextWatcherId
    BY <2>1 DEF Rewatches
  <2>4. sock'.readWatch < nextWatcherId' /\ sock'.writeWatch < nextWatcherId'
        /\ {sock'.readWatch, sock'.writeWatch} \ {NoWatch} = (AliveIds \ {sock.writeWatch}) \cup {}
    BY <1>0, <1>2, <2>2, <2>3 DEF NoWatch
  <2> QED BY <1>0, <1>1, <1>2, <1>3, <1>4, <2>1, <2>2, <2>4, WatchChange
<1> QED BY <1>5, <1>6

LEMMA WatchBlocks ==
  ASSUME WatchInv, FinInv, FinInv', FlushBlocks PROVE WatchInv'
<1>0. /\ sock \in Socks /\ nextWatcherId \in Nat \ {0}
      /\ AliveIds = {sock.readWatch, sock.writeWatch} \ {NoWatch}
      /\ sock.readWatch < nextWatcherId /\ sock.readWatch \in Nat
      /\ sock.fd # NoFd /\ sock.fd \in Fds /\ ~sock.destroyed
      /\ tcp.state # "none" /\ open = {sock.fd} \ {NoFd}
      /\ sock.connecting => sock.readWatch = NoWatch
  BY DEF WatchInv, FlushBlocks, Writes, Socks
<1>1. stack' \in Seq(Frames) /\ ~OnStack("connected")' /\ tcp' = tcp /\ open' = open
  <2>1. stack # << >> /\ Head(stack).what # "connected" /\ Then(<< >>)
    BY DEF FlushBlocks, Writes, Running
  <2> QED BY <2>1, PlainFrames, NoneConnected DEF FlushBlocks, descriptors, tcpVars
<1>2. CASE NeedsWatch
  <2>1. /\ sock' = [sock EXCEPT !.writeWatch = nextWatcherId]
        /\ Rewatches({}, sock.fd, {{"w"}}) /\ sock.writeWatch = NoWatch
    BY <1>2 DEF FlushBlocks, NeedsWatch
  <2>2. /\ sock' \in Socks /\ sock'.fd = sock.fd /\ sock'.writeWatch = nextWatcherId
        /\ sock'.readWatch = sock.readWatch /\ ~sock'.destroyed
        /\ sock'.connecting = sock.connecting
    BY <1>0, <2>1 DEF Socks
  <2>3. nextWatcherId' = nextWatcherId + 1
    BY <2>1 DEF Rewatches
  <2>4. {{"w"}} \in Masks /\ NewIds({{"w"}}) = {nextWatcherId}
    BY DEF Masks, NewIds
  <2>5. sock'.readWatch < nextWatcherId' /\ sock'.writeWatch < nextWatcherId'
        /\ sock'.readWatch # sock'.writeWatch
        /\ {sock'.readWatch, sock'.writeWatch} \ {NoWatch} = (AliveIds \ {}) \cup {nextWatcherId}
    BY <1>0, <2>1, <2>2, <2>3 DEF NoWatch
  <2> QED BY <1>0, <1>1, <2>1, <2>2, <2>4, <2>5, WatchChange
<1>3. CASE ~NeedsWatch
  BY <1>1, <1>3, WatchElse DEF FlushBlocks
<1> QED BY <1>2, <1>3

\* The read watcher at the peer's end, the write watcher when it has fired.
LEMMA WatchUnwatches ==
  ASSUME WatchInv, FinInv, Writable \/ ReadEnd PROVE WatchInv'
<1>0. /\ sock \in Socks /\ nextWatcherId \in Nat \ {0}
      /\ AliveIds = {sock.readWatch, sock.writeWatch} \ {NoWatch}
      /\ sock.readWatch < nextWatcherId /\ sock.writeWatch < nextWatcherId
      /\ sock.readWatch = sock.writeWatch => sock.readWatch = NoWatch
      /\ sock.readWatch \in Nat /\ sock.writeWatch \in Nat
      /\ open = {sock.fd} \ {NoFd}
      /\ sock.fd = NoFd => /\ ~sock.writable
                           /\ sock.readWatch = NoWatch /\ sock.writeWatch = NoWatch
      /\ sock.destroyed => sock.fd = NoFd
      /\ tcp.state = "none" => sock.fd = NoFd
      /\ sock.connecting => sock.readWatch = NoWatch
  BY DEF WatchInv, Socks
<1>1. tcp' = tcp /\ open' = open
  BY DEF Writable, ReadEnd, descriptors, tcpVars
<1>2. stack' \in Seq(Frames) /\ ~OnStack("connected")'
  <2>1. /\ stack # << >> /\ Head(stack).what # "connected"
        /\ Then(<<Frame("flush")>>) \/ Then(<<User, Frame("ended")>>)
    BY DEF Writable, ReadEnd, Reads, Running
  <2>2. CASE Then(<<Frame("flush")>>)
    BY <2>1, <2>2, PlainFrames, NoneConnected
  <2>3. CASE Then(<<User, Frame("ended")>>)
    BY <2>1, <2>3, PlainFrames, NoneConnected
  <2> QED BY <2>1, <2>2, <2>3
<1>3. {} \in Masks /\ NewIds({}) = {}
  BY DEF Masks, NewIds
<1>4. CASE Writable
  <2>1. sock' = [sock EXCEPT !.writeWatch = NoWatch]
        /\ Rewatches({sock.writeWatch}, sock.fd, {})
    BY <1>4 DEF Writable
  <2>2. /\ sock' \in Socks /\ sock'.fd = sock.fd /\ sock'.writeWatch = NoWatch
        /\ sock'.readWatch = sock.readWatch /\ sock'.destroyed = sock.destroyed
        /\ sock'.connecting = sock.connecting /\ sock'.writable = sock.writable
    BY <1>0, <2>1 DEF Socks, NoWatch
  <2>3. nextWatcherId' = nextWatcherId
    BY <2>1 DEF Rewatches
  <2>4. sock'.readWatch < nextWatcherId' /\ sock'.writeWatch < nextWatcherId'
        /\ {sock'.readWatch, sock'.writeWatch} \ {NoWatch} = (AliveIds \ {sock.writeWatch}) \cup {}
    BY <1>0, <2>2, <2>3 DEF NoWatch
  <2> QED BY <1>0, <1>1, <1>2, <1>3, <2>1, <2>2, <2>4, WatchChange
<1>5. CASE ReadEnd
  <2>1. /\ sock' = [sock EXCEPT !.readable = FALSE, !.readWatch = NoWatch]
        /\ Rewatches({sock.readWatch} \ {NoWatch}, sock.fd, {})
    BY <1>5 DEF ReadEnd
  <2>2. /\ sock' \in Socks /\ sock'.fd = sock.fd /\ sock'.readWatch = NoWatch
        /\ sock'.writeWatch = sock.writeWatch /\ sock'.destroyed = sock.destroyed
        /\ sock'.connecting = sock.connecting /\ sock'.writable = sock.writable
    BY <1>0, <2>1 DEF Socks, NoWatch
  <2>3. nextWatcherId' = nextWatcherId
    BY <2>1 DEF Rewatches
  <2>4. sock'.readWatch < nextWatcherId' /\ sock'.writeWatch < nextWatcherId'
        /\ {sock'.readWatch, sock'.writeWatch} \ {NoWatch}
             = (AliveIds \ ({sock.readWatch} \ {NoWatch})) \cup {}
    BY <1>0, <2>2, <2>3 DEF NoWatch
  <2> QED BY <1>0, <1>1, <1>2, <1>3, <2>1, <2>2, <2>4, WatchChange
<1> QED BY <1>4, <1>5

LEMMA WatchCloses ==
  ASSUME WatchInv, FinInv, Closes \/ Destroy PROVE WatchInv'
<1>1. stack # << >> /\ Head(stack).what # "connected"
  BY DEF Closes, Destroy, Running
<1>2. CASE Destroy
  <2>1. stack' = stack
    BY <1>2 DEF Destroy
  <2>2. stack' \in Seq(Frames) /\ ~OnStack("connected")'
    BY <1>1, <2>1, NotConnected DEF WatchInv, OnStack
  <2> QED BY <1>2, <2>2, WatchDestroys DEF Destroy
<1>3. CASE Closes /\ Destroys /\ Then(<<User>>)
  BY <1>1, <1>3, PlainFrames, NoneConnected, WatchDestroys
<1>4. CASE Closes /\ UNCHANGED <<vars, sock, tcpVars>> /\ Then(<< >>)
  BY <1>1, <1>4, PlainFrames, NoneConnected, WatchElse
     DEF vars, loopVars, native, tables, descriptors, Watching, tcpVars
<1> QED BY <1>2, <1>3, <1>4 DEF Closes

\* What the loop does to watchers: it drops the dead ones, and calls registered ones.
LEMMA WatchLoop ==
  ASSUME WatchInv, FinInv, FinInv', LoopSteps PROVE WatchInv'
<1> USE DEF loopVars, native, tables, descriptors
<1>1. /\ watchers' \in {watchers, Alive(watchers)}
      /\ UNCHANGED <<nextWatcherId, watcherCbs, open>>
  BY DEF LoopSteps, LoopStep, DrainOne, DrainDone, Top, Select, SelectReturns,
     CheckSigchld, ReapOne, ReapDone, Dispatch, FireWatcher, FireDone, RunTimer,
     TimersDone, FlushExit
<1>2. sock' = sock /\ tcp' = tcp /\ (stack' = << >> \/ stack' = <<Callback>>)
  BY DEF LoopSteps, tcpVars
<1>3. Alive(watchers)' = Alive(watchers) /\ AliveIds' = AliveIds
      /\ (watchers \subseteq Watcher => watchers' \subseteq Watcher)
  BY <1>1 DEF Alive, AliveIds
<1>4. js' = "watcher" => current' \in watcherCbs
  BY DEF LoopSteps, LoopStep, DrainOne, DrainDone, Top, Select, SelectReturns,
     CheckSigchld, ReapOne, ReapDone, Dispatch, FireWatcher, FireDone, RunTimer,
     TimersDone, FlushExit, At, HasCallback
<1>5. OnStack("connected")' => /\ stack' = <<Frame("connected")>>
                               /\ sock.connecting /\ sock.fd # NoFd
  <2>1. ASSUME OnStack("connected")' PROVE stack' = <<Callback>> /\ Callback.what = "connected"
    BY <1>2, <2>1 DEF OnStack
  <2>2. Callback.what = "connected" =>
          Callback = Frame("connected") /\ sock.connecting /\ js' = "watcher"
    BY FramesOK DEF Callback, User, Frame
  <2>3. sock.fd = NoFd => watcherCbs = {}
    BY DEF WatchInv, AliveIds
  <2> QED BY <1>4, <2>1, <2>2, <2>3
<1>6. stack' \in Seq(Frames)
  BY DEF FinInv
<1> QED BY <1>1, <1>2, <1>3, <1>5, <1>6 DEF WatchInv

\* End, and what happens without a frame of the socket.
LEMMA WatchRest ==
  ASSUME WatchInv, FinInv, FinInv',
         End \/ UserTimer \/ CallbackReturns
         \/ ConnectSettles \/ PeerTakes \/ PeerSends \/ PeerEnds \/ PeerResets
         \/ (Exited /\ UNCHANGED <<socketVars, tcpVars>>) \/ UNCHANGED sockAll
  PROVE  WatchInv'
<1> USE DEF vars, loopVars, native, tables, descriptors, socketVars, tcpVars, sockAll, Watching
<1>1. CASE ConnectSettles \/ PeerTakes \/ PeerSends \/ PeerEnds \/ PeerResets
  <2>1. UNCHANGED <<Watching, open, sock, stack>>
    BY <1>1 DEF ConnectSettles, PeerTakes, PeerSends, PeerEnds, PeerResets, TcpStep
  <2>2. tcp'.state = "none" => tcp.state = "none"
    BY <1>1, TcpStepTyped DEF FinInv
  <2>3. OnStack("connected")' => OnStack("connected")
    BY <2>1 DEF OnStack
  <2> QED BY <2>1, <2>2, <2>3, WatchElse DEF FinInv
<1>2. CASE \/ End \/ UserTimer \/ CallbackReturns
           \/ (Exited /\ UNCHANGED <<socketVars, tcpVars>>) \/ UNCHANGED sockAll
  <2>1. /\ UNCHANGED <<Watching, open>> /\ tcp' = tcp
        /\ sock' = sock \/ sock' = [sock EXCEPT !.writable = FALSE]
        /\ stack' = stack \/ stack' = << >>
    BY <1>2 DEF End, SetsShutdown, UserTimer, CallbackReturns, JsReturn, Exited
  <2>2. OnStack("connected")' => OnStack("connected") /\ stack' = stack
    BY <2>1 DEF OnStack
  <2> QED BY <2>1, <2>2, WatchElse DEF FinInv
<1> QED BY <1>1, <1>2

LEMMA WatchStep ==
  ASSUME WatchInv, FinInv, [SocketNext]_sockAll PROVE WatchInv'
<1>1. FinInv'
  BY FinStep
<1> QED BY <1>1, WatchPushes, WatchReturns, WatchConnect, WatchConnected, WatchBlocks,
           WatchUnwatches, WatchCloses, WatchLoop, WatchRest
        DEF SocketNext, Library

LEMMA WatchInit == SocketInit => WatchInv
<1> SUFFICES ASSUME SocketInit PROVE WatchInv
  OBVIOUS
<1>1. stack \in Seq(Frames) /\ ~OnStack("connected")
  BY FramesOK DEF SocketInit, OnStack, User, Frame
<1>2. watchers = {} /\ watcherCbs = {} /\ nextWatcherId = 1 /\ open = {}
  BY DEF SocketInit, Init
<1>3. Alive(watchers) = {} /\ AliveIds = {}
  BY <1>2 DEF Alive, AliveIds
<1>4. /\ sock = [fd |-> NoFd, readWatch |-> NoWatch, writeWatch |-> NoWatch,
                connecting |-> FALSE, destroyed |-> FALSE,
                readable |-> FALSE, writable |-> FALSE]
      /\ sock \in Socks
  BY DEF SocketInit, Socks, NoWatch
<1> QED BY <1>1, <1>2, <1>3, <1>4 DEF WatchInv, NoWatch

\* The loop is kept alive by exactly the watchers that the socket will unwatch, on
\* its own open descriptor, and by none once it is destroyed.
THEOREM WatchersAreOwned == SocketSpec => []NoOrphanWatcher
<1>1. WatchInv => NoOrphanWatcher
  <2> SUFFICES ASSUME WatchInv PROVE NoOrphanWatcher
    OBVIOUS
  <2>1. \A w \in Alive(watchers) : w.fd = sock.fd /\ sock.fd # NoFd
    BY DEF WatchInv
  <2> QED BY <2>1 DEF WatchInv, NoOrphanWatcher
<1>2. SocketInit => WatchInv /\ FinInv
  BY WatchInit, FinInit
<1>3. WatchInv /\ FinInv /\ [SocketNext]_sockAll => (WatchInv /\ FinInv)'
  BY WatchStep, FinStep
<1> QED BY <1>1, <1>2, <1>3, PTL DEF SocketSpec

-----------------------------------------------------------------------------
(* The invariant: where the tokens of every request are.                    *)

Count == Len(handled)
Waiting == Len(lengths) - Count
\* How much of a body of b bytes the client has sent.
Sent(b) == IF client.kind = "library" THEN client.next - 1 ELSE b

\* The first u bytes of a body after the two tokens of the head, or after the second.
Opening(b, u) == [i \in 1..u + 2 |-> IF i = 1 THEN Line ELSE IF i = 2 THEN Head1(b) ELSE Byte(i - 2)]
Headed(b, u) == [i \in 1..u + 1 |-> IF i = 1 THEN Head1(b) ELSE Byte(i - 1)]

\* What is under way before the next request is handled: nothing, the requests of a burst,
\* or one request, of which the server has its first line at most.
Nothing == server.buf = << >> /\ up = << >>
BurstComes ==
  /\ client.kind = "burst"
  /\ \/ server.buf = Burst(Waiting) /\ up = << >>
     \/ Count = 0 /\ server.buf = << >> /\ up = Burst(Waiting) /\ ~server.parsing
RequestComes(b) ==
  /\ Waiting = 1 /\ client.kind # "burst" /\ ~server.handling /\ lengths[Count + 1] = b
  /\ IF client.kind = "library" /\ ~client.open THEN Nothing
     ELSE \/ server.buf = << >> /\ up = Opening(b, Sent(b))
          \/ server.buf = <<Line>> /\ up = Headed(b, Sent(b))
Comes == (Waiting = 0 /\ Nothing) \/ BurstComes \/ (~server.parsing /\ \E b \in Nat : RequestComes(b))

\* The handler of a request with a body of b bytes is called: it has seen none of them.
Handling(b) ==
  /\ request.got = << >> /\ request.buf = << >> /\ request.ends = 0 /\ ~request.endQueued
  /\ server.reader = Reader(Head1(b).mode, b)
  /\ IF b = 0 THEN Comes
     ELSE /\ Waiting = 0
          /\ \E k \in Nat : k <= Sent(b) /\ server.buf = Bytes(1, k) /\ up = Bytes(k + 1, Sent(b))
\* It has returned: of the body g bytes were given to listeners, and those up to r are in the
\* message's buffer.
Given(b, g, r) ==
  /\ g <= r /\ r <= Sent(b)
  /\ request.got = Bytes(1, g) /\ request.buf = Bytes(g + 1, r) /\ up = Bytes(r + 1, Sent(b))
  /\ request.flowing /\ ~request.drain => g = r
  /\ request.ends \in {0, 1}
  /\ request.endQueued => r = b /\ request.ends = 0
  /\ request.ends = 1 => g = b
\* The reader after r bytes of b.
ReaderAfter(b, r) == [Reader("length", b) EXCEPT !.remain = b - r]
Reading(b) ==
  IF b = 0
  THEN /\ request.got = << >> /\ request.buf = << >> /\ request.ends \in {0, 1}
       /\ ~request.endQueued /\ Comes
  ELSE /\ Waiting = 0 /\ server.buf = << >>
       /\ \E g, r \in Nat : Given(b, g, r) /\ server.reader = ReaderAfter(b, r)

MessageFields == {"buf", "flowing", "endQueued", "heard", "drain", "got", "ends", "pauses"}
ServerFields == {"buf", "parsing", "reader", "handling"}
ResponseFields == {"mode", "ended", "keepAlive", "left"}
ClientFields == {"kind", "open", "closed", "started", "chunks", "next", "length", "buf", "reader"}
IsMessage(m) ==
  /\ m = [f \in MessageFields |-> m[f]]
  /\ m.flowing \in BOOLEAN /\ m.heard \in BOOLEAN /\ m.drain \in BOOLEAN /\ m.endQueued \in BOOLEAN
Shapes ==
  /\ IsMessage(request) /\ server = [f \in ServerFields |-> server[f]]
  /\ response = [f \in ResponseFields |-> response[f]] /\ client = [f \in ClientFields |-> client[f]]
  /\ server.parsing \in BOOLEAN /\ server.handling \in BOOLEAN /\ response.ended \in BOOLEAN
  /\ client.open \in BOOLEAN /\ client.started \in BOOLEAN

ClientInv ==
  /\ client.kind \in {"library", "foreign", "burst"}
  /\ lengths \in Seq(Nat) /\ handled = [i \in 1..Count |-> i] /\ Count \in Nat /\ Count <= Len(lengths)
  /\ client.kind = "library" =>
       IF client.started
       THEN /\ lengths = <<client.length>> /\ client.next \in 1..client.length + 1
            /\ ~client.open => client.chunks = Bytes(1, client.next - 1) /\ Count = 0
       ELSE lengths = << >> /\ client.next = 1 /\ client.chunks = << >> /\ ~client.open
  /\ client.kind = "burst" => \A i \in DOMAIN lengths : lengths[i] = 0
ServerInv ==
  /\ Count = 0 => ~server.parsing /\ ~server.handling
  /\ Count # 0 => response.keepAlive = (client.kind # "library")
  /\ IF server.parsing
     THEN /\ response.ended => client.kind = "library"
          /\ IF server.handling THEN Handling(Body) ELSE Reading(Body)
     ELSE Comes /\ server.reader = NoReader
  /\ client.kind = "library" /\ Count # 0 => server.parsing
RequestInv == Shapes /\ ClientInv /\ ServerInv

LEMMA BytesAre ==
  ASSUME NEW a \in Nat, NEW b \in Nat, a <= b + 1
  PROVE  /\ Len(Bytes(a, b)) = b - a + 1
         /\ DOMAIN Bytes(a, b) = 1..b - a + 1
         /\ \A i \in 1..b - a + 1 : Bytes(a, b)[i] = Byte(a + i - 1)
         /\ (Bytes(a, b) = << >>) = (a = b + 1)
<1>1. Len(Bytes(a, b)) = b - a + 1 /\ DOMAIN Bytes(a, b) = 1..b - a + 1
  BY DEF Bytes
<1>2. \A i \in 1..b - a + 1 : Bytes(a, b)[i] = Byte(a + i - 1)
  BY DEF Bytes
<1>3. (Bytes(a, b) = << >>) = (a = b + 1)
  BY DEF Bytes
<1> QED
  BY <1>1, <1>2, <1>3

LEMMA BytesJoin ==
  ASSUME NEW a \in Nat, NEW b \in Nat, NEW c \in Nat, NEW d, d = b + 1, a <= d, b <= c
  PROVE  Bytes(a, b) \o Bytes(d, c) = Bytes(a, c)
BY DEF Bytes

LEMMA BytesNext ==
  ASSUME NEW a \in Nat, NEW b \in Nat, NEW d, d = b + 1, a <= d
  PROVE  Append(Bytes(a, b), Byte(d)) = Bytes(a, d)
BY DEF Bytes

LEMMA OpeningIs ==
  ASSUME NEW b \in Nat, NEW u \in Nat
  PROVE  /\ <<Line, Head1(b)>> \o Bytes(1, u) = Opening(b, u)
         /\ <<Line>> \o Headed(b, u) = Opening(b, u)
         /\ Len(Opening(b, u)) = u + 2 /\ Len(Headed(b, u)) = u + 1
         /\ DOMAIN Opening(b, u) = 1..u + 2
         /\ Opening(b, u)[1] = Line /\ Opening(b, u)[2] = Head1(b)
         /\ SubSeq(Opening(b, u), 3, Len(Opening(b, u))) = Bytes(1, u)
<1> QED
  BY DEF Opening, Headed, Bytes

LEMMA OpeningNext ==
  ASSUME NEW b \in Nat, NEW u \in Nat, NEW v, v = u + 1
  PROVE  /\ Append(Opening(b, u), Byte(v)) = Opening(b, v)
         /\ Append(Headed(b, u), Byte(v)) = Headed(b, v)
<1>1. Append(Opening(b, u), Byte(v)) = Opening(b, v)
  BY DEF Opening
<1>2. Append(Headed(b, u), Byte(v)) = Headed(b, v)
  BY DEF Headed
<1> QED
  BY <1>1, <1>2

LEMMA OpeningCut ==
  ASSUME NEW b \in Nat, NEW u \in Nat
  PROVE  /\ SubSeq(Opening(b, u), 1, 1) = <<Line>>
         /\ SubSeq(Opening(b, u), 2, Len(Opening(b, u))) = Headed(b, u)
         /\ \A k \in 2..u + 2 : /\ SubSeq(Opening(b, u), 1, k) = Opening(b, k - 2)
                                /\ SubSeq(Opening(b, u), k + 1, Len(Opening(b, u))) = Bytes(k - 1, u)
         /\ \A k \in 1..u + 1 : /\ SubSeq(Headed(b, u), 1, k) = Headed(b, k - 1)
                                /\ SubSeq(Headed(b, u), k + 1, Len(Headed(b, u))) = Bytes(k, u)
<1>1. Len(Opening(b, u)) = u + 2 /\ Len(Headed(b, u)) = u + 1
  BY OpeningIs
<1>2. SubSeq(Opening(b, u), 1, 1) = <<Line>>
  <2>1. SubSeq(Opening(b, u), 1, 1) = [i \in 1..1 |-> Line]
    BY DEF Opening
  <2>2. [i \in 1..1 |-> Line] = <<Line>>
    OBVIOUS
  <2> QED
    BY <2>1, <2>2
<1>3. SubSeq(Opening(b, u), 2, Len(Opening(b, u))) = Headed(b, u)
  BY <1>1 DEF Opening, Headed
<1>4. ASSUME NEW k \in 2..u + 2
      PROVE  /\ SubSeq(Opening(b, u), 1, k) = Opening(b, k - 2)
             /\ SubSeq(Opening(b, u), k + 1, Len(Opening(b, u))) = Bytes(k - 1, u)
  <2>1. SubSeq(Opening(b, u), 1, k) = Opening(b, k - 2)
    BY DEF Opening
  <2>2. SubSeq(Opening(b, u), k + 1, Len(Opening(b, u))) = Bytes(k - 1, u)
    BY <1>1 DEF Opening, Bytes
  <2> QED
    BY <2>1, <2>2
<1>5. ASSUME NEW k \in 1..u + 1
      PROVE  /\ SubSeq(Headed(b, u), 1, k) = Headed(b, k - 1)
             /\ SubSeq(Headed(b, u), k + 1, Len(Headed(b, u))) = Bytes(k, u)
  <2>1. SubSeq(Headed(b, u), 1, k) = Headed(b, k - 1)
    BY DEF Headed
  <2>2. SubSeq(Headed(b, u), k + 1, Len(Headed(b, u))) = Bytes(k, u)
    BY <1>1 DEF Headed, Bytes
  <2> QED
    BY <2>1, <2>2
<1> QED
  BY <1>2, <1>3, <1>4, <1>5

LEMMA BurstIs ==
  ASSUME NEW k \in Nat, NEW j, j = k - 1
  PROVE  /\ (Burst(k) = << >>) = (k = 0) /\ Len(Burst(k)) = 2 * k /\ DOMAIN Burst(k) = 1..2 * k
         /\ k # 0 => /\ Burst(k)[1] = Line /\ Burst(k)[2] = Head1(0)
                     /\ SubSeq(Burst(k), 3, Len(Burst(k))) = Burst(j)
<1>1. Len(Burst(k)) = 2 * k /\ DOMAIN Burst(k) = 1..2 * k
  BY DEF Burst
<1>2. (Burst(k) = << >>) = (k = 0)
  BY DEF Burst
<1>3. ASSUME k # 0
      PROVE  /\ Burst(k)[1] = Line /\ Burst(k)[2] = Head1(0)
             /\ SubSeq(Burst(k), 3, Len(Burst(k))) = Burst(j)
  <2>1. Burst(k)[1] = Line /\ Burst(k)[2] = Head1(0)
    BY <1>3 DEF Burst
  <2>2. SubSeq(Burst(k), 3, Len(Burst(k))) = Burst(j)
    BY <1>1, <1>3 DEF Burst
  <2> QED
    BY <2>1, <2>2
<1> QED
  BY <1>1, <1>2, <1>3

\* Where the head is.
LEMMA HeadIsSecond ==
  ASSUME NEW s, Len(s) \in Nat, Len(s) >= 2, s[1] = Line, NEW b \in Nat, s[2] = Head1(b)
  PROVE  HeadAt(s) = 2
<1> DEFINE I == {i \in 1..Len(s) : s[i].t = "head"}
<1>1. 2 \in I /\ 1 \notin I /\ I \subseteq Nat
  BY DEF Line, Head1
<1>2. \A i \in I : 2 <= i
  BY <1>1
<1> QED
  BY <1>1, <1>2 DEF HeadAt, SelectInSeq, Min
LEMMA NoHead ==
  HeadAt(<<Line>>) = 0 /\ HeadAt(<< >>) = 0
BY DEF HeadAt, SelectInSeq, Line

(* A message: what was given and what is kept. *)

LEMMA EmitsEndIs ==
  ASSUME NEW m, IsMessage(m), NEW x, x = EmitsEnd(m)
  PROVE  /\ IsMessage(x) /\ x.flowing = m.flowing /\ x.drain = m.drain /\ x.got = m.got /\ x.buf = m.buf
         /\ x.endQueued = m.endQueued /\ (x.ends = m.ends \/ x.ends = m.ends + 1)
BY DEF EmitsEnd, IsMessage, MessageFields

GivesOrKeeps(x, m, given) ==
  IF m.flowing THEN x.got = m.got \o given /\ x.buf = m.buf
  ELSE x.got = m.got /\ x.buf = m.buf \o given
LEMMA EmitsDataIs ==
  ASSUME NEW m, IsMessage(m), NEW given, NEW x, x = EmitsData(m, given)
  PROVE  /\ IsMessage(x) /\ x.flowing = m.flowing /\ x.drain = m.drain
         /\ x.endQueued = m.endQueued /\ x.ends = m.ends
         /\ GivesOrKeeps(x, m, given)
<1>1. CASE m.flowing
  BY <1>1 DEF GivesOrKeeps, EmitsData, IsMessage, MessageFields
<1>2. CASE ~m.flowing
  BY <1>2 DEF GivesOrKeeps, EmitsData, IsMessage, MessageFields
<1> QED
  BY <1>1, <1>2

LEMMA EmitsIs ==
  ASSUME NEW m, IsMessage(m), NEW given, NEW end \in BOOLEAN, NEW x, x = Emits(m, given, end)
  PROVE  /\ IsMessage(x) /\ x.flowing = m.flowing /\ x.drain = m.drain
         /\ GivesOrKeeps(x, m, given)
         /\ ~end => x.endQueued = m.endQueued /\ x.ends = m.ends
         /\ end /\ ~m.flowing /\ x.buf # << >> => x.endQueued /\ x.ends = m.ends
         /\ end /\ (m.flowing \/ x.buf = << >>) =>
              x.endQueued = m.endQueued /\ (x.ends = m.ends \/ x.ends = m.ends + 1)
<1>1. PICK d : d = EmitsData(m, given)
  OBVIOUS
<1>2. /\ IsMessage(d) /\ d.flowing = m.flowing /\ d.drain = m.drain
      /\ d.endQueued = m.endQueued /\ d.ends = m.ends
      /\ GivesOrKeeps(d, m, given)
  BY <1>1, EmitsDataIs
<1>3. x = (IF ~end THEN d ELSE IF EndWaits(d) THEN [d EXCEPT !.endQueued = TRUE] ELSE EmitsEnd(d))
  BY <1>1 DEF Emits
<1>4. CASE ~end
  BY <1>2, <1>3, <1>4
<1>5. CASE end /\ EndWaits(d)
  <2>1. x = [d EXCEPT !.endQueued = TRUE]
    BY <1>3, <1>5
  <2>2. /\ x.flowing = d.flowing /\ x.drain = d.drain /\ x.got = d.got /\ x.buf = d.buf /\ x.ends = d.ends
        /\ x.heard = d.heard /\ x.endQueued = TRUE /\ x = [f \in MessageFields |-> x[f]]
    BY <1>2, <2>1 DEF IsMessage, MessageFields
  <2>3. IsMessage(x) /\ x.endQueued
    BY <1>2, <2>2 DEF IsMessage
  <2>4. ~d.flowing /\ d.buf # << >>
    BY <1>5 DEF EndWaits
  <2> QED
    BY <1>2, <1>5, <2>2, <2>3, <2>4 DEF GivesOrKeeps
<1>6. CASE end /\ ~EndWaits(d)
  <2>1. x = EmitsEnd(d)
    BY <1>3, <1>6
  <2>2. /\ IsMessage(x) /\ x.flowing = d.flowing /\ x.drain = d.drain /\ x.got = d.got /\ x.buf = d.buf
        /\ x.endQueued = d.endQueued /\ (x.ends = d.ends \/ x.ends = d.ends + 1)
    BY <1>2, <2>1, EmitsEndIs
  <2>3. d.flowing \/ d.buf = << >>
    BY <1>6 DEF EndWaits
  <2> QED
    BY <1>2, <1>6, <2>2, <2>3 DEF GivesOrKeeps
<1> QED
  BY <1>4, <1>5, <1>6

LEMMA UsedIs ==
  ASSUME NEW m, IsMessage(m), NEW x, x = Listens(m) \/ x = Pauses(m)
  PROVE  /\ IsMessage(x) /\ x.got = m.got /\ x.buf = m.buf /\ x.ends = m.ends
         /\ x.endQueued = m.endQueued
         /\ x.flowing /\ ~x.drain => m.flowing /\ ~m.drain
<1>1. CASE x = Listens(m)
  <2>1. /\ x.got = m.got /\ x.buf = m.buf /\ x.ends = m.ends /\ x.endQueued = m.endQueued
        /\ x.flowing = TRUE /\ x.heard = TRUE /\ x.drain = Drains(m) /\ x = [f \in MessageFields |-> x[f]]
    BY <1>1 DEF Listens, IsMessage, MessageFields
  <2>2. Drains(m) \in BOOLEAN /\ (~Drains(m) => m.flowing /\ ~m.drain)
    BY DEF Drains, IsMessage
  <2> QED
    BY <2>1, <2>2 DEF IsMessage
<1>2. CASE x = Pauses(m)
  <2>1. /\ x.got = m.got /\ x.buf = m.buf /\ x.ends = m.ends /\ x.endQueued = m.endQueued
        /\ x.flowing = FALSE /\ x.heard = m.heard /\ x.drain = m.drain /\ x = [f \in MessageFields |-> x[f]]
    BY <1>2 DEF Pauses, IsMessage, MessageFields
  <2> QED
    BY <2>1 DEF IsMessage
<1> QED
  BY <1>1, <1>2

LEMMA DrainedIs ==
  ASSUME NEW m, IsMessage(m), NEW x, x = ImDrained(m)
  PROVE  /\ IsMessage(x) /\ x.flowing = m.flowing /\ ~x.drain
         /\ ~m.flowing => x.got = m.got /\ x.buf = m.buf /\ x.ends = m.ends /\ x.endQueued = m.endQueued
         /\ m.flowing => /\ x.got = m.got \o m.buf /\ x.buf = << >> /\ ~x.endQueued
                         /\ x.ends = m.ends \/ (m.endQueued /\ x.ends = m.ends + 1)
<1>1. CASE ~m.flowing
  <2>1. x = [m EXCEPT !.drain = FALSE]
    BY <1>1 DEF ImDrained
  <2>2. /\ x.flowing = m.flowing /\ x.drain = FALSE /\ x.got = m.got /\ x.buf = m.buf /\ x.ends = m.ends
        /\ x.heard = m.heard /\ x.endQueued = m.endQueued /\ x = [f \in MessageFields |-> x[f]]
    BY <2>1 DEF IsMessage, MessageFields
  <2> QED
    BY <1>1, <2>2 DEF IsMessage
<1>2. CASE m.flowing
  <2>1. PICK d : d = [m EXCEPT !.drain = FALSE, !.got = @ \o m.buf, !.buf = << >>, !.endQueued = FALSE]
    OBVIOUS
  <2>2. /\ d.flowing = m.flowing /\ d.drain = FALSE /\ d.got = m.got \o m.buf /\ d.buf = << >>
        /\ d.ends = m.ends /\ d.heard = m.heard /\ d.endQueued = FALSE
        /\ d = [f \in MessageFields |-> d[f]]
    BY <2>1 DEF IsMessage, MessageFields
  <2>3. IsMessage(d) /\ ~d.drain /\ ~d.endQueued
    BY <2>2 DEF IsMessage
  <2>4. x = (IF m.endQueued THEN EmitsEnd(d) ELSE d)
    BY <1>2, <2>1 DEF ImDrained
  <2>5. CASE m.endQueued
    <3>1. x = EmitsEnd(d)
      BY <2>4, <2>5
    <3>2. /\ IsMessage(x) /\ x.flowing = d.flowing /\ x.drain = d.drain /\ x.got = d.got /\ x.buf = d.buf
          /\ x.endQueued = d.endQueued /\ (x.ends = d.ends \/ x.ends = d.ends + 1)
      BY <2>3, <3>1, EmitsEndIs
    <3> QED
      BY <1>2, <2>2, <2>3, <2>5, <3>2
  <2>6. CASE ~m.endQueued
    BY <1>2, <2>2, <2>3, <2>4, <2>6
  <2> QED
    BY <2>5, <2>6
<1> QED
  BY <1>1, <1>2 DEF IsMessage

(* What a step leaves alone. *)

SameClient ==
  /\ client'.kind = client.kind /\ client'.open = client.open /\ client'.next = client.next
  /\ client'.started = client.started /\ client'.length = client.length
  /\ client'.chunks = client.chunks
SameServer == UNCHANGED <<server, up, request, handled, lengths>>

LEMMA ComesKept ==
  ASSUME Comes, server'.buf = server.buf, server'.handling => server.handling, server'.parsing => server.parsing,
         UNCHANGED <<up, handled, lengths>>, SameClient
  PROVE  Comes'
<1>1. CASE Waiting = 0 /\ Nothing
  BY <1>1 DEF Comes, Nothing, Waiting, Count
<1>2. CASE BurstComes
  <2>1. BurstComes'
    BY <1>2 DEF BurstComes, Waiting, Count, SameClient
  <2> QED
    BY <2>1 DEF Comes
<1>3. CASE ~server.parsing /\ \E b \in Nat : RequestComes(b)
  <2>1. PICK b \in Nat : RequestComes(b)
    BY <1>3
  <2>2. RequestComes(b)' /\ ~server'.parsing
    BY <1>3, <2>1 DEF RequestComes, Nothing, Waiting, Count, SameClient, Sent
  <2> QED
    BY <2>2 DEF Comes
<1> QED
  BY <1>1, <1>2, <1>3 DEF Comes

LEMMA Unmoved ==
  ASSUME RequestInv, SameServer, SameClient, client' = [f \in ClientFields |-> client'[f]],
         response' = [f \in ResponseFields |-> response'[f]],
         response'.ended = response.ended, response'.keepAlive = response.keepAlive
  PROVE  RequestInv'
<1>1. Shapes'
  BY DEF RequestInv, Shapes, SameServer, SameClient
<1>2. ClientInv'
  BY DEF RequestInv, ClientInv, SameServer, SameClient, Count
<1>3. ServerInv'
  <2>1. Count' = Count /\ Waiting' = Waiting /\ Body' = Body
    BY DEF SameServer, Count, Waiting, Body
  <2>2. Comes => Comes'
    BY ComesKept DEF SameServer
  <2>3. \A b : Sent(b)' = Sent(b)
    BY DEF Sent, SameClient
  <2>4. \A b : Handling(b) => Handling(b)'
    BY <2>1, <2>2, <2>3 DEF Handling, SameServer
  <2>5. \A b : Reading(b) => Reading(b)'
    <3>1. \A b, g, r : Given(b, g, r) => Given(b, g, r)'
      BY <2>3 DEF Given, SameServer
    <3> QED
      BY <2>1, <2>2, <3>1 DEF Reading, SameServer
  <2> QED
    BY <2>1, <2>2, <2>4, <2>5 DEF RequestInv, ServerInv, SameServer, SameClient
<1> QED
  BY <1>1, <1>2, <1>3 DEF RequestInv

LEMMA ResponseIs ==
  ASSUME RequestInv
  PROVE  /\ response = [f \in ResponseFields |-> response[f]] /\ client = [f \in ClientFields |-> client[f]]
         /\ server = [f \in ServerFields |-> server[f]]
BY DEF RequestInv, Shapes

LEMMA ClientDataKeeps ==
  ASSUME RequestInv, ClientData
  PROVE  RequestInv'
<1>1. SameServer /\ response' = response
  BY DEF ClientData, SameServer, serverVars
<1>2. PICK piece : ClientReads(piece)
  BY DEF ClientData
<1>3. \/ client' = client
      \/ \E x : client' = [client EXCEPT !.buf = x]
      \/ \E x : client' = [client EXCEPT !.reader = x]
      \/ \E x, y : client' = [client EXCEPT !.reader = x, !.closed = y]
  BY <1>2 DEF ClientReads
<1>4. SameClient /\ client' = [f \in ClientFields |-> client'[f]]
  BY <1>3, ResponseIs DEF SameClient, ClientFields
<1> QED
  BY <1>1, <1>4, ResponseIs, Unmoved

LEMMA ClientEndKeeps ==
  ASSUME RequestInv, ClientEnd
  PROVE  RequestInv'
<1>1. SameServer /\ response' = response
  BY DEF ClientEnd, SameServer, serverVars
<1>2. SameClient /\ client' = [f \in ClientFields |-> client'[f]]
  BY ResponseIs DEF ClientEnd, SameClient, ClientFields
<1> QED
  BY <1>1, <1>2, ResponseIs, Unmoved

LEMMA OthersKeep ==
  ASSUME RequestInv, AnswerUsed \/ AnswerTick \/ ForeignReads \/ UNCHANGED httpVars
  PROVE  RequestInv'
<1>1. SameServer /\ response' = response /\ client' = client
  BY DEF AnswerUsed, AnswerTick, ForeignReads, SameServer, serverVars, clientVars, httpVars
<1>2. SameClient
  BY <1>1 DEF SameClient
<1> QED
  BY <1>1, <1>2, ResponseIs, Unmoved

LEMMA WriteKeeps ==
  ASSUME RequestInv, ResWrite
  PROVE  RequestInv'
<1>1. SameServer /\ client' = client
  BY DEF ResWrite, SameServer, clientVars
<1>2. \E x, y : response' = [response EXCEPT !.mode = x, !.left = y]
  <2>1. CASE response.mode = "none"
    BY <2>1 DEF ResWrite
  <2>2. CASE response.mode # "none"
    <3>1. response' = [response EXCEPT !.left = @ - 1]
      BY <2>2 DEF ResWrite
    <3>2. response' = [response EXCEPT !.mode = response.mode, !.left = response.left - 1]
      BY <3>1, ResponseIs DEF ResponseFields
    <3> QED
      BY <3>2
  <2> QED
    BY <2>1, <2>2
<1>3. /\ response' = [f \in ResponseFields |-> response'[f]]
      /\ response'.ended = response.ended /\ response'.keepAlive = response.keepAlive
  BY <1>2, ResponseIs DEF ResponseFields
<1>4. SameClient
  BY <1>1 DEF SameClient
<1> QED
  BY <1>1, <1>3, <1>4, ResponseIs, Unmoved

(* What the clients send. *)

LEMMA Invs ==
  ASSUME RequestInv
  PROVE  Shapes /\ ClientInv /\ ServerInv
BY DEF RequestInv

LEMMA StartKeeps ==
  ASSUME RequestInv, Start
  PROVE  RequestInv'
<1>1. /\ client.kind = "library" /\ ~client.started
      /\ UNCHANGED <<server, up, request, response, handled>>
  BY DEF Start, serverVars
<1>2. PICK n \in Nat : client' = [client EXCEPT !.started = TRUE, !.length = n] /\ lengths' = <<n>>
  <2>1. 0..MaxBody \subseteq Nat
    BY HttpAssumption
  <2> QED
    BY <2>1, Zenon DEF Start
<1>3. /\ client'.kind = client.kind /\ client'.open = client.open /\ client'.next = client.next
      /\ client'.chunks = client.chunks /\ client'.started = TRUE /\ client'.length = n
      /\ client' = [f \in ClientFields |-> client'[f]]
  BY <1>2, ResponseIs DEF ClientFields
<1>4. lengths = << >> /\ client.next = 1 /\ client.chunks = << >> /\ ~client.open /\ Count = 0
  BY <1>1, Invs DEF ClientInv
<1>5. ~server.parsing /\ ~server.handling /\ Comes /\ server.reader = NoReader
  BY <1>4, Invs DEF ServerInv
<1>6. Nothing
  <2>1. Waiting = 0
    BY <1>4 DEF Waiting
  <2> QED
    BY <1>1, <1>5, <2>1 DEF Comes, BurstComes, RequestComes
<1>7. Shapes'
  BY <1>1, <1>3, Invs DEF Shapes
<1>8. ClientInv'
  <2>1. Bytes(1, 0) = << >>
    BY BytesAre
  <2> QED
    BY <1>1, <1>2, <1>3, <1>4, <2>1, Invs DEF ClientInv, Count
<1>9. Comes'
  <2>1. Count' = 0 /\ Waiting' = 1 /\ lengths'[1] = n
    BY <1>1, <1>2, <1>4 DEF Count, Waiting
  <2>2. RequestComes(n)'
    BY <1>1, <1>3, <1>4, <1>5, <1>6, <2>1 DEF RequestComes, Nothing
  <2> QED
    BY <1>1, <1>5, <2>2 DEF Comes
<1>10. ServerInv'
  BY <1>1, <1>3, <1>4, <1>5, <1>9 DEF ServerInv, Count
<1> QED
  BY <1>7, <1>8, <1>10 DEF RequestInv

\* The bytes that a library's client adds to a body.
LEMMA ClientWriteKeeps ==
  ASSUME RequestInv, ClientWrite
  PROVE  RequestInv'
<1>1. /\ client.kind = "library" /\ client.started /\ client.next <= client.length /\ ~server.handling
      /\ UNCHANGED <<server, request, response, handled, lengths>>
  BY DEF ClientWrite, serverVars, Quiet
<1>2. PICK v, u : v = client.next /\ u = v - 1
  OBVIOUS
<1>3. /\ lengths = <<client.length>> /\ v \in Nat /\ u \in Nat /\ v = u + 1
      /\ client.length \in Nat /\ v <= client.length
      /\ ~client.open => client.chunks = Bytes(1, u) /\ Count = 0
      /\ Count \in Nat /\ Count <= 1
  <2>1. lengths \in Seq(Nat) /\ lengths = <<client.length>>
    BY <1>1, Invs DEF ClientInv
  <2>2. client.length \in Nat
    BY <2>1
  <2> QED
    BY <1>1, <1>2, <2>1, <2>2, Invs DEF ClientInv
<1>4. CASE client.open
  <2>1. up' = Append(up, Byte(v)) /\ client' = [client EXCEPT !.next = @ + 1]
    BY <1>2, <1>4 DEF ClientWrite
  <2>2. /\ client'.kind = client.kind /\ client'.open = client.open /\ client'.next = v + 1
        /\ client'.chunks = client.chunks /\ client'.started = client.started
        /\ client'.length = client.length /\ client' = [f \in ClientFields |-> client'[f]]
    BY <1>2, <2>1, ResponseIs DEF ClientFields
  <2>3. Shapes'
    BY <1>1, <2>2, Invs DEF Shapes
  <2>4. ClientInv'
    BY <1>1, <1>3, <1>4, <2>2, Invs DEF ClientInv, Count
  <2>5. Count' = Count /\ Waiting' = Waiting /\ (Count = 1 => Body' = Body /\ Body = client.length)
    BY <1>1, <1>3 DEF Count, Waiting, Body
  <2>6. \A b : Sent(b) = u /\ Sent(b)' = v
    BY <1>1, <1>2, <1>3, <2>2 DEF Sent
  <2>7. CASE Count = 0
    <3>1. ~server.parsing /\ ~server.handling /\ Comes /\ server.reader = NoReader
      BY <2>7, Invs DEF ServerInv
    <3>2. PICK b \in Nat : RequestComes(b)
      <4>1. Waiting = 1
        BY <1>3, <2>7 DEF Waiting
      <4> QED
        BY <1>1, <3>1, <4>1 DEF Comes, BurstComes
    <3>3. RequestComes(b)'
      <4>1. CASE server.buf = << >> /\ up = Opening(b, u)
        <5>1. up' = Opening(b, v)
          BY <1>3, <2>1, <4>1, OpeningNext
        <5> QED
          BY <1>1, <1>4, <2>2, <2>5, <2>6, <3>2, <4>1, <5>1 DEF RequestComes
      <4>2. CASE server.buf = <<Line>> /\ up = Headed(b, u)
        <5>1. up' = Headed(b, v)
          BY <1>3, <2>1, <4>2, OpeningNext
        <5> QED
          BY <1>1, <1>4, <2>2, <2>5, <2>6, <3>2, <4>2, <5>1 DEF RequestComes
      <4> QED
        BY <1>4, <2>6, <3>2, <4>1, <4>2 DEF RequestComes
    <3>4. Comes'
      BY <1>1, <3>1, <3>2, <3>3 DEF Comes
    <3>5. ServerInv'
      BY <1>1, <2>2, <2>5, <2>7, <3>1, <3>4 DEF ServerInv
    <3> QED
      BY <2>3, <2>4, <3>5 DEF RequestInv
  <2>8. CASE Count = 1
    <3>1. server.parsing /\ Reading(Body) /\ Body # 0
      BY <1>1, <1>3, <2>5, <2>8, Invs DEF ServerInv
    <3>2. PICK g \in Nat, r \in Nat : /\ Given(Body, g, r) /\ Waiting = 0 /\ server.buf = << >>
                                      /\ server.reader = ReaderAfter(Body, r)
      BY <3>1 DEF Reading
    <3>3. up' = Bytes(r + 1, v)
      <4>1. up = Bytes(r + 1, u) /\ r <= u
        BY <2>6, <3>2 DEF Given
      <4>2. PICK a : a = r + 1
        OBVIOUS
      <4> QED
        <5>1. a \in Nat /\ a <= v
          BY <1>3, <4>1, <4>2
        <5>2. Append(Bytes(a, u), Byte(v)) = Bytes(a, v)
          BY <1>3, <5>1, BytesNext
        <5> QED
          BY <2>1, <4>1, <4>2, <5>2
    <3>4. Given(Body, g, r)'
      BY <1>1, <1>3, <2>5, <2>6, <2>8, <3>2, <3>3 DEF Given
    <3>5. Reading(Body)'
      BY <1>1, <2>5, <2>8, <3>1, <3>2, <3>4 DEF Reading
    <3>6. ServerInv'
      BY <1>1, <2>2, <2>5, <2>8, <3>1, <3>5, Invs DEF ServerInv
    <3> QED
      BY <2>3, <2>4, <3>6 DEF RequestInv
  <2> QED
    BY <1>3, <2>7, <2>8
<1>5. CASE ~client.open
  <2>1. /\ client' = [client EXCEPT !.next = @ + 1, !.chunks = Append(@, Byte(v))] /\ up' = up
    BY <1>2, <1>5 DEF ClientWrite
  <2>2. /\ client'.kind = client.kind /\ client'.open = client.open /\ client'.next = v + 1
        /\ client'.chunks = Append(client.chunks, Byte(v)) /\ client'.started = client.started
        /\ client'.length = client.length /\ client' = [f \in ClientFields |-> client'[f]]
    BY <1>2, <2>1, ResponseIs DEF ClientFields
  <2>3. Shapes'
    BY <1>1, <2>2, Invs DEF Shapes
  <2>4. client'.chunks = Bytes(1, v)
    <3>1. Append(Bytes(1, u), Byte(v)) = Bytes(1, v)
      BY <1>3 DEF Bytes
    <3> QED
      BY <1>3, <1>5, <2>2, <3>1
  <2>5. ClientInv'
    BY <1>1, <1>3, <1>5, <2>2, <2>4, Invs DEF ClientInv, Count
  <2>6. ~server.parsing /\ ~server.handling /\ Comes /\ server.reader = NoReader /\ Count = 0
    BY <1>3, <1>5, Invs DEF ServerInv
  <2>7. Count' = Count /\ Waiting' = Waiting
    BY <1>1 DEF Count, Waiting
  <2>8. PICK b \in Nat : RequestComes(b)
    <3>1. Waiting = 1
      BY <1>3, <2>6 DEF Waiting
    <3> QED
      BY <1>1, <2>6, <3>1 DEF Comes, BurstComes
  <2>9. RequestComes(b)'
    BY <1>1, <1>5, <2>1, <2>2, <2>7, <2>8 DEF RequestComes, Nothing
  <2>10. Comes'
    BY <1>1, <2>6, <2>9 DEF Comes
  <2>11. ServerInv'
    BY <1>1, <2>2, <2>6, <2>7, <2>10 DEF ServerInv
  <2> QED
    BY <2>3, <2>5, <2>11 DEF RequestInv
<1> QED
  BY <1>4, <1>5, Invs DEF Shapes

LEMMA ReadyKeeps ==
  ASSUME RequestInv, Ready
  PROVE  RequestInv'
<1>1. /\ client.kind = "library" /\ client.started /\ ~client.open
      /\ UNCHANGED <<server, request, response, handled, lengths>>
      /\ client' = [client EXCEPT !.open = TRUE]
      /\ up' = up \o <<Line, Head1(client.length)>> \o client.chunks
  BY DEF Ready, serverVars
<1>2. PICK u, n : u = client.next - 1 /\ n = client.length
  OBVIOUS
<1>3. /\ lengths = <<n>> /\ u \in Nat /\ n \in Nat /\ u <= n /\ client.next = u + 1
      /\ client.chunks = Bytes(1, u) /\ Count = 0
  <2>1. lengths \in Seq(Nat) /\ lengths = <<n>>
    BY <1>1, <1>2, Invs DEF ClientInv
  <2>2. n \in Nat
    BY <2>1
  <2> QED
    BY <1>1, <1>2, <2>1, <2>2, Invs DEF ClientInv
<1>4. /\ client'.kind = client.kind /\ client'.open = TRUE /\ client'.next = client.next
      /\ client'.chunks = client.chunks /\ client'.started = client.started
      /\ client'.length = client.length /\ client' = [f \in ClientFields |-> client'[f]]
  BY <1>1, ResponseIs DEF ClientFields
<1>5. Shapes'
  BY <1>1, <1>4, Invs DEF Shapes
<1>6. ClientInv'
  BY <1>1, <1>4, Invs DEF ClientInv, Count
<1>7. ~server.parsing /\ ~server.handling /\ Comes /\ server.reader = NoReader
  BY <1>3, Invs DEF ServerInv
<1>8. Count' = Count /\ Waiting' = Waiting /\ Waiting = 1
  BY <1>1, <1>3 DEF Count, Waiting
<1>9. Nothing
  BY <1>1, <1>7, <1>8 DEF Comes, BurstComes, RequestComes
<1>10. up' = Opening(n, u)
  <2>1. up' = <<Line, Head1(n)>> \o Bytes(1, u)
    <3>1. PICK h : h = <<Line, Head1(n)>>
      OBVIOUS
    <3>2. h \in Seq({Line, Head1(n)}) /\ << >> \o h = h
      BY <3>1
    <3>3. up' = << >> \o h \o Bytes(1, u)
      BY <1>1, <1>2, <1>3, <1>9, <3>1 DEF Nothing
    <3> QED
      BY <3>1, <3>2, <3>3
  <2> QED
    BY <1>3, <2>1, OpeningIs
<1>11. RequestComes(n)'
  <2>1. Sent(n)' = u
    BY <1>1, <1>3, <1>4 DEF Sent
  <2> QED
    BY <1>1, <1>3, <1>4, <1>7, <1>8, <1>9, <1>10, <2>1 DEF RequestComes, Nothing
<1>12. Comes'
  BY <1>1, <1>3, <1>7, <1>11 DEF Comes
<1>13. ServerInv'
  BY <1>1, <1>3, <1>4, <1>7, <1>8, <1>12 DEF ServerInv
<1> QED
  BY <1>5, <1>6, <1>13 DEF RequestInv

LEMMA ForeignSendsKeeps ==
  ASSUME Habits = {}, RequestInv, ForeignSends
  PROVE  RequestInv'
<1>1. /\ client.kind = "foreign" /\ ~server.handling
      /\ lengths = << >> \/ (handled # << >> /\ response.ended /\ Count = Len(lengths))
      /\ UNCHANGED <<client, server, request, response, handled>>
  BY DEF ForeignSends, serverVars, clientVars, Quiet, Answered, Count
<1>2. PICK n \in Nat : lengths' = Append(lengths, n) /\ up' = up \o RequestTokens(n)
  <2>1. 0..MaxBody \subseteq Nat
    BY HttpAssumption
  <2> QED
    BY <2>1, Zenon DEF ForeignSends
<1>3. lengths \in Seq(Nat) /\ handled = [i \in 1..Count |-> i] /\ Count \in Nat /\ Count <= Len(lengths)
  BY Invs DEF ClientInv
<1>4. Waiting = 0 /\ ~server.parsing
  <2>1. CASE lengths = << >>
    <3>1. Count = 0
      BY <1>3, <2>1
    <3> QED
      BY <2>1, <3>1, Invs DEF Waiting, ServerInv
  <2>2. CASE handled # << >> /\ response.ended /\ Count = Len(lengths)
    BY <1>1, <1>3, <2>2, Invs DEF Waiting, ServerInv
  <2> QED
    BY <1>1, <2>1, <2>2
<1>5. Comes /\ server.reader = NoReader
  BY <1>4, Invs DEF ServerInv
<1>6. Nothing
  BY <1>1, <1>4, <1>5 DEF Comes, BurstComes, RequestComes
<1>7. Count' = Count /\ Waiting' = 1 /\ lengths'[Count + 1] = n /\ lengths' \in Seq(Nat)
      /\ Count <= Len(lengths')
  BY <1>1, <1>2, <1>3, <1>4 DEF Count, Waiting
<1>8. up' = Opening(n, n)
  <2>1. up' = <<Line, Head1(n)>> \o Bytes(1, n)
    BY <1>2, <1>6 DEF Nothing, RequestTokens
  <2> QED
    BY <2>1, OpeningIs
<1>9. RequestComes(n)'
  <2>1. Sent(n)' = n
    BY <1>1 DEF Sent
  <2> QED
    BY <1>1, <1>6, <1>7, <1>8, <2>1 DEF RequestComes, Nothing
<1>10. Comes'
  BY <1>1, <1>4, <1>9 DEF Comes
<1>11. Shapes'
  BY <1>1, Invs DEF Shapes
<1>12. ClientInv'
  BY <1>1, <1>3, <1>7, Invs DEF ClientInv
<1>13. ServerInv'
  BY <1>1, <1>4, <1>5, <1>7, <1>10, Invs DEF ServerInv
<1> QED
  BY <1>11, <1>12, <1>13 DEF RequestInv

LEMMA BurstSendsKeeps ==
  ASSUME RequestInv, BurstSends
  PROVE  RequestInv'
<1>1. /\ client.kind = "burst" /\ lengths = << >>
      /\ UNCHANGED <<client, server, request, response, handled>>
      /\ lengths' = [i \in 1..Requests |-> 0] /\ up' = Burst(Requests)
  BY DEF BurstSends, serverVars, clientVars
<1>2. Requests \in Nat
  BY HttpAssumption
<1>3. Count = 0 /\ handled = [i \in 1..Count |-> i]
  BY <1>1, Invs DEF ClientInv
<1>4. ~server.parsing /\ ~server.handling /\ Comes /\ server.reader = NoReader /\ Waiting = 0
  BY <1>1, <1>3, Invs DEF ServerInv, Waiting
<1>5. server.buf = << >>
  <2>1. Burst(0) = << >>
    BY BurstIs
  <2> QED
    BY <1>1, <1>4, <2>1 DEF Comes, Nothing, BurstComes, RequestComes
<1>6. Count' = 0 /\ Waiting' = Requests /\ lengths' \in Seq(Nat) /\ Len(lengths') = Requests
  BY <1>1, <1>2, <1>3 DEF Count, Waiting
<1>7. BurstComes'
  BY <1>1, <1>4, <1>5, <1>6 DEF BurstComes
<1>8. Shapes'
  BY <1>1, Invs DEF Shapes
<1>9. ClientInv'
  BY <1>1, <1>2, <1>3, <1>6, Invs DEF ClientInv
<1>10. ServerInv'
  BY <1>1, <1>4, <1>6, <1>7, Invs DEF ServerInv, Comes
<1> QED
  BY <1>8, <1>9, <1>10 DEF RequestInv

(* The server's side. *)

LEMMA BodyIs ==
  ASSUME RequestInv, Count # 0
  PROVE  Body \in Nat /\ Count \in Nat /\ Sent(Body) \in Nat /\ Sent(Body) <= Body
<1>1. lengths \in Seq(Nat) /\ Count \in Nat /\ Count <= Len(lengths)
  BY Invs DEF ClientInv
<1>2. Body = lengths[Count] /\ Body \in Nat
  BY <1>1 DEF Body, Count
<1>3. CASE client.kind = "library"
  <2>1. lengths = <<client.length>> /\ client.next \in 1..client.length + 1
    BY <1>1, <1>3, Invs DEF ClientInv
  <2>2. Body = client.length
    BY <1>1, <1>2, <2>1
  <2> QED
    BY <1>1, <1>2, <1>3, <2>1, <2>2 DEF Sent
<1>4. CASE client.kind # "library"
  BY <1>1, <1>2, <1>4 DEF Sent
<1> QED
  BY <1>3, <1>4

LEMMA SameNumbers ==
  ASSUME client' = client, lengths' = lengths, handled' = handled
  PROVE  /\ Count' = Count /\ Waiting' = Waiting /\ Body' = Body /\ SameClient
         /\ \A b : Sent(b)' = Sent(b)
BY DEF Count, Waiting, Body, Sent, SameClient

LEMMA ClientKept ==
  ASSUME RequestInv, client' = client, lengths' = lengths, handled' = handled
  PROVE  ClientInv'
BY Invs DEF ClientInv, Count

LEMMA RequestUsedKeeps ==
  ASSUME RequestInv, RequestUsed
  PROVE  RequestInv'
<1>1. /\ server.parsing /\ UNCHANGED <<client, up, server, response, handled, lengths>>
      /\ (request' = Listens(request) \/ request' = Pauses(request))
  BY DEF RequestUsed, clientVars
<1>2. /\ IsMessage(request)' /\ request'.got = request.got /\ request'.buf = request.buf
      /\ request'.ends = request.ends /\ request'.endQueued = request.endQueued
      /\ request'.flowing /\ ~request'.drain => request.flowing /\ ~request.drain
  <2>1. PICK x : x = request'
    OBVIOUS
  <2>2. /\ IsMessage(x) /\ x.got = request.got /\ x.buf = request.buf
        /\ x.ends = request.ends /\ x.endQueued = request.endQueued
        /\ x.flowing /\ ~x.drain => request.flowing /\ ~request.drain
    BY <1>1, <2>1, UsedIs, Invs DEF Shapes
  <2> QED
    BY <2>1, <2>2 DEF IsMessage
<1>3. Shapes'
  BY <1>1, <1>2, Invs DEF Shapes
<1>4. ClientInv'
  BY <1>1, ClientKept
<1>5. Count' = Count /\ Waiting' = Waiting /\ Body' = Body /\ (\A b : Sent(b)' = Sent(b)) /\ (Comes => Comes')
  BY <1>1, SameNumbers, ComesKept
<1>6. \A b : Handling(b) => Handling(b)'
  BY <1>1, <1>2, <1>5 DEF Handling
<1>7. \A b : Reading(b) => Reading(b)'
  <2>1. \A b, g, r : Given(b, g, r) => Given(b, g, r)'
    BY <1>1, <1>2, <1>5 DEF Given
  <2> QED
    BY <1>1, <1>2, <1>5, <2>1 DEF Reading
<1>8. ServerInv'
  BY <1>1, <1>5, <1>6, <1>7, Invs DEF ServerInv
<1> QED
  BY <1>3, <1>4, <1>8 DEF RequestInv

LEMMA RequestTickKeeps ==
  ASSUME RequestInv, RequestTick
  PROVE  RequestInv'
<1>1. /\ ~server.handling /\ UNCHANGED <<client, up, server, response, handled, lengths>>
      /\ request' = ImDrained(request)
  BY DEF RequestTick, clientVars
<1>2. PICK m, x : m = request /\ x = request'
  OBVIOUS
<1>3. /\ IsMessage(m) /\ IsMessage(x) /\ x.flowing = m.flowing /\ ~x.drain
      /\ ~m.flowing => x.got = m.got /\ x.buf = m.buf /\ x.ends = m.ends /\ x.endQueued = m.endQueued
      /\ m.flowing => /\ x.got = m.got \o m.buf /\ x.buf = << >> /\ ~x.endQueued
                      /\ x.ends = m.ends \/ (m.endQueued /\ x.ends = m.ends + 1)
  BY <1>1, <1>2, DrainedIs, Invs DEF Shapes
<1>4. Shapes'
  BY <1>1, <1>2, <1>3, Invs DEF Shapes, IsMessage
<1>5. ClientInv'
  BY <1>1, ClientKept
<1>6. Count' = Count /\ Waiting' = Waiting /\ Body' = Body /\ (\A b : Sent(b)' = Sent(b)) /\ (Comes => Comes')
  BY <1>1, SameNumbers, ComesKept
<1>7. ASSUME server.parsing
      PROVE  Reading(Body)'
  <2>1. Reading(Body) /\ Count # 0
    BY <1>1, <1>7, Invs DEF ServerInv
  <2>2. Body \in Nat /\ Sent(Body) \in Nat /\ Sent(Body) <= Body
    BY <2>1, BodyIs
  <2>3. CASE Body = 0
    <3>1. m.got = << >> /\ m.buf = << >> /\ m.ends \in {0, 1} /\ ~m.endQueued /\ Comes
      BY <1>2, <2>1, <2>3 DEF Reading
    <3>2. x.got = << >> /\ x.buf = << >> /\ x.ends \in {0, 1} /\ ~x.endQueued
      <4>1. CASE m.flowing
        <5>1. m.got \o m.buf = << >>
          BY <3>1
        <5> QED
          BY <1>3, <3>1, <4>1, <5>1
      <4>2. CASE ~m.flowing
        BY <1>3, <3>1, <4>2
      <4> QED
        BY <4>1, <4>2
    <3> QED
      BY <1>2, <1>6, <2>3, <3>1, <3>2 DEF Reading
  <2>4. CASE Body # 0
    <3>1. PICK g \in Nat, r \in Nat : /\ Given(Body, g, r) /\ Waiting = 0 /\ server.buf = << >>
                                      /\ server.reader = ReaderAfter(Body, r)
      BY <2>1, <2>4 DEF Reading
    <3>2. /\ g <= r /\ r <= Sent(Body) /\ m.got = Bytes(1, g) /\ m.buf = Bytes(g + 1, r)
          /\ up = Bytes(r + 1, Sent(Body)) /\ m.ends \in {0, 1} /\ (m.endQueued => r = Body /\ m.ends = 0)
          /\ (m.ends = 1 => g = Body)
      BY <1>2, <3>1 DEF Given
    <3>3. CASE ~m.flowing
      <4>1. Given(Body, g, r)'
        BY <1>1, <1>2, <1>3, <1>6, <3>2, <3>3 DEF Given
      <4> QED
        BY <1>1, <1>6, <2>4, <3>1, <4>1 DEF Reading
    <3>4. CASE m.flowing
      <4>1. m.got \o m.buf = Bytes(1, r)
        <5>1. PICK d : d = g + 1
          OBVIOUS
        <5>2. Bytes(1, g) \o Bytes(d, r) = Bytes(1, r)
          <6>1. g \in Nat /\ r \in Nat /\ 1 \in Nat /\ 1 <= d /\ g <= r
            BY <3>1, <3>2, <5>1
          <6> QED
            BY <5>1, <6>1, BytesJoin
        <5> QED
          BY <3>2, <5>1, <5>2
      <4>2. x.buf = Bytes(r + 1, r)
        <5>1. PICK a : a = r + 1
          OBVIOUS
        <5>2. Bytes(a, r) = << >>
          BY <3>1, <5>1, BytesAre
        <5> QED
          BY <1>3, <3>4, <5>1, <5>2
      <4>3. x.ends \in {0, 1} /\ (x.ends = 1 => r = Body)
        BY <1>3, <2>2, <3>1, <3>2, <3>4
      <4>4. Given(Body, r, r)'
        <5>1. /\ request'.got = Bytes(1, r) /\ request'.buf = Bytes(r + 1, r) /\ ~request'.endQueued
              /\ up' = Bytes(r + 1, Sent(Body)) /\ r <= Sent(Body)
          BY <1>1, <1>2, <1>3, <3>2, <3>4, <4>1, <4>2
        <5> QED
          BY <1>2, <1>6, <3>1, <4>3, <5>1 DEF Given
      <4> QED
        BY <1>1, <1>6, <2>4, <3>1, <4>4 DEF Reading
    <3> QED
      BY <1>3, <3>3, <3>4 DEF IsMessage
  <2> QED
    BY <2>3, <2>4
<1>8. ServerInv'
  BY <1>1, <1>6, <1>7, Invs DEF ServerInv
<1> QED
  BY <1>4, <1>5, <1>8 DEF RequestInv

LEMMA EndKeeps ==
  ASSUME Habits = {}, RequestInv, ResEnd
  PROVE  RequestInv'
<1>1. /\ server.parsing /\ ~response.ended /\ (Body = 0 \/ request.ends > 0)
      /\ response' = [response EXCEPT !.ended = TRUE] /\ OnFinish
      /\ UNCHANGED <<client, up, request, handled, lengths>>
  BY DEF ResEnd, MayAnswer, clientVars
<1>2. /\ response'.ended = TRUE /\ response'.keepAlive = response.keepAlive
      /\ response' = [f \in ResponseFields |-> response'[f]]
  BY <1>1, ResponseIs DEF ResponseFields
<1>3. ClientInv'
  BY <1>1, ClientKept
<1>4. Count' = Count /\ Waiting' = Waiting /\ Body' = Body /\ (\A b : Sent(b)' = Sent(b)) /\ SameClient
  BY <1>1, SameNumbers
<1>5. Count # 0 /\ response.keepAlive = (client.kind # "library")
  BY <1>1, Invs DEF ServerInv
<1>6. CASE response.keepAlive
  <2>1. server' = [server EXCEPT !.parsing = FALSE, !.reader = NoReader] /\ client.kind # "library"
    BY <1>1, <1>5, <1>6 DEF OnFinish
  <2>2. /\ server'.parsing = FALSE /\ server'.reader = NoReader /\ server'.buf = server.buf
        /\ server'.handling = server.handling /\ server' = [f \in ServerFields |-> server'[f]]
    BY <2>1, ResponseIs DEF ServerFields
  <2>3. Shapes'
    BY <1>1, <1>2, <2>2, Invs DEF Shapes
  <2>4. Comes'
    <3>1. CASE Body = 0
      <4>1. Comes
        BY <1>1, <3>1, Invs DEF ServerInv, Handling, Reading
      <4> QED
        BY <1>1, <1>4, <2>2, <4>1, ComesKept
    <3>2. CASE Body # 0
      <4>1. ~server.handling /\ Reading(Body)
        BY <1>1, <3>2, Invs DEF ServerInv, Handling
      <4>2. PICK g \in Nat, r \in Nat : Given(Body, g, r) /\ Waiting = 0 /\ server.buf = << >>
        BY <3>2, <4>1 DEF Reading
      <4>3. Body \in Nat /\ Sent(Body) \in Nat /\ Sent(Body) <= Body
        BY <1>5, BodyIs
      <4>4. r = Body /\ Sent(Body) = Body /\ up = Bytes(r + 1, r)
        BY <1>1, <3>2, <4>2, <4>3 DEF Given
      <4>5. up = << >>
        <5>1. PICK a : a = r + 1
          OBVIOUS
        <5> QED
          BY <4>2, <4>4, <5>1, BytesAre
      <4> QED
        BY <1>1, <1>4, <2>2, <4>2, <4>5 DEF Comes, Nothing
    <3> QED
      BY <3>1, <3>2
  <2>5. ServerInv'
    BY <1>1, <1>2, <1>4, <1>5, <2>1, <2>2, <2>4 DEF ServerInv
  <2> QED
    BY <1>3, <2>3, <2>5 DEF RequestInv
<1>7. CASE ~response.keepAlive
  <2>1. server' = server /\ client.kind = "library"
    BY <1>1, <1>5, <1>7, Invs DEF OnFinish, ClientInv
  <2>2. Shapes'
    BY <1>1, <1>2, <2>1, Invs DEF Shapes
  <2>3. Comes => Comes'
    BY <1>1, <1>4, <2>1, ComesKept
  <2>4. \A b : Handling(b) => Handling(b)'
    BY <1>1, <1>4, <2>1, <2>3 DEF Handling
  <2>5. \A b : Reading(b) => Reading(b)'
    <3>1. \A b, g, r : Given(b, g, r) => Given(b, g, r)'
      BY <1>1, <1>4 DEF Given
    <3> QED
      BY <1>1, <1>4, <2>1, <2>3, <3>1 DEF Reading
  <2>6. ServerInv'
    BY <1>1, <1>2, <1>4, <1>5, <2>1, <2>4, <2>5, Invs DEF ServerInv
  <2> QED
    BY <1>3, <2>2, <2>6 DEF RequestInv
<1> QED
  BY <1>5, <1>6, <1>7

\* What is left in the buffer after a head, and on the way.
Follows(b, rest) ==
  IF b = 0 THEN \/ Waiting = 1 /\ rest = << >> /\ up' = << >>
                \/ client.kind = "burst" /\ rest = Burst(Waiting - 1) /\ up' = << >>
  ELSE /\ Waiting = 1
       /\ \E k \in Nat : k <= Sent(b) /\ rest = Bytes(1, k) /\ up' = Bytes(k + 1, Sent(b))

\* A head is found: the handler of the next request is called.
LEMMA ParsedKeeps ==
  ASSUME RequestInv, ~server.parsing, ~server.handling, client' = client, lengths' = lengths,
         client.kind = "library" => client.open, NEW b \in Nat, Waiting >= 1, lengths[Count + 1] = b,
         NEW buf, Len(buf) \in Nat, Len(buf) >= 2, buf[1] = Line, buf[2] = Head1(b),
         TryParse(buf, server.reader), NEW rest, rest = SubSeq(buf, 3, Len(buf)),
         Follows(b, rest)
  PROVE  RequestInv'
<1>1. HeadAt(buf) = 2
  BY HeadIsSecond
<1>2. /\ server' = [buf |-> rest, parsing |-> TRUE, reader |-> Reader(Head1(b).mode, b), handling |-> TRUE]
      /\ response' = [mode |-> "none", ended |-> FALSE, keepAlive |-> client.kind # "library", left |-> 0]
      /\ request' = NewMessage /\ handled' = Append(handled, Len(handled) + 1)
  <2>1. Head1(b).n = b /\ Slide(buf, 2) = rest
    BY DEF Head1, Slide
  <2> QED
    BY <1>1, <2>1 DEF TryParse
<1>3. /\ lengths \in Seq(Nat) /\ handled = [i \in 1..Count |-> i] /\ Count \in Nat
      /\ Count <= Len(lengths) /\ Waiting \in Nat /\ Waiting = Len(lengths) - Count
  BY Invs DEF ClientInv, Waiting
<1>4. /\ Count' = Count + 1 /\ Waiting' = Waiting - 1 /\ handled' = [i \in 1..Count + 1 |-> i]
  BY <1>2, <1>3 DEF Count, Waiting
<1>5. Body' = b /\ \A c : Sent(c)' = Sent(c)
  <2>1. Len(handled') = Count + 1
    BY <1>4 DEF Count
  <2> QED
    BY <2>1 DEF Body, Sent
<1>6. Shapes'
  <2>1. /\ request'.flowing = FALSE /\ request'.heard = FALSE /\ request'.drain = FALSE
        /\ request'.endQueued = FALSE /\ request' = [f \in MessageFields |-> request'[f]]
    BY <1>2 DEF NewMessage, MessageFields
  <2>2. IsMessage(request)'
    BY <2>1 DEF IsMessage
  <2>3. /\ server'.parsing = TRUE /\ server'.handling = TRUE
        /\ server' = [f \in ServerFields |-> server'[f]]
    BY <1>2 DEF ServerFields
  <2>4. response'.ended = FALSE /\ response' = [f \in ResponseFields |-> response'[f]]
    BY <1>2 DEF ResponseFields
  <2> QED
    BY <2>2, <2>3, <2>4, Invs DEF Shapes
<1>7. ClientInv'
  BY <1>3, <1>4, Invs DEF ClientInv
<1>8. Handling(b)'
  <2>1. /\ request'.got = << >> /\ request'.buf = << >> /\ request'.ends = 0 /\ ~request'.endQueued
    BY <1>2 DEF NewMessage
  <2>2. server'.reader = Reader(Head1(b).mode, b) /\ server'.buf = rest
    BY <1>2
  <2>3. CASE b = 0
    <3>1. CASE Waiting = 1 /\ rest = << >> /\ up' = << >>
      <4>1. Comes'
        BY <1>4, <2>2, <3>1 DEF Comes, Nothing
      <4> QED
        BY <2>1, <2>2, <2>3, <4>1 DEF Handling
    <3>2. CASE client.kind = "burst" /\ rest = Burst(Waiting - 1) /\ up' = << >>
      <4>1. BurstComes'
        BY <1>4, <2>2, <3>2 DEF BurstComes
      <4> QED
        BY <2>1, <2>2, <2>3, <4>1 DEF Handling, Comes
    <3> QED
      BY <2>3, <3>1, <3>2 DEF Follows
  <2>4. CASE b # 0
    <3>1. Waiting' = 0
      BY <1>4, <2>4 DEF Follows
    <3>2. PICK k \in Nat : k <= Sent(b) /\ rest = Bytes(1, k) /\ up' = Bytes(k + 1, Sent(b))
      BY <2>4 DEF Follows
    <3> QED
      BY <1>5, <2>1, <2>2, <2>4, <3>1, <3>2 DEF Handling
  <2> QED
    BY <2>3, <2>4
<1>9. ServerInv'
  <2>1. /\ server'.parsing /\ server'.handling /\ response'.keepAlive = (client.kind # "library")
        /\ response'.ended = FALSE
    BY <1>2
  <2>2. Count' # 0
    BY <1>3, <1>4
  <2> QED
    BY <1>5, <1>8, <2>1, <2>2 DEF ServerInv
<1> QED
  BY <1>6, <1>7, <1>9 DEF RequestInv

\* None is found, or a request is still being read.
LEMMA UnparsedIs ==
  ASSUME RequestInv, NEW buf, TryParse(buf, server.reader), server.parsing \/ HeadAt(buf) = 0
  PROVE  /\ UNCHANGED <<response, request, handled>>
         /\ server'.buf = buf /\ server'.parsing = server.parsing /\ server'.reader = server.reader
         /\ server'.handling = server.handling /\ server' = [f \in ServerFields |-> server'[f]]
<1>1. server' = [server EXCEPT !.buf = buf, !.reader = server.reader] /\ UNCHANGED <<response, request, handled>>
  BY DEF TryParse
<1> QED
  BY <1>1, ResponseIs DEF ServerFields

LEMMA RetryKeeps ==
  ASSUME RequestInv, Retry
  PROVE  RequestInv'
<1>1. /\ ~server.handling /\ TryParse(server.buf, server.reader)
      /\ client' = client /\ up' = up /\ lengths' = lengths
  BY DEF Retry, Quiet, clientVars
<1>2. CASE server.parsing \/ HeadAt(server.buf) = 0
  <2>1. server' = server /\ UNCHANGED <<response, request, handled>>
    BY <1>1, <1>2, ResponseIs DEF TryParse, ServerFields
  <2>2. SameServer /\ SameClient
    BY <1>1, <2>1 DEF SameServer, SameClient
  <2> QED
    BY <1>1, <2>1, <2>2, ResponseIs, Unmoved
<1>3. CASE ~server.parsing /\ HeadAt(server.buf) # 0
  <2>1. Comes
    BY <1>3, Invs DEF ServerInv
  <2>2. server.buf # << >> /\ server.buf # <<Line>>
    BY <1>3, NoHead
  <2>3. client.kind = "burst" /\ server.buf = Burst(Waiting) /\ up = << >>
    BY <2>1, <2>2 DEF Comes, Nothing, BurstComes, RequestComes
  <2>4. PICK w, j : w = Waiting /\ j = w - 1
    OBVIOUS
  <2>5. /\ w \in Nat /\ lengths \in Seq(Nat) /\ Count \in Nat /\ w = Len(lengths) - Count
        /\ \A i \in DOMAIN lengths : lengths[i] = 0
    BY <2>3, <2>4, Invs DEF ClientInv, Waiting
  <2>6. w # 0
    BY <2>2, <2>3, <2>4, BurstIs
  <2>7. lengths[Count + 1] = 0
    BY <2>5, <2>6
  <2>8. /\ Len(Burst(w)) = 2 * w /\ Burst(w)[1] = Line /\ Burst(w)[2] = Head1(0)
        /\ SubSeq(Burst(w), 3, Len(Burst(w))) = Burst(j)
    BY <2>4, <2>5, <2>6, BurstIs
  <2>9. PICK buf : buf = server.buf
    OBVIOUS
  <2>10. /\ Len(buf) \in Nat /\ Len(buf) >= 2 /\ buf[1] = Line /\ buf[2] = Head1(0)
         /\ SubSeq(buf, 3, Len(buf)) = Burst(Waiting - 1) /\ Waiting >= 1 /\ up' = << >>
    <3>1. buf = Burst(w) /\ w >= 1
      <4>1. w \in Nat /\ w # 0
        BY <2>5, <2>6
      <4>2. buf = Burst(w)
        BY <2>3, <2>4, <2>9
      <4> QED
        BY <4>1, <4>2
    <3>2. Len(buf) \in Nat /\ Len(buf) >= 2
      BY <2>5, <2>8, <3>1
    <3>3. SubSeq(buf, 3, Len(buf)) = Burst(Waiting - 1)
      BY <2>4, <2>8, <3>1
    <3> QED
      BY <1>1, <2>3, <2>4, <2>8, <3>1, <3>2, <3>3
  <2> QED
    <3>1. PICK z, rest : z = 0 /\ rest = SubSeq(buf, 3, Len(buf))
      OBVIOUS
    <3>2. Follows(z, rest) /\ z \in Nat
      BY <2>3, <2>10, <3>1 DEF Follows
    <3>3. TryParse(buf, server.reader) /\ lengths[Count + 1] = z /\ buf[2] = Head1(z)
      BY <1>1, <2>7, <2>9, <2>10, <3>1
    <3> QED
      BY <1>1, <1>3, <2>3, <2>10, <3>1, <3>2, <3>3, ParsedKeeps
<1> QED
  BY <1>2, <1>3

LEMMA IsBoolean ==
  ASSUME NEW v, NEW x, NEW y, v = (x <= y)
  PROVE  v \in BOOLEAN
BY SMT

LEMMA FedIs ==
  ASSUME NEW fed, NEW left, NEW part, NEW x, NEW y,
         fed = [r |-> left, given |-> part, done |-> x <= y]
  PROVE  fed.r = left /\ fed.given = part /\ fed.done \in BOOLEAN /\ (fed.done <=> x <= y)
<1>1. fed.r = left /\ fed.given = part
  BY Zenon
<1>2. fed.done = (x <= y)
  BY Zenon
<1>3. fed.done \in BOOLEAN
  BY <1>2, IsBoolean, Zenon
<1>4. fed.done <=> x <= y
  BY <1>2, Zenon
<1> QED
  BY <1>1, <1>3, <1>4, Zenon

\* Of a body of b bytes, r have come, and k more come, which are those from n to m.
Eats(b, r, k, m, n) == m = r + k /\ n = r + 1 /\ m <= b

\* The body's next bytes.
LEMMA FeedIs ==
  ASSUME NEW b \in Nat, NEW r \in Nat, NEW k \in Nat, NEW m, NEW n, Eats(b, r, k, m, n),
         NEW reader, reader = ReaderAfter(b, r), NEW fed, fed = Feed(reader, Bytes(n, m))
  PROVE  fed.r = ReaderAfter(b, m) /\ fed.given = Bytes(n, m) /\ (fed.done <=> m = b) /\ fed.done \in BOOLEAN
<1> USE DEF Eats
<1>1. PICK p : p = Bytes(n, m)
  OBVIOUS
<1>2. Len(p) = k /\ SubSeq(p, 1, k) = p
  <2>1. n \in Nat /\ m \in Nat /\ n <= m + 1 /\ m - n + 1 = k
    OBVIOUS
  <2>2. Len(p) = k
    BY <1>1, <2>1, BytesAre
  <2>3. p \in Seq({Byte(i) : i \in Nat})
    BY <1>1, <2>1 DEF Bytes
  <2> QED
    BY <2>2, <2>3
<1>3. /\ reader.mode = "length" /\ reader.remain = b - r /\ reader.acc = << >>
      /\ reader = [mode |-> "length", remain |-> b - r, acc |-> << >>]
  BY DEF ReaderAfter, Reader
<1>4. InBody(reader.remain, p) = k
  BY <1>2, <1>3 DEF InBody
<1>5. PICK left, part : left = [reader EXCEPT !.remain = @ - k] /\ part = SubSeq(p, 1, k)
  OBVIOUS
<1>6. fed = [r |-> left, given |-> part, done |-> reader.remain <= k]
  BY <1>1, <1>3, <1>4, <1>5 DEF Feed
<1>7. fed.r = left /\ fed.given = part /\ fed.done \in BOOLEAN /\ (fed.done <=> reader.remain <= k)
  BY <1>6, FedIs
<1>8. left = ReaderAfter(b, m)
  <2>1. [reader EXCEPT !.remain = @ - k] = [mode |-> "length", remain |-> b - m, acc |-> << >>]
    BY <1>3
  <2> QED
    BY <1>5, <2>1 DEF ReaderAfter, Reader
<1>9. (reader.remain <= k) <=> m = b
  BY <1>3
<1>10. fed.done \in BOOLEAN /\ (fed.done <=> m = b)
  BY <1>7, <1>9, Zenon
<1> QED
  BY <1>1, <1>2, <1>5, <1>7, <1>8, <1>10, Zenon

\* A listener has all of the body up to n - 1, or the buffer has what it has not.
LEMMA BytesTwo ==
  ASSUME NEW g \in Nat, NEW r \in Nat, g <= r, NEW n, n = r + 1, NEW m \in Nat, n <= m,
         NEW a, a = g + 1
  PROVE  Bytes(1, r) \o Bytes(n, m) = Bytes(1, m) /\ Bytes(a, r) \o Bytes(n, m) = Bytes(a, m)
<1>1. 1 \in Nat /\ 1 <= n /\ r <= m /\ a \in Nat /\ a <= n
  OBVIOUS
<1>2. Bytes(1, r) \o Bytes(n, m) = Bytes(1, m)
  BY <1>1 DEF Bytes
<1>3. Bytes(a, r) \o Bytes(n, m) = Bytes(a, m)
  BY <1>1 DEF Bytes
<1> QED
  BY <1>2, <1>3

\* What a message is given of its body.
LEMMA GivenMore ==
  ASSUME NEW b \in Nat, NEW g \in Nat, NEW r \in Nat, NEW k \in Nat, NEW m, m = r + k, NEW n, n = r + 1,
         NEW s \in BOOLEAN, s <=> m = b, g <= r, k # 0, IsMessage(request), request.got = Bytes(1, g), request.buf = Bytes(g + 1, r),
         request.flowing => g = r, request.ends = 0, ~request.endQueued,
         m <= Sent(b), Sent(b) <= b, Sent(b) \in Nat, Sent(b)' = Sent(b),
         request' = Emits(request, Bytes(n, m), s), up' = Bytes(m + 1, Sent(b))
  PROVE  IsMessage(request)' /\ \E h \in Nat : Given(b, h, m)'
<1>1. PICK x, q : x = request' /\ q = request
  OBVIOUS
<1>3. /\ IsMessage(x) /\ x.flowing = q.flowing /\ x.drain = q.drain
      /\ GivesOrKeeps(x, q, Bytes(n, m))
      /\ ~s => x.endQueued = q.endQueued /\ x.ends = q.ends
      /\ s /\ ~q.flowing /\ x.buf # << >> => x.endQueued /\ x.ends = q.ends
      /\ s /\ (q.flowing \/ x.buf = << >>) =>
           x.endQueued = q.endQueued /\ (x.ends = q.ends \/ x.ends = q.ends + 1)
  BY <1>1, EmitsIs
<1>4. IsMessage(request)'
  BY <1>1, <1>3 DEF IsMessage
<1>5. m \in Nat /\ n \in Nat /\ n <= m /\ r <= m /\ m <= b
  OBVIOUS
<1>6. CASE q.flowing
  <2>1. g = r /\ x.got = Bytes(1, g) \o Bytes(n, m) /\ x.buf = Bytes(g + 1, r)
    BY <1>1, <1>3, <1>6 DEF GivesOrKeeps
  <2>2. x.got = Bytes(1, m)
    <3>1. PICK a : a = g + 1
      OBVIOUS
    <3>2. Bytes(1, r) \o Bytes(n, m) = Bytes(1, m)
      BY <1>5, <3>1, BytesTwo
    <3> QED
      BY <2>1, <3>2
  <2>3. Bytes(n, r) = << >> /\ Bytes(m + 1, m) = << >>
    <3>1. PICK a : a = m + 1
      OBVIOUS
    <3>2. Bytes(a, m) = << >>
      BY <1>5, <3>1, BytesAre
    <3>3. Bytes(n, r) = << >>
      BY <1>5, BytesAre
    <3> QED
      BY <3>1, <3>2, <3>3
  <2>4. x.buf = Bytes(m + 1, m)
    BY <2>1, <2>3
  <2>5. ~x.endQueued /\ x.ends \in {0, 1} /\ (x.ends = 1 => m = b)
    BY <1>1, <1>3, <1>6
  <2>6. Given(b, m, m)'
    BY <1>1, <1>5, <2>2, <2>4, <2>5 DEF Given
  <2> QED
    BY <1>4, <1>5, <2>6
<1>7. CASE ~q.flowing
  <2>1. x.got = Bytes(1, g) /\ x.buf = Bytes(g + 1, r) \o Bytes(n, m)
    BY <1>1, <1>3, <1>7 DEF GivesOrKeeps
  <2>2. x.buf = Bytes(g + 1, m) /\ x.buf # << >>
    <3>1. PICK a : a = g + 1
      OBVIOUS
    <3>2. a \in Nat /\ a <= n /\ a <= m
      BY <1>5, <3>1
    <3>3. Bytes(a, r) \o Bytes(n, m) = Bytes(a, m)
      BY <1>5, <3>1, BytesTwo
    <3>4. Bytes(a, m) # << >>
      <4>1. Len(Bytes(a, m)) = m - a + 1
        BY <1>5, <3>2, BytesAre
      <4> QED
        BY <1>5, <3>2, <4>1
    <3> QED
      BY <2>1, <3>1, <3>3, <3>4
  <2>3. ~x.flowing /\ x.ends = 0 /\ (x.endQueued => m = b)
    BY <1>1, <1>3, <1>7, <2>2
  <2>4. Given(b, g, m)'
    BY <1>1, <1>5, <2>1, <2>2, <2>3 DEF Given
  <2> QED
    BY <1>4, <2>4
<1> QED
  BY <1>1, <1>6, <1>7 DEF IsMessage

LEMMA AfterHandlerKeeps ==
  ASSUME RequestInv, AfterHandler
  PROVE  RequestInv'
<1>1. server.handling /\ UNCHANGED <<client, up, response, handled, lengths>>
  BY DEF AfterHandler, clientVars
<1>2. Count # 0 /\ ClientInv'
  BY <1>1, ClientKept, Invs DEF ServerInv
<1>3. Count' = Count /\ Waiting' = Waiting /\ Body' = Body /\ (\A b : Sent(b)' = Sent(b)) /\ SameClient
  BY <1>1, SameNumbers
<1>4. PICK reader, fed : reader = server.reader /\ fed = Feed(server.reader, server.buf)
  OBVIOUS
<1>5. CASE ~server.parsing
  <2>1. server.reader = NoReader /\ Comes
    BY <1>5, Invs DEF ServerInv
  <2>2. server' = [server EXCEPT !.handling = FALSE] /\ request' = request
    BY <2>1 DEF AfterHandler, NoReader
  <2>3. /\ server'.parsing = server.parsing /\ server'.reader = NoReader /\ server'.buf = server.buf
        /\ server'.handling = FALSE /\ server' = [f \in ServerFields |-> server'[f]]
    BY <2>1, <2>2, ResponseIs DEF ServerFields
  <2>4. Comes'
    BY <1>1, <1>3, <2>1, <2>3, ComesKept
  <2>5. Shapes'
    BY <1>1, <2>2, <2>3, Invs DEF Shapes
  <2>6. ServerInv'
    BY <1>1, <1>2, <1>3, <1>5, <2>3, <2>4, Invs DEF ServerInv
  <2> QED
    BY <1>2, <2>5, <2>6 DEF RequestInv
<1>6. CASE server.parsing
  <2>1. Handling(Body)
    BY <1>1, <1>6, Invs DEF ServerInv
  <2>2. Body \in Nat /\ Sent(Body) \in Nat /\ Sent(Body) <= Body
    BY <1>2, BodyIs
  <2>3. /\ request.got = << >> /\ request.buf = << >> /\ request.ends = 0 /\ ~request.endQueued
        /\ reader = Reader(Head1(Body).mode, Body) /\ IsMessage(request)
    BY <1>4, <2>1, Invs DEF Handling, Shapes
  <2>4. CASE Body = 0
    <3>1. reader.mode = "eof"
      BY <2>3, <2>4 DEF Reader, Head1
    <3>2. server' = [server EXCEPT !.handling = FALSE] /\ request' = Emits(request, << >>, TRUE)
      BY <1>4, <3>1 DEF AfterHandler, NoBody
    <3>3. /\ server'.parsing = server.parsing /\ server'.buf = server.buf
          /\ server'.handling = FALSE /\ server' = [f \in ServerFields |-> server'[f]]
      BY <3>2, ResponseIs DEF ServerFields
    <3>4. /\ IsMessage(request') /\ request'.got = << >> /\ request'.buf = << >>
          /\ ~request'.endQueued /\ request'.ends \in {0, 1}
      <4>1. PICK x, q, e, t : x = request' /\ q = request /\ e = << >> /\ t = TRUE
        OBVIOUS
      <4>2. /\ IsMessage(x) /\ GivesOrKeeps(x, q, e)
            /\ t /\ (q.flowing \/ x.buf = << >>) =>
                 x.endQueued = q.endQueued /\ (x.ends = q.ends \/ x.ends = q.ends + 1)
        <5>1. t \in BOOLEAN /\ x = Emits(q, e, t) /\ IsMessage(q)
          BY <2>3, <3>2, <4>1
        <5> QED
          BY <5>1, EmitsIs
      <4>3. x.got = << >> /\ x.buf = << >>
        <5>1. e \o e = e
          BY <4>1
        <5> QED
          BY <2>3, <4>1, <4>2, <5>1 DEF GivesOrKeeps
      <4> QED
        BY <2>3, <4>1, <4>2, <4>3
    <3>5. Comes'
      <4>1. Comes
        BY <2>1, <2>4 DEF Handling
      <4> QED
        BY <1>1, <1>3, <3>3, <4>1, ComesKept
    <3>6. Reading(Body)'
      BY <1>3, <2>4, <3>4, <3>5 DEF Reading
    <3>7. Shapes'
      BY <1>1, <1>6, <3>3, <3>4, Invs DEF Shapes, IsMessage
    <3>8. ServerInv'
      BY <1>1, <1>2, <1>3, <1>6, <3>3, <3>6, Invs DEF ServerInv
    <3> QED
      BY <1>2, <3>7, <3>8 DEF RequestInv
  <2>5. CASE Body # 0
    <3>1. PICK k \in Nat : /\ k <= Sent(Body) /\ server.buf = Bytes(1, k)
                           /\ up = Bytes(k + 1, Sent(Body)) /\ Waiting = 0
      BY <2>1, <2>5 DEF Handling
    <3>2. reader = Reader("length", Body) /\ reader.mode = "length" /\ ~NoBody(reader)
      BY <2>2, <2>3, <2>5 DEF Reader, Head1, NoBody
    <3>3. CASE k = 0
      <4>1. server.buf = << >>
        BY <3>1, <3>3, BytesAre
      <4>2. server' = [server EXCEPT !.handling = FALSE] /\ request' = request
        BY <1>4, <3>2, <4>1 DEF AfterHandler
      <4>3. /\ server'.parsing = server.parsing /\ server'.buf = << >> /\ server'.reader = reader
            /\ server'.handling = FALSE /\ server' = [f \in ServerFields |-> server'[f]]
        BY <1>4, <4>1, <4>2, ResponseIs DEF ServerFields
      <4>4. Given(Body, 0, 0)'
        <5>1. Bytes(1, 0) = << >>
          BY BytesAre
        <5> QED
          BY <1>1, <1>3, <2>2, <2>3, <3>1, <3>3, <4>2, <5>1 DEF Given
      <4>5. reader = ReaderAfter(Body, 0)
        BY <2>2, <3>2 DEF ReaderAfter, Reader
      <4>6. Reading(Body)'
        BY <1>3, <2>5, <3>1, <4>3, <4>4, <4>5 DEF Reading
      <4>7. Shapes'
        BY <1>1, <1>6, <4>2, <4>3, Invs DEF Shapes
      <4>8. ServerInv'
        BY <1>1, <1>2, <1>3, <1>6, <4>3, <4>6, Invs DEF ServerInv
      <4> QED
        BY <1>2, <4>7, <4>8 DEF RequestInv
    <3>4. CASE k # 0
      <4>1. server.buf # << >>
        <5>1. PICK n : n = 1
          OBVIOUS
        <5>2. n \in Nat /\ k \in Nat /\ n <= k + 1 /\ k - n + 1 # 0
          BY <3>4, <5>1
        <5>3. Len(Bytes(n, k)) = k - n + 1
          BY <5>2, BytesAre
        <5> QED
          BY <3>1, <5>1, <5>2, <5>3
      <4>2. /\ server' = [server EXCEPT !.handling = FALSE, !.buf = << >>, !.reader = fed.r]
            /\ request' = Emits(request, fed.given, fed.done)
        BY <1>4, <3>2, <4>1 DEF AfterHandler
      <4>3. /\ server'.parsing = server.parsing /\ server'.buf = << >> /\ server'.reader = fed.r
            /\ server'.handling = FALSE /\ server' = [f \in ServerFields |-> server'[f]]
        BY <4>2, ResponseIs DEF ServerFields
      <4>4. PICK z, n, b : z = 0 /\ n = 1 /\ b = Body
        OBVIOUS
      <4>5. /\ fed.r = ReaderAfter(b, k) /\ fed.given = Bytes(n, k)
            /\ (fed.done <=> k = b) /\ fed.done \in BOOLEAN
        <5>1. reader = ReaderAfter(b, z)
          BY <2>2, <3>2, <4>4 DEF ReaderAfter, Reader
        <5>2. fed = Feed(reader, Bytes(n, k)) /\ Eats(b, z, k, k, n)
          BY <1>4, <2>2, <3>1, <4>4 DEF Eats
        <5>3. b \in Nat /\ z \in Nat /\ k \in Nat
          BY <2>2, <4>4
        <5> QED
          BY <5>1, <5>2, <5>3, FeedIs
      <4>6. request.got = Bytes(1, z) /\ request.buf = Bytes(z + 1, z)
        <5>1. Bytes(1, z) = << >> /\ Bytes(z + 1, z) = << >>
          BY <4>4 DEF Bytes
        <5> QED
          BY <2>3, <5>1
      <4>7. request' = Emits(request, Bytes(n, k), fed.done)
        BY <4>2, <4>5
      <4>8. IsMessage(request)' /\ \E h \in Nat : Given(b, h, k)'
        <5>1. /\ b \in Nat /\ z \in Nat /\ k = z + k /\ n = z + 1 /\ z <= z /\ up' = Bytes(k + 1, Sent(b))
              /\ (request.flowing => z = z) /\ Sent(b)' = Sent(b) /\ k <= Sent(b)
              /\ Sent(b) <= b /\ Sent(b) \in Nat
          BY <1>1, <1>3, <2>2, <3>1, <4>4
        <5> QED
          BY <2>3, <3>4, <4>5, <4>6, <4>7, <5>1, GivenMore
      <4>9. Reading(Body)'
        BY <1>3, <2>5, <3>1, <4>3, <4>4, <4>5, <4>8 DEF Reading
      <4>10. Shapes'
        BY <1>1, <1>6, <4>3, <4>8, Invs DEF Shapes
      <4>11. ServerInv'
        BY <1>1, <1>2, <1>3, <1>6, <4>3, <4>9, Invs DEF ServerInv
      <4> QED
        BY <1>2, <4>10, <4>11 DEF RequestInv
    <3> QED
      BY <3>3, <3>4
  <2> QED
    BY <2>4, <2>5
<1> QED
  BY <1>5, <1>6

\* Of the bytes n..t, the first k come: those up to m; d is the next.
Cut(n, t, k, m, d) == k \in 1..t - n + 1 /\ m = n + k - 1 /\ d = m + 1

LEMMA PieceIs ==
  ASSUME NEW n \in Nat, NEW t \in Nat, NEW k, NEW m, NEW d, Cut(n, t, k, m, d)
  PROVE  SubSeq(Bytes(n, t), 1, k) = Bytes(n, m)
BY DEF Cut, Bytes

LEMMA RestIs ==
  ASSUME NEW n \in Nat, NEW t \in Nat, NEW k, NEW m, NEW d, Cut(n, t, k, m, d)
  PROVE  SubSeq(Bytes(n, t), k + 1, Len(Bytes(n, t))) = Bytes(d, t)
<1>1. k \in 1..t - n + 1 /\ m = n + k - 1 /\ d = m + 1
  BY DEF Cut
<1>2. Len(Bytes(n, t)) = t - n + 1
  BY <1>1 DEF Bytes
<1> QED
  BY <1>1, <1>2 DEF Bytes

\* A piece of the body comes.
LEMMA DataReads ==
  ASSUME RequestInv, server.parsing, ServerData
  PROVE  RequestInv'
<1>1. /\ ~server.handling /\ ~request.drain /\ up # << >>
      /\ client' = client /\ lengths' = lengths
  BY DEF ServerData, Quiet, clientVars
<1>2. PICK k \in IF client.kind = "burst" THEN {Len(up)} ELSE 1..Len(up) :
        /\ up' = SubSeq(up, k + 1, Len(up))
        /\ server' = [server EXCEPT !.reader = Feed(server.reader, SubSeq(up, 1, k)).r]
        /\ request' = Emits(request, Feed(server.reader, SubSeq(up, 1, k)).given,
                                     Feed(server.reader, SubSeq(up, 1, k)).done)
        /\ UNCHANGED <<response, handled, put>>
  BY DEF ServerData
<1>3. handled' = handled /\ response' = response
  BY <1>2
<1>4. Count' = Count /\ Waiting' = Waiting /\ Body' = Body /\ (\A b : Sent(b)' = Sent(b)) /\ SameClient
  BY <1>1, <1>3, SameNumbers
<1>5. Reading(Body) /\ Count # 0
  BY <1>1, Invs DEF ServerInv
<1>6. PICK b, t : b = Body /\ t = Sent(b)
  OBVIOUS
<1>7. b \in Nat /\ t \in Nat /\ t <= b
  BY <1>5, <1>6, BodyIs
<1>8. b # 0
  <2>1. SUFFICES ASSUME b = 0
                 PROVE  FALSE
    OBVIOUS
  <2>2. Comes
    BY <1>5, <1>6, <2>1 DEF Reading
  <2>3. up = << >>
    BY <2>2 DEF Comes, Nothing, BurstComes
  <2> QED
    BY <1>1, <2>3
<1>9. PICK g \in Nat, r \in Nat : Given(b, g, r) /\ server.reader = ReaderAfter(b, r)
  BY <1>5, <1>6, <1>8 DEF Reading
<1>10. Waiting = 0 /\ server.buf = << >>
  BY <1>5, <1>6, <1>8 DEF Reading
<1>11. /\ g <= r /\ r <= t /\ request.got = Bytes(1, g) /\ request.buf = Bytes(g + 1, r)
       /\ up = Bytes(r + 1, t) /\ (request.flowing => g = r) /\ request.ends \in {0, 1}
       /\ (request.endQueued => r = b) /\ (request.ends = 1 => g = b)
  BY <1>1, <1>6, <1>9 DEF Given
<1>12. PICK n, m, d : n = r + 1 /\ m = r + k /\ d = m + 1
  OBVIOUS
<1>13. n \in Nat /\ up = Bytes(n, t) /\ Len(up) = t - n + 1 /\ Len(up) # 0
  <2>1. n \in Nat /\ n <= t + 1
    BY <1>7, <1>11, <1>12
  <2>2. up = Bytes(n, t)
    BY <1>11, <1>12
  <2>3. Len(Bytes(n, t)) = t - n + 1
    BY <1>7, <2>1, BytesAre
  <2>4. t - n + 1 # 0
    <3>1. SUFFICES ASSUME t - n + 1 = 0
                   PROVE  FALSE
      OBVIOUS
    <3>2. n = t + 1
      BY <1>7, <2>1, <3>1
    <3>3. Bytes(n, t) = << >>
      BY <1>7, <2>1, <3>2, BytesAre
    <3> QED
      BY <1>1, <2>2, <3>3
  <2> QED
    BY <2>1, <2>2, <2>3, <2>4
<1>14. k \in 1..t - n + 1
  BY <1>7, <1>11, <1>12, <1>13
<1>15. k \in Nat /\ k # 0 /\ m \in Nat /\ m <= t /\ m <= b /\ r < b
  BY <1>7, <1>11, <1>12, <1>14
<1>16. SubSeq(up, 1, k) = Bytes(n, m) /\ up' = Bytes(d, t)
  <2>1. n \in Nat /\ t \in Nat /\ Cut(n, t, k, m, d)
    BY <1>7, <1>12, <1>13, <1>14, <1>15 DEF Cut
  <2>2. SubSeq(Bytes(n, t), 1, k) = Bytes(n, m)
    BY <2>1, PieceIs
  <2>3. SubSeq(Bytes(n, t), k + 1, Len(Bytes(n, t))) = Bytes(d, t)
    BY <2>1, RestIs
  <2> QED
    BY <1>2, <1>13, <2>2, <2>3
<1>17. PICK reader, fed : reader = server.reader /\ fed = Feed(reader, Bytes(n, m))
  OBVIOUS
<1>18. fed.r = ReaderAfter(b, m) /\ fed.given = Bytes(n, m) /\ (fed.done <=> m = b) /\ fed.done \in BOOLEAN
  <2>1. /\ b \in Nat /\ r \in Nat /\ k \in Nat /\ Eats(b, r, k, m, n) /\ reader = ReaderAfter(b, r)
        /\ fed = Feed(reader, Bytes(n, m))
    BY <1>7, <1>9, <1>12, <1>15, <1>17 DEF Eats
  <2> QED
    BY <2>1, FeedIs
<1>19. server' = [server EXCEPT !.reader = fed.r] /\ request' = Emits(request, Bytes(n, m), fed.done)
  BY <1>2, <1>16, <1>17, <1>18
<1>20. /\ server'.buf = << >> /\ server'.parsing = server.parsing /\ server'.reader = ReaderAfter(b, m)
       /\ server'.handling = server.handling /\ server' = [f \in ServerFields |-> server'[f]]
  BY <1>10, <1>18, <1>19, ResponseIs DEF ServerFields
<1>21. IsMessage(request)' /\ \E h \in Nat : Given(b, h, m)'
  <2>1. /\ m = r + k /\ n = r + 1 /\ g <= r /\ up' = Bytes(m + 1, Sent(b))
        /\ Sent(b)' = Sent(b) /\ m <= Sent(b) /\ Sent(b) <= b /\ Sent(b) \in Nat
    BY <1>4, <1>6, <1>7, <1>11, <1>12, <1>15, <1>16
  <2>2. IsMessage(request) /\ request.ends = 0 /\ ~request.endQueued
    <3>1. request.ends # 1 /\ ~request.endQueued
      BY <1>11, <1>15
    <3> QED
      BY <1>11, <3>1, Invs DEF Shapes
  <2> QED
    BY <1>7, <1>11, <1>15, <1>18, <1>19, <2>1, <2>2, GivenMore
<1>22. Reading(Body)'
  BY <1>4, <1>6, <1>8, <1>10, <1>15, <1>20, <1>21 DEF Reading
<1>23. Shapes'
  BY <1>1, <1>3, <1>20, <1>21, Invs DEF Shapes
<1>24. ServerInv'
  BY <1>1, <1>3, <1>4, <1>20, <1>22, Invs DEF ServerInv
<1>25. ClientInv'
  BY <1>1, <1>3, ClientKept
<1> QED
  BY <1>23, <1>24, <1>25 DEF RequestInv

\* The head has come, and j bytes of its body with it.
LEMMA HeadArrives ==
  ASSUME RequestInv, ~server.parsing, ~server.handling, client' = client, lengths' = lengths,
         NEW b \in Nat, RequestComes(b), up # << >>, NEW t \in Nat, t = Sent(b), t <= b,
         NEW j \in Nat, j <= t, NEW buf, buf = Opening(b, j), TryParse(buf, server.reader),
         up' = Bytes(j + 1, t)
  PROVE  RequestInv'
<1>1. /\ Waiting = 1 /\ lengths[Count + 1] = b /\ (client.kind = "library" => client.open)
  BY DEF RequestComes, Nothing
<1>2. Len(buf) = j + 2 /\ buf[1] = Line /\ buf[2] = Head1(b)
  BY OpeningIs
<1>3. PICK rest : rest = SubSeq(buf, 3, Len(buf))
  OBVIOUS
<1>4. rest = Bytes(1, j)
  BY <1>3, OpeningIs
<1>5. Follows(b, rest)
  <2>1. CASE b = 0
    <3>1. j = 0 /\ t = 0
      BY <2>1
    <3>2. Bytes(1, 0) = << >>
      BY DEF Bytes
    <3> QED
      BY <1>1, <1>4, <2>1, <3>1, <3>2 DEF Follows
  <2>2. CASE b # 0
    BY <1>1, <1>4, <2>2 DEF Follows
  <2> QED
    BY <2>1, <2>2
<1>6. Len(buf) \in Nat /\ Len(buf) >= 2 /\ Waiting >= 1
  BY <1>1, <1>2
<1> QED
  BY <1>1, <1>2, <1>3, <1>5, <1>6, ParsedKeeps

\* Only the request line has come.
LEMMA LineArrives ==
  ASSUME RequestInv, ~server.parsing, ~server.handling, client' = client, lengths' = lengths,
         NEW b \in Nat, RequestComes(b), up # << >>,
         NEW buf, buf = <<Line>>, TryParse(buf, server.reader), up' = Headed(b, Sent(b))
  PROVE  RequestInv'
<1>1. /\ Waiting = 1 /\ lengths[Count + 1] = b /\ (client.kind = "library" => client.open)
      /\ client.kind # "burst"
  BY DEF RequestComes, Nothing
<1>2. HeadAt(buf) = 0
  BY NoHead
<1>3. /\ UNCHANGED <<response, request, handled>>
      /\ server'.buf = buf /\ server'.parsing = server.parsing /\ server'.reader = server.reader
      /\ server'.handling = server.handling /\ server' = [f \in ServerFields |-> server'[f]]
  BY <1>2, UnparsedIs
<1>4. Count' = Count /\ Waiting' = Waiting /\ (Sent(b))' = Sent(b)
  BY <1>3, SameNumbers
<1>5. RequestComes(b)'
  BY <1>1, <1>3, <1>4 DEF RequestComes
<1>6. Comes'
  BY <1>3, <1>5 DEF Comes
<1>7. Shapes' /\ ClientInv'
  BY <1>3, ClientKept, Invs DEF Shapes
<1>8. ServerInv'
  BY <1>3, <1>4, <1>6, Invs DEF ServerInv
<1> QED
  BY <1>7, <1>8 DEF RequestInv

\* Tokens come while no request is read.
LEMMA DataComes ==
  ASSUME RequestInv, ~server.parsing, ServerData
  PROVE  RequestInv'
<1>1. /\ ~server.handling /\ up # << >>
      /\ client' = client /\ lengths' = lengths
  BY DEF ServerData, Quiet, clientVars
<1>2. PICK k \in IF client.kind = "burst" THEN {Len(up)} ELSE 1..Len(up) :
        /\ up' = SubSeq(up, k + 1, Len(up))
        /\ TryParse(server.buf \o SubSeq(up, 1, k), server.reader)
  BY DEF ServerData
<1>3. Comes
  BY Invs DEF ServerInv
<1>4. /\ lengths \in Seq(Nat) /\ Count \in Nat /\ Count <= Len(lengths) /\ Waiting = Len(lengths) - Count
      /\ Waiting \in Nat
  BY Invs DEF ClientInv, Waiting
<1>5. CASE BurstComes
  <2>1. client.kind = "burst" /\ server.buf = << >> /\ up = Burst(Waiting) /\ k = Len(up)
    BY <1>1, <1>2, <1>5 DEF BurstComes
  <2>2. PICK w, j : w = Waiting /\ j = w - 1
    OBVIOUS
  <2>3. w # 0
    BY <1>1, <1>4, <2>1, <2>2, BurstIs
  <2>4. lengths[Count + 1] = 0
    <3>1. \A i \in DOMAIN lengths : lengths[i] = 0
      BY <2>1, Invs DEF ClientInv
    <3> QED
      BY <1>4, <2>2, <2>3, <3>1
  <2>5. /\ Len(Burst(w)) = 2 * w /\ Burst(w)[1] = Line /\ Burst(w)[2] = Head1(0)
        /\ SubSeq(Burst(w), 3, Len(Burst(w))) = Burst(j)
    BY <1>4, <2>2, <2>3, BurstIs
  <2>6. Burst(w) = << >> \o SubSeq(Burst(w), 1, Len(Burst(w)))
        /\ SubSeq(Burst(w), Len(Burst(w)) + 1, Len(Burst(w))) = << >>
    BY <1>4, <2>2, <2>5 DEF Burst
  <2>7. PICK z, buf, rest : z = 0 /\ buf = Burst(w) /\ rest = SubSeq(buf, 3, Len(buf))
    OBVIOUS
  <2>8. TryParse(buf, server.reader) /\ up' = << >>
    <3>1. server.buf \o SubSeq(up, 1, k) = buf
      BY <2>1, <2>2, <2>6, <2>7
    <3> QED
      BY <1>2, <2>1, <2>2, <2>6, <3>1
  <2>9. Follows(z, rest)
    BY <2>1, <2>2, <2>5, <2>7, <2>8 DEF Follows
  <2>10. Len(buf) \in Nat /\ Len(buf) >= 2 /\ Waiting >= 1
    BY <1>4, <2>2, <2>3, <2>5, <2>7
  <2>11. lengths[Count + 1] = z /\ buf[1] = Line /\ buf[2] = Head1(z) /\ z \in Nat
    BY <2>4, <2>5, <2>7
  <2> QED
    BY <1>1, <2>1, <2>7, <2>8, <2>9, <2>10, <2>11, ParsedKeeps
<1>6. CASE \E b \in Nat : RequestComes(b)
  <2>1. PICK b \in Nat : RequestComes(b)
    BY <1>6
  <2>2. /\ Waiting = 1 /\ lengths[Count + 1] = b /\ client.kind # "burst"
        /\ \/ server.buf = << >> /\ up = Opening(b, Sent(b))
           \/ server.buf = <<Line>> /\ up = Headed(b, Sent(b))
    BY <1>1, <2>1 DEF RequestComes, Nothing
  <2>3. PICK t : t = Sent(b)
    OBVIOUS
  <2>4. t \in Nat /\ t <= b
    <3>1. CASE client.kind = "library"
      <4>1. lengths = <<client.length>> /\ client.next \in 1..client.length + 1
        <5>1. client.started
          <6>1. Len(lengths) # 0
            BY <1>4, <2>2
          <6> QED
            BY <3>1, <6>1, Invs DEF ClientInv
        <5> QED
          BY <3>1, <5>1, Invs DEF ClientInv
      <4>2. Count = 0 /\ b = client.length
        BY <1>4, <2>2, <4>1
      <4> QED
        BY <2>3, <3>1, <4>1, <4>2 DEF Sent
    <3>2. CASE client.kind # "library"
      BY <2>3, <3>2 DEF Sent
    <3> QED
      BY <3>1, <3>2
  <2>5. k \in 1..Len(up)
    BY <1>2, <2>2
  <2>6. CASE server.buf = << >> /\ up = Opening(b, t)
    <3>1. Len(up) = t + 2 /\ k \in 1..t + 2
      BY <2>4, <2>5, <2>6, OpeningIs
    <3>2. CASE k = 1
      <4>1. SubSeq(up, 1, k) = <<Line>> /\ up' = Headed(b, t)
        <5>1. /\ SubSeq(Opening(b, t), 1, 1) = <<Line>>
              /\ SubSeq(Opening(b, t), 2, Len(Opening(b, t))) = Headed(b, t)
          BY <2>4, OpeningCut
        <5>2. k + 1 = 2
          BY <3>2
        <5> QED
          BY <1>2, <2>6, <3>2, <5>1, <5>2
      <4>2. PICK buf : buf = <<Line>>
        OBVIOUS
      <4>3. server.buf \o SubSeq(up, 1, k) = buf
        BY <2>6, <4>1, <4>2
      <4> QED
        BY <1>1, <1>2, <2>1, <2>3, <4>1, <4>2, <4>3, LineArrives
    <3>3. CASE k # 1
      <4>1. PICK j : j = k - 2
        OBVIOUS
      <4>2. k \in 2..t + 2 /\ j \in Nat /\ j <= t /\ k - 1 = j + 1
        BY <2>4, <3>1, <3>3, <4>1
      <4>3. SubSeq(up, 1, k) = Opening(b, j) /\ up' = Bytes(j + 1, t)
        <5>1. /\ SubSeq(Opening(b, t), 1, k) = Opening(b, k - 2)
              /\ SubSeq(Opening(b, t), k + 1, Len(Opening(b, t))) = Bytes(k - 1, t)
          BY <2>4, <4>2, OpeningCut, Zenon
        <5>2. k - 2 = j /\ k - 1 = j + 1
          BY <4>1, <4>2
        <5> QED
          BY <1>2, <2>6, <5>1, <5>2
      <4>4. server.buf \o Opening(b, j) = Opening(b, j)
        BY <2>6, <4>2 DEF Opening
      <4>5. PICK buf : buf = Opening(b, j)
        OBVIOUS
      <4>6. TryParse(buf, server.reader)
        BY <1>2, <4>3, <4>4, <4>5
      <4> QED
        BY <1>1, <2>1, <2>3, <2>4, <4>2, <4>3, <4>5, <4>6, HeadArrives
    <3> QED
      BY <3>2, <3>3
  <2>7. CASE server.buf = <<Line>> /\ up = Headed(b, t)
    <3>1. Len(up) = t + 1 /\ k \in 1..t + 1
      BY <2>4, <2>5, <2>7, OpeningIs
    <3>2. PICK j : j = k - 1
      OBVIOUS
    <3>3. j \in Nat /\ j <= t /\ k = j + 1
      BY <2>4, <3>1, <3>2
    <3>4. SubSeq(up, 1, k) = Headed(b, j) /\ up' = Bytes(j + 1, t)
      <4>1. SubSeq(up, 1, k) = Headed(b, k - 1) /\ SubSeq(up, k + 1, Len(up)) = Bytes(k, t)
        BY <2>4, <2>7, <3>1, OpeningCut
      <4> QED
        BY <1>2, <3>2, <3>3, <4>1
    <3>5. PICK buf : buf = Opening(b, j)
      OBVIOUS
    <3>6. server.buf \o SubSeq(up, 1, k) = buf
      BY <2>7, <3>3, <3>4, <3>5, OpeningIs
    <3>7. TryParse(buf, server.reader)
      BY <1>2, <3>6
    <3> QED
      BY <1>1, <2>1, <2>3, <2>4, <3>3, <3>4, <3>5, <3>7, HeadArrives
  <2> QED
    BY <2>2, <2>3, <2>6, <2>7
<1> QED
  BY <1>1, <1>3, <1>5, <1>6 DEF Comes, Nothing

LEMMA ServerDataKeeps ==
  ASSUME RequestInv, ServerData
  PROVE  RequestInv'
BY DataReads, DataComes

\* At first nothing is under way.
LEMMA InitKeeps ==
  ASSUME HttpInit
  PROVE  RequestInv
<1>1. /\ up = << >> /\ lengths = << >> /\ handled = << >>
      /\ server = [buf |-> << >>, parsing |-> FALSE, reader |-> NoReader, handling |-> FALSE]
      /\ response = [mode |-> "none", ended |-> TRUE, keepAlive |-> FALSE, left |-> 0]
      /\ request = NewMessage
  BY DEF HttpInit
<1>2. PICK kind \in {"library", "foreign", "burst"} :
        client = [kind |-> kind, open |-> kind # "library", closed |-> FALSE, started |-> FALSE,
                  chunks |-> << >>, next |-> 1, length |-> 0, buf |-> << >>, reader |-> NoReader]
  BY DEF HttpInit
<1>3. Count = 0 /\ Waiting = 0 /\ Comes
  <2>1. Count = 0 /\ Waiting = 0
    BY <1>1 DEF Count, Waiting
  <2> QED
    BY <1>1, <2>1 DEF Comes, Nothing
<1>4. /\ client.kind = kind /\ client.started = FALSE /\ client.next = 1 /\ client.chunks = << >>
  BY <1>2
<1>5. client = [f \in ClientFields |-> client[f]]
  BY <1>2 DEF ClientFields
<1>6. client.open \in BOOLEAN /\ (kind = "library" => ~client.open)
  <2>1. CASE kind = "library"
    <3>1. (kind # "library") = FALSE
      BY <2>1
    <3>2. client.open = FALSE
      BY <1>2, <3>1
    <3> QED
      BY <3>2
  <2>2. CASE kind # "library"
    <3>1. (kind # "library") = TRUE
      BY <2>2
    <3>2. client.open = TRUE
      BY <1>2, <3>1
    <3> QED
      BY <2>2, <3>2
  <2> QED
    BY <2>1, <2>2
<1>7. /\ server = [f \in ServerFields |-> server[f]] /\ server.parsing = FALSE
      /\ server.handling = FALSE /\ server.reader = NoReader
      /\ response = [f \in ResponseFields |-> response[f]] /\ response.ended = TRUE
  BY <1>1 DEF ServerFields, ResponseFields
<1>8. IsMessage(request)
  <2>1. /\ request.flowing = FALSE /\ request.heard = FALSE /\ request.drain = FALSE
        /\ request.endQueued = FALSE /\ request = [f \in MessageFields |-> request[f]]
    BY <1>1 DEF NewMessage, MessageFields
  <2> QED
    BY <2>1 DEF IsMessage
<1>9. Shapes
  BY <1>4, <1>5, <1>6, <1>7, <1>8 DEF Shapes
<1>10. ClientInv
  BY <1>1, <1>3, <1>4, <1>6 DEF ClientInv
<1>11. ServerInv
  BY <1>3, <1>7 DEF ServerInv
<1> QED
  BY <1>9, <1>10, <1>11 DEF RequestInv

\* Bytes 1..r are the first of the body.
LEMMA BytesArePrefix ==
  ASSUME NEW b \in Nat, NEW r \in Nat, r <= b
  PROVE  IsPrefix(Bytes(1, r), Bytes(1, b))
<1>1. PICK d : d = r + 1
  OBVIOUS
<1>2. Bytes(1, r) \o Bytes(d, b) = Bytes(1, b)
  BY <1>1 DEF Bytes
<1>3. Bytes(1, r) \in Seq({Byte(i) : i \in Nat}) /\ Bytes(1, b) \in Seq({Byte(i) : i \in Nat})
  BY DEF Bytes
<1> QED
  BY <1>2, <1>3 DEF IsPrefix, Bytes

LEMMA InvMeans ==
  ASSUME RequestInv
  PROVE  RequestsArriveWhole
<1>1. EachRequestOnce
  BY Invs DEF ClientInv, EachRequestOnce, Count
<1>2. ASSUME server.parsing
      PROVE  /\ IsPrefix(request.got \o request.buf, Bytes(1, Body))
             /\ request.ends <= 1
             /\ request.ends = 1 => request.buf = << >> /\ Len(request.got) = Body
  <2>1. Count # 0 /\ IF server.handling THEN Handling(Body) ELSE Reading(Body)
    BY <1>2, Invs DEF ServerInv
  <2>2. PICK b, t : b = Body /\ t = Sent(Body)
    OBVIOUS
  <2>3. b \in Nat /\ t \in Nat /\ t <= b
    BY <2>1, <2>2, BodyIs
  <2>4. CASE request.got = << >> /\ request.buf = << >> /\ (server.handling \/ b = 0)
    <3>1. request.got \o request.buf = Bytes(1, 0)
      BY <2>4 DEF Bytes
    <3>2. IsPrefix(Bytes(1, 0), Bytes(1, b))
      BY <2>3, BytesArePrefix
    <3>3. request.ends \in {0, 1} /\ (request.ends = 1 => b = 0)
      BY <2>1, <2>2, <2>4 DEF Handling, Reading
    <3> QED
      BY <2>2, <2>4, <3>1, <3>2, <3>3
  <2>5. CASE ~server.handling /\ b # 0
    <3>1. PICK g \in Nat, r \in Nat : Given(b, g, r)
      BY <2>1, <2>2, <2>5 DEF Reading
    <3>2. /\ g <= r /\ r <= b /\ request.got = Bytes(1, g) /\ request.buf = Bytes(g + 1, r)
          /\ request.ends \in {0, 1} /\ (request.ends = 1 => g = b)
      BY <2>2, <2>3, <3>1 DEF Given
    <3>3. PICK d : d = g + 1
      OBVIOUS
    <3>4. Bytes(1, g) \o Bytes(d, r) = Bytes(1, r)
      BY <3>2, <3>3 DEF Bytes
    <3>5. request.got \o request.buf = Bytes(1, r)
      BY <3>2, <3>3, <3>4
    <3>6. IsPrefix(Bytes(1, r), Bytes(1, b))
      BY <2>3, <3>2, BytesArePrefix
    <3>7. ASSUME request.ends = 1
          PROVE  request.buf = << >> /\ Len(request.got) = b
      <4>1. g = b /\ r = b
        BY <2>3, <3>2, <3>7
      <4>2. Bytes(g + 1, r) = << >>
        BY <2>3, <4>1 DEF Bytes
      <4>3. Len(request.got) = b
        BY <2>3, <3>2, <4>1 DEF Bytes
      <4>4. request.buf = << >>
        BY <3>2, <4>2
      <4> QED
        BY <4>3, <4>4
    <3>8. IsPrefix(request.got \o request.buf, Bytes(1, Body))
      BY <2>2, <3>5, <3>6
    <3>9. request.ends <= 1
      BY <3>2
    <3>10. request.ends = 1 => request.buf = << >> /\ Len(request.got) = Body
      BY <2>2, <3>7
    <3> QED
      BY <3>8, <3>9, <3>10
  <2> QED
    BY <2>1, <2>2, <2>4, <2>5 DEF Handling, Reading
<1> QED
  BY <1>1, <1>2 DEF RequestsArriveWhole, RequestArrivesWhole

LEMMA StepKeeps ==
  ASSUME Habits = {}, RequestInv, [Script \/ Program]_httpVars
  PROVE  RequestInv'
BY StartKeeps, ClientWriteKeeps, ReadyKeeps, ClientDataKeeps, ClientEndKeeps, OthersKeep,
   ForeignSendsKeeps, BurstSendsKeeps, AfterHandlerKeeps, ServerDataKeeps, RetryKeeps,
   RequestUsedKeeps, RequestTickKeeps, WriteKeeps, EndKeeps
   DEF Script, Program

\* Where the network cuts the stream of tokens, when a handler listens, pauses and resumes,
\* and how many requests come in one piece: the handler of the server is called once for
\* each request, in order, and is given the bytes of its body in order and 'end' once, after
\* them -- of clients that wait for the answer, and handlers that read the body before they
\* answer (tryParseRequest(), _IncomingMessage).
THEOREM RequestsWhole ==
  ASSUME Habits = {}
  PROVE  HttpSpec => []RequestsArriveWhole
<1>1. HttpInit => RequestInv
  BY InitKeeps
<1>2. RequestInv /\ [Script \/ Program]_httpVars => RequestInv'
  BY StepKeeps
<1>3. RequestInv => RequestsArriveWhole
  BY InvMeans
<1> QED
  BY <1>1, <1>2, <1>3, PTL DEF HttpSpec
=============================================================================
