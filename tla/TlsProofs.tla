------------------------------ MODULE TlsProofs ------------------------------
(* SSL is never called after its object is freed, and each direction is a channel, *)
(* for any sizes of the rings and of the kernel's buffers, any writes, and wherever *)
(* a listener destroys a socket.                                                    *)
EXTENDS Tls, TLAPS, SequenceTheorems

Fields ==
  {"conn", "open", "writable", "destroyed", "closing", "ended", "queue", "task", "chunk", "last",
   "stage", "part", "ring", "notified", "stuck", "raw", "rawReadable", "rawWritable", "sendq",
   "draining", "finTimer", "finned", "out", "put", "got", "cut"}

\* What SideInv says of the two sockets, whatever callback runs.
Dead(x) == ~x.rawReadable /\ ~x.rawWritable /\ ~x.finTimer /\ x.sendq = << >>
Sound(x) ==
  /\ DOMAIN x = Fields
  /\ x.raw \in {"new", "connecting", "up", "destroyed"}
  /\ x.raw = "destroyed" <=> x.destroyed
  /\ x.raw = "up" => x.conn
  /\ x.raw # "up" => Dead(x)
  /\ x.raw \in {"new", "connecting"} => ~x.open

LEMMA SideIs ==
  ASSUME NEW x
  PROVE  DOMAIN x = Fields /\ SideInv(x)
           <=> /\ Sound(x)
               /\ x.raw # "up" => x.task \in {"idle", "pending", "told"}
               /\ x.raw \in {"new", "connecting"} => x.task = "idle"
BY DEF SideInv, Sound, Dead

\* An end that differs in what Sound does not speak of.
Alike(y, x) ==
  /\ DOMAIN y = Fields
  /\ y.raw = x.raw /\ y.destroyed = x.destroyed /\ y.conn = x.conn /\ y.open = x.open
  /\ y.rawReadable = x.rawReadable /\ y.rawWritable = x.rawWritable
  /\ y.finTimer = x.finTimer /\ y.sendq = x.sendq
LEMMA AlikeIsSound ==
  ASSUME NEW x, NEW y, Sound(x), Alike(y, x)
  PROVE  Sound(y)
BY DEF Sound, Alike, Dead

\* An end after a write or a flush.
Wrote(y, x) == Sound(y) /\ y.raw = x.raw /\ y.task = x.task /\ y.open = x.open /\ y.conn = x.conn
               /\ y.stage = x.stage
\* An end after something that may have destroyed it.
Survives(y, x) ==
  Sound(y) /\ y.task = x.task /\ y.open = x.open /\ (y.raw = x.raw \/ y.raw = "destroyed")

----------------------------------------------------------------------------
(* The functions of the raw socket and of the TLS socket *)
LEMMA FinishKeeps ==
  ASSUME NEW x, Sound(x), x.raw = "up"
  PROVE  Wrote(Finish(x), x)
<1> DEFINE y == [x EXCEPT !.draining = FALSE, !.rawWritable = FALSE, !.finTimer = TRUE]
<1>1. Wrote(y, x)
  BY DEF Wrote, Sound, Fields
<1>2. Wrote(x, x)
  BY DEF Wrote
<1> HIDE DEF y
<1>3. Finish(x) = y \/ Finish(x) = x
  BY DEF Finish, y
<1> QED
  BY <1>1, <1>2, <1>3

LEMMA SendsKeeps ==
  ASSUME NEW x, Sound(x), x.raw = "up"
  PROVE  Wrote(Sends(x), x)
<1> DEFINE n == Smaller(Len(x.sendq), KernelSize - Smaller(Len(x.out), KernelSize))
           o == x.out \o SubSeq(x.sendq, 1, n)
           q == SubSeq(x.sendq, n + 1, Len(x.sendq))
           y == [x EXCEPT !.out = o, !.sendq = q]
<1>1. Sends(x) = Finish(y)
  BY DEF Sends
<1> HIDE DEF n, o, q
<1>2. Wrote(y, x)
  BY DEF Wrote, Sound, Fields
<1> HIDE DEF y
<1>3. Wrote(Finish(y), y)
  BY <1>2, FinishKeeps DEF Wrote
<1> QED
  BY <1>1, <1>2, <1>3 DEF Wrote

LEMMA RawWriteKeeps ==
  ASSUME NEW x, Sound(x), NEW bytes
  PROVE  Wrote(RawWrite(x, bytes), x)
<1>1. CASE ~x.rawWritable
  BY <1>1 DEF RawWrite, Wrote
<1>2. CASE x.rawWritable
  <2> DEFINE q == x.sendq \o bytes
             y == [x EXCEPT !.sendq = q]
  <2>1. x.raw = "up" /\ RawWrite(x, bytes) = Sends(y)
    BY <1>2 DEF Sound, Dead, RawWrite
  <2> HIDE DEF q
  <2>2. Wrote(y, x)
    BY <2>1 DEF Wrote, Sound, Fields
  <2> HIDE DEF y
  <2>3. Wrote(Sends(y), y)
    BY <2>1, <2>2, SendsKeeps DEF Wrote
  <2> QED
    BY <2>1, <2>2, <2>3 DEF Wrote
<1> QED
  BY <1>1, <1>2

LEMMA FlushKeeps ==
  ASSUME NEW x, Sound(x), NEW kind
  PROVE  Wrote(Flush(x, kind), x)
BY RawWriteKeeps DEF Flush

LEMMA RawEndKeeps ==
  ASSUME NEW x, Sound(x), x.raw \in {"up", "destroyed"}
  PROVE  Wrote(RawEnd(x), x)
<1>1. CASE x.raw = "destroyed"
  BY <1>1 DEF RawEnd, Wrote
<1>2. CASE x.raw = "up"
  <2> DEFINE y == [x EXCEPT !.draining = TRUE]
  <2>1. RawEnd(x) = Finish(y)
    BY <1>2 DEF RawEnd
  <2>2. Wrote(y, x)
    BY <1>2 DEF Wrote, Sound, Fields
  <2> HIDE DEF y
  <2> QED
    BY <1>2, <2>1, <2>2, FinishKeeps DEF Wrote
<1> QED
  BY <1>1, <1>2

LEMMA RawFinKeeps ==
  ASSUME NEW x, DOMAIN x = Fields
  PROVE  Alike(RawFin(x), x) /\ RawFin(x).task = x.task
<1> DEFINE o == Append(x.out, Fin)
           y == [x EXCEPT !.finned = TRUE, !.out = o]
<1>1. RawFin(x) = x \/ RawFin(x) = y
  BY DEF RawFin
<1> HIDE DEF o
<1>2. Alike(y, x) /\ y.task = x.task /\ Alike(x, x)
  BY DEF Alike, Fields
<1> HIDE DEF y
<1> QED
  BY <1>1, <1>2

\* The raw socket is gone; the TLS socket hears of it later.
LEMMA RawDestroyDoes ==
  ASSUME NEW x, DOMAIN x = Fields, x.raw = "destroyed" => Dead(x)
  PROVE  /\ DOMAIN RawDestroy(x) = Fields
         /\ RawDestroy(x).raw = "destroyed" /\ Dead(RawDestroy(x))
         /\ RawDestroy(x).task = x.task /\ RawDestroy(x).open = x.open
         /\ RawDestroy(x).conn = x.conn /\ RawDestroy(x).destroyed = x.destroyed
<1>1. CASE x.raw = "destroyed"
  BY <1>1 DEF RawDestroy
<1>2. CASE x.raw # "destroyed"
  <2> DEFINE c == x.cut \/ x.sendq # << >> \/ x.queue # << >>
             y == [x EXCEPT !.raw = "destroyed", !.rawReadable = FALSE, !.rawWritable = FALSE,
                            !.cut = c, !.sendq = << >>, !.draining = FALSE, !.finTimer = FALSE]
  <2>1. RawDestroy(x) = RawFin(y) \/ RawDestroy(x) = y
    BY <1>2 DEF RawDestroy
  <2> HIDE DEF c
  <2>2. /\ DOMAIN y = Fields /\ y.raw = "destroyed" /\ Dead(y)
        /\ y.task = x.task /\ y.open = x.open /\ y.conn = x.conn /\ y.destroyed = x.destroyed
    BY DEF Dead, Fields
  <2> HIDE DEF y
  <2>3. Alike(RawFin(y), y) /\ RawFin(y).task = y.task
    BY <2>2, RawFinKeeps
  <2> QED
    BY <2>1, <2>2, <2>3 DEF Alike, Dead
<1> QED
  BY <1>1, <1>2

\* destroy() from any state, between the raw socket's and its own as well.
LEMMA DestroyDoes ==
  ASSUME NEW x, DOMAIN x = Fields, x.raw = "destroyed" => Dead(x), x.destroyed => x.raw = "destroyed"
  PROVE  /\ Sound(Destroy(x)) /\ Destroy(x).raw = "destroyed"
         /\ Destroy(x).task = x.task /\ Destroy(x).open = x.open
<1>1. CASE x.destroyed
  BY <1>1 DEF Destroy, Sound
<1>2. CASE ~x.destroyed
  <2> DEFINE z == [x EXCEPT !.destroyed = TRUE, !.writable = FALSE]
             y == [z EXCEPT !.conn = FALSE, !.part = << >>, !.ring = << >>]
  <2>1. Destroy(x) = RawDestroy(y)
    BY <1>2 DEF Destroy, FreeConn
  <2>2. /\ DOMAIN z = Fields /\ z.raw = x.raw /\ z.destroyed /\ z.task = x.task /\ z.open = x.open
        /\ z.rawReadable = x.rawReadable /\ z.rawWritable = x.rawWritable
        /\ z.finTimer = x.finTimer /\ z.sendq = x.sendq
    BY DEF Fields
  <2> HIDE DEF z
  <2>3. /\ DOMAIN y = Fields /\ y.raw = x.raw /\ y.destroyed /\ y.task = x.task /\ y.open = x.open
        /\ y.rawReadable = x.rawReadable /\ y.rawWritable = x.rawWritable
        /\ y.finTimer = x.finTimer /\ y.sendq = x.sendq
    BY <2>2 DEF Fields
  <2> HIDE DEF y
  <2>4. y.raw = "destroyed" => Dead(y)
    BY <2>3 DEF Dead
  <2> QED
    BY <2>1, <2>3, <2>4, RawDestroyDoes DEF Sound
<1> QED
  BY <1>1, <1>2

LEMMA DestroyKeeps ==
  ASSUME NEW x, Sound(x)
  PROVE  Survives(Destroy(x), x) /\ Destroy(x).raw = "destroyed" /\ Destroy(x).destroyed
<1>1. DOMAIN x = Fields /\ (x.raw = "destroyed" => Dead(x)) /\ (x.destroyed => x.raw = "destroyed")
  BY DEF Sound
<1> QED
  BY <1>1, DestroyDoes DEF Survives, Sound

LEMMA AfterEofKeeps ==
  ASSUME NEW x, Sound(x)
  PROVE  Survives(AfterEof(x), x)
<1> DEFINE y == EmitEnd(x)
<1>1. Alike(y, x) /\ y.task = x.task
  BY DEF EmitEnd, Alike, Sound, Fields
<1>2. Sound(y) /\ y.raw = x.raw /\ y.open = x.open
  BY <1>1, AlikeIsSound DEF Alike
<1>3. AfterEof(x) = y \/ AfterEof(x) = Destroy(y)
  BY DEF AfterEof
<1> HIDE DEF y
<1> QED
  BY <1>1, <1>2, <1>3, DestroyKeeps DEF Survives

LEMMA SslWriteAllKeeps ==
  ASSUME NEW x, Sound(x), NEW records
  PROVE  Survives(SslWriteAll(x, records), x)
<1> DEFINE y == [x EXCEPT !.stuck = TRUE]
<1>1. Alike(y, x) /\ y.task = x.task
  BY DEF Alike, Sound, Fields
<1>2. Sound(y) /\ y.raw = x.raw /\ y.open = x.open
  BY <1>1, AlikeIsSound DEF Alike
<1>3. \/ SslWriteAll(x, records) \in {x, Destroy(x), RawWrite(x, Bytes(records))}
      \/ SslWriteAll(x, records) = RawWrite(y, SubSeq(Bytes(records), 1, Ring))
  BY DEF SslWriteAll
<1> HIDE DEF y
<1>4. Wrote(RawWrite(x, Bytes(records)), x) /\ Wrote(RawWrite(y, SubSeq(Bytes(records), 1, Ring)), y)
  BY <1>2, RawWriteKeeps
<1> QED
  BY <1>1, <1>2, <1>3, <1>4, DestroyKeeps DEF Survives, Wrote

LEMMA TookKeeps ==
  ASSUME NEW x, Sound(x)
  PROVE  Alike(Took(x), x) /\ Took(x).task = x.task /\ Sound(Took(x))
<1> DEFINE r == SubSeq(Input(x), 3, Len(Input(x)))
           y == [x EXCEPT !.part = << >>, !.ring = r]
           i == Input(x)
           z == [x EXCEPT !.part = i, !.ring = << >>]
<1>1. Took(x) = y \/ Took(x) = z
  BY DEF Took
<1> HIDE DEF r, i
<1>2. Alike(y, x) /\ y.task = x.task /\ Alike(z, x) /\ z.task = x.task
  BY DEF Alike, Sound, Fields
<1> HIDE DEF y, z
<1> QED
  BY <1>1, <1>2, AlikeIsSound

\* Back to _onRawData, or to the loop.
LEMMA ReturnKeeps ==
  ASSUME NEW x, Sound(x), x.raw \in {"up", "destroyed"}
  PROVE  /\ Sound(Return(x)) /\ SideInv(Return(x)) /\ Return(x).raw = x.raw
<1> DEFINE t == IF x.task = "idle" \/ x.last \/ x.destroyed THEN "idle" ELSE "feed"
           c == IF x.last \/ x.destroyed THEN << >> ELSE x.chunk
           y == [x EXCEPT !.task = t, !.last = TRUE, !.chunk = c]
<1>1. Return(x) = y
  BY DEF Return
<1>2. x.raw = "destroyed" => t = "idle"
  BY DEF Sound
<1> HIDE DEF t, c
<1>3. Alike(y, x) /\ y.task = t
  BY DEF Alike, Sound, Fields
<1> HIDE DEF y
<1> QED
  BY <1>1, <1>2, <1>3, AlikeIsSound, SideIs DEF Alike

LEMMA ConnectedKeeps ==
  ASSUME NEW x, Sound(x), x.raw = "up"
  PROVE  Sound(Connected(x)) /\ Connected(x).raw = "up" /\ SideInv(Connected(x))
<1> DEFINE y == Connected(x)
<1>1. /\ DOMAIN y = Fields /\ y.raw = x.raw /\ y.destroyed = x.destroyed /\ y.conn = x.conn
      /\ y.rawReadable = x.rawReadable /\ y.rawWritable = x.rawWritable
      /\ y.finTimer = x.finTimer /\ y.sendq = x.sendq
  BY DEF Connected, Sound, Fields
<1> HIDE DEF y
<1>2. Sound(y)
  BY <1>1 DEF Sound, Dead
<1> QED
  BY <1>1, <1>2, SideIs DEF y

LEMMA HandshakeKeeps ==
  ASSUME NEW e, NEW x, Sound(x), x.raw = "up", NEW kind
  PROVE  LET y == Handshake(e, x, kind)
         IN  Sound(y) /\ SideInv(y) /\ y.raw \in {"up", "destroyed"}
<1> DEFINE flight == Flush(x, "flight")
           alert == Flush(x, "alert")
           finished == Flush(x, "finished")
           confirm == Flush(x, "confirm")
           y == Handshake(e, x, kind)
           a == [flight EXCEPT !.stage = "flight"]
           b == [finished EXCEPT !.stage = "finished"]
<1>1. \/ y \in {a, b}
      \/ y \in {Return(Destroy(alert)), Return(Destroy(x))}
      \/ y \in {Connected(finished), Connected(confirm), Connected(x)}
  BY DEF Handshake
<1>2. \A z \in {flight, alert, finished, confirm} : Sound(z) /\ z.raw = "up"
  BY FlushKeeps DEF Wrote
<1> HIDE DEF flight, alert, finished, confirm, y
<1>3. Alike(a, flight) /\ Alike(b, finished)
  BY <1>2 DEF Alike, Sound, Fields
<1> HIDE DEF a, b
<1>4. CASE y \in {a, b}
  <2>1. Sound(y) /\ y.raw = "up"
    BY <1>2, <1>3, <1>4, AlikeIsSound DEF Alike
  <2> QED
    BY <2>1, SideIs DEF y
<1>5. CASE y \in {Return(Destroy(alert)), Return(Destroy(x))}
  <2>1. PICK z \in {alert, x} : y = Return(Destroy(z))
    BY <1>5
  <2>2. Sound(z)
    BY <1>2
  <2>3. Sound(Destroy(z)) /\ Destroy(z).raw = "destroyed"
    BY <2>2, DestroyKeeps DEF Survives
  <2> QED
    BY <2>1, <2>3, ReturnKeeps DEF y
<1>6. CASE y \in {Connected(finished), Connected(confirm), Connected(x)}
  <2>1. PICK z \in {finished, confirm, x} : y = Connected(z)
    BY <1>6
  <2> QED
    BY <1>2, <2>1, ConnectedKeeps DEF y
<1> QED
  BY <1>1, <1>4, <1>5, <1>6

----------------------------------------------------------------------------
(* Steps *)
TlsInv == AliveInv /\ DOMAIN side = Ends /\ \A e \in Ends : DOMAIN side[e] = Fields

LEMMA EndIs ==
  ASSUME TlsInv, NEW e \in Ends
  PROVE  /\ Sound(side[e]) /\ SideInv(side[e]) /\ DOMAIN side[e] = Fields
         /\ side[e].raw # "up" => side[e].task \in {"idle", "pending", "told"}
         /\ side[e].raw \in {"new", "connecting"} => side[e].task = "idle" /\ ~side[e].open
         /\ Other(e) \in Ends /\ Other(e) # e
BY SideIs DEF TlsInv, AliveInv, SideInv, Ends, Other

\* A step of one end that is past "new", if it is the server's.
LEMMA EndKeeps ==
  ASSUME TlsInv, NEW e \in Ends, NEW y, DOMAIN side' = Ends, side'[e] = y,
         LET o == side'[Other(e)]
             x == side[Other(e)]
         IN  o = x \/ (Alike(o, x) /\ o.task = x.task),
         DOMAIN y = Fields, SideInv(y),
         y.raw = "new" => side[e].raw = "new",
         e = "server" => side[e].raw # "new",
         backlog' = backlog
  PROVE  TlsInv'
<1> DEFINE f == Other(e)
<1>1. f \in Ends /\ Ends = {e, f} /\ Ends = {"client", "server"} /\ f # e
  BY DEF Ends, Other
<1>2. SideInv(side'[f]) /\ DOMAIN side'[f] = Fields /\ side'[f].raw = side[f].raw
  BY <1>1, EndIs, AlikeIsSound, SideIs DEF Alike
<1>3. \A d \in Ends : SideInv(side'[d]) /\ DOMAIN side'[d] = Fields
  BY <1>1, <1>2
<1>4. /\ backlog => side["client"].raw # "new" /\ side["server"].raw = "new"
      /\ side["client"].raw = "new" => side["server"].raw = "new"
  BY DEF TlsInv, AliveInv
<1>5. CASE e = "client"
  <2>1. f = "server"
    BY <1>5 DEF Other
  <2> HIDE DEF f
  <2> QED
    BY <1>2, <1>3, <1>4, <1>5, <2>1 DEF TlsInv, AliveInv
<1>6. CASE e = "server"
  <2>1. f = "client"
    BY <1>6 DEF Other
  <2> HIDE DEF f
  <2> QED
    BY <1>2, <1>3, <1>4, <1>6, <2>1 DEF TlsInv, AliveInv
<1> QED
  BY <1>1, <1>5, <1>6

LEMMA BecomesKeeps ==
  ASSUME TlsInv, NEW e \in Ends, NEW y, Becomes(e, y), Sound(y), SideInv(y),
         y.raw = "new" => side[e].raw = "new", e = "server" => side[e].raw # "new",
         backlog' = backlog
  PROVE  TlsInv'
<1>1. DOMAIN side' = Ends /\ side'[e] = y /\ side'[Other(e)] = side[Other(e)]
  BY DEF Becomes, TlsInv, Ends, Other
<1> QED
  BY <1>1, EndKeeps DEF Sound

\* What may have destroyed an end whose listeners act, or whose queue is written.
LEMMA SurvivesKeeps ==
  ASSUME TlsInv, NEW e \in Ends, NEW y, Becomes(e, y), NEW x, Survives(y, x),
         x.raw = side[e].raw, x.task = side[e].task, x.open = side[e].open,
         x.task \in {"idle", "pending", "told"}, e = "server" => side[e].raw # "new",
         backlog' = backlog
  PROVE  TlsInv'
<1>1. Sound(y) /\ SideInv(y)
  BY EndIs, SideIs DEF Survives, Sound
<1> QED
  BY <1>1, BecomesKeeps DEF Survives

----------------------------------------------------------------------------
(* Calls of the script *)
LEMMA WriteKeeps ==
  ASSUME TlsInv, NEW e \in Ends, Write(e)
  PROVE  TlsInv'
<1> DEFINE x == side[e]
<1>1. PICK k \in WriteSizes :
        LET data == [i \in 1..k |-> <<"data", Len(x.put) + i>>]
            y == [x EXCEPT !.put = @ \o data]
        IN  /\ x.open => x.writable
            /\ Becomes(e, IF Queues(x) THEN [y EXCEPT !.queue = Append(@, data)]
                          ELSE IF x.writable THEN SslWriteAll(y, data) ELSE y)
  BY DEF Write
<1> DEFINE data == [i \in 1..k |-> <<"data", Len(x.put) + i>>]
           p == x.put \o data
           y == [x EXCEPT !.put = p]
           q == Append(y.queue, data)
           z == [y EXCEPT !.queue = q]
<1>2. Becomes(e, z) \/ Becomes(e, SslWriteAll(y, data)) \/ Becomes(e, y)
  BY <1>1
<1>3. /\ x.task \in {"idle", "told"} /\ (e = "server" => x.raw # "new") /\ backlog' = backlog
      /\ Sound(x)
  BY EndIs DEF Write, Acts
<1> HIDE DEF p, q, x, data
<1>4. Alike(y, x) /\ y.task = x.task /\ DOMAIN y = Fields
  BY <1>3 DEF Alike, Sound, Fields
<1> HIDE DEF y
<1>5. Alike(z, y) /\ z.task = y.task
  BY <1>4 DEF Alike, Fields
<1> HIDE DEF z
<1>6. Sound(y) /\ Sound(z)
  BY <1>3, <1>4, <1>5, AlikeIsSound
<1>7. Survives(z, x) /\ Survives(y, x) /\ Survives(SslWriteAll(y, data), x)
  BY <1>4, <1>5, <1>6, SslWriteAllKeeps DEF Survives, Alike
<1>8. PICK w : Becomes(e, w) /\ Survives(w, x)
  BY <1>2, <1>7
<1> QED
  BY <1>3, <1>8, SurvivesKeeps DEF x

LEMMA EndKeepsAll ==
  ASSUME TlsInv, NEW e \in Ends, End(e)
  PROVE  TlsInv'
<1> DEFINE x == side[e]
           f == IF x.stuck THEN x ELSE Flush(x, "close")
           c == [f EXCEPT !.closing = TRUE]
           y == IF x.conn /\ x.open THEN c ELSE x
           w == [y EXCEPT !.writable = FALSE]
<1>1. /\ Becomes(e, RawEnd(w)) /\ x.raw = "up" /\ x.task \in {"idle", "told"} /\ backlog' = backlog
      /\ Sound(x)
  BY EndIs DEF End, Acts
<1>2. Wrote(f, x)
  BY <1>1, FlushKeeps DEF Wrote
<1> HIDE DEF f, x
<1>3. Alike(c, f) /\ c.task = f.task
  BY <1>2 DEF Alike, Wrote, Sound, Fields
<1> HIDE DEF c
<1>4. Sound(y) /\ y.raw = "up" /\ y.task = x.task /\ y.open = x.open
  BY <1>1, <1>2, <1>3, AlikeIsSound DEF Wrote, Alike
<1> HIDE DEF y
<1>5. Alike(w, y) /\ w.task = y.task
  BY <1>4 DEF Alike, Sound, Fields
<1> HIDE DEF w
<1>6. Sound(w) /\ w.raw = "up" /\ w.task = x.task /\ w.open = x.open
  BY <1>4, <1>5, AlikeIsSound DEF Alike
<1>7. Survives(RawEnd(w), x)
  BY <1>1, <1>6, RawEndKeeps DEF Survives, Wrote
<1> QED
  BY <1>1, <1>7, SurvivesKeeps DEF x

LEMMA UserDestroysKeeps ==
  ASSUME TlsInv, NEW e \in Ends, UserDestroys(e)
  PROVE  TlsInv'
<1>1. /\ Becomes(e, Destroy(side[e])) /\ side[e].task \in {"idle", "told"} /\ backlog' = backlog
      /\ (e = "server" => side[e].raw # "new") /\ Sound(side[e])
  BY EndIs DEF UserDestroys, Acts
<1> QED
  BY <1>1, DestroyKeeps, SurvivesKeeps

----------------------------------------------------------------------------
(* The connection *)
LEMMA UpIs ==
  ASSUME NEW x, DOMAIN x = Fields, SideInv(x), x.raw \in {"new", "connecting"}
  PROVE  Sound(Up(x)) /\ SideInv(Up(x)) /\ Up(x).raw = "up"
<1> DEFINE u == RawUp(x)
           c == [u EXCEPT !.conn = TRUE]
           y == [c EXCEPT !.task = "drive"]
<1>1. ~x.destroyed
  BY DEF SideInv
<1>2. DOMAIN u = Fields /\ u.raw = "up" /\ ~u.destroyed
  BY <1>1 DEF RawUp, Fields
<1> HIDE DEF u
<1>3. DOMAIN c = Fields /\ c.raw = "up" /\ ~c.destroyed /\ c.conn
  BY <1>2 DEF Fields
<1> HIDE DEF c
<1>4. DOMAIN y = Fields /\ y.raw = "up" /\ ~y.destroyed /\ y.conn
  BY <1>3 DEF Fields
<1>5. Up(x) = y
  BY DEF Up, CreateConn, u, c
<1> HIDE DEF y
<1>6. Sound(y)
  BY <1>4 DEF Sound
<1> QED
  BY <1>4, <1>5, <1>6, SideIs

\* The client's step past "new" or "connecting".
LEMMA ClientKeeps ==
  ASSUME TlsInv, NEW y, Becomes("client", y), DOMAIN y = Fields, SideInv(y), y.raw # "new",
         backlog' => side["server"].raw = "new"
  PROVE  TlsInv'
<1>1. DOMAIN side' = Ends /\ side'["client"] = y /\ side'["server"] = side["server"]
  BY DEF Becomes, TlsInv, Ends
<1> QED
  BY <1>1, EndIs DEF TlsInv, AliveInv, Ends

LEMMA ConnectsKeep ==
  ASSUME TlsInv, Connect \/ ConnectOver
  PROVE  TlsInv'
<1> DEFINE x == side["client"]
           w == [x EXCEPT !.raw = "connecting"]
<1>1. DOMAIN x = Fields /\ SideInv(x) /\ Sound(x)
  BY EndIs DEF Ends
<1>2. /\ x.raw \in {"new", "connecting"} /\ x.task = "idle"
      /\ \/ Becomes("client", Up(x)) \/ Becomes("client", Destroy(x))
         \/ x.raw = "new" /\ Becomes("client", w)
      /\ x.raw = "new" \/ backlog' = backlog
  BY DEF Connect, ConnectOver, Quiet, Idle, Ends
<1>3. backlog' => side["server"].raw = "new"
  BY <1>2 DEF TlsInv, AliveInv
<1> HIDE DEF x
<1>4. Sound(Up(x)) /\ SideInv(Up(x)) /\ Up(x).raw = "up"
  BY <1>1, <1>2, UpIs
<1>5. Sound(Destroy(x)) /\ SideInv(Destroy(x)) /\ Destroy(x).raw = "destroyed"
  BY <1>1, <1>2, DestroyKeeps, SideIs DEF Survives, Sound
<1>6. x.raw = "new" => DOMAIN w = Fields /\ SideInv(w) /\ w.raw = "connecting"
  BY <1>1 DEF SideInv, Fields
<1> HIDE DEF w
<1> QED
  BY <1>2, <1>3, <1>4, <1>5, <1>6, ClientKeeps DEF Sound

LEMMA AcceptKeeps ==
  ASSUME TlsInv, Accept
  PROVE  TlsInv'
<1> DEFINE x == side["server"]
<1>1. Becomes("server", Up(x)) /\ backlog /\ backlog' = FALSE
  BY DEF Accept, NativeAccept
<1>2. x.raw = "new" /\ side["client"].raw # "new" /\ DOMAIN x = Fields /\ SideInv(x)
  BY <1>1, EndIs DEF TlsInv, AliveInv, Ends
<1>3. Sound(Up(x)) /\ SideInv(Up(x))
  BY <1>2, UpIs
<1>4. DOMAIN side' = Ends /\ side'["server"] = Up(x) /\ side'["client"] = side["client"]
  BY <1>1 DEF Becomes, TlsInv, Ends
<1> QED
  BY <1>1, <1>2, <1>3, <1>4, EndIs DEF TlsInv, AliveInv, Ends, Sound

LEMMA CloseServerKeeps ==
  ASSUME TlsInv, CloseServer
  PROVE  TlsInv'
<1> DEFINE x == side["server"]
           r == [x EXCEPT !.raw = "destroyed"]
           y == [r EXCEPT !.destroyed = TRUE]
<1>1. /\ x.raw = "new" /\ backlog' = FALSE
      /\ \/ UNCHANGED side
         \/ backlog /\ side' = [side EXCEPT !["server"].raw = "destroyed", !["server"].destroyed = TRUE]
  BY DEF CloseServer
<1>2. CASE UNCHANGED side
  BY <1>1, <1>2 DEF TlsInv, AliveInv
<1>3. CASE backlog /\ side' = [side EXCEPT !["server"].raw = "destroyed", !["server"].destroyed = TRUE]
  <2>1. DOMAIN side' = Ends /\ side'["server"] = y /\ side'["client"] = side["client"]
    BY <1>3 DEF TlsInv, Ends
  <2>2. DOMAIN x = Fields /\ SideInv(x) /\ side["client"].raw # "new"
    BY <1>3, EndIs DEF TlsInv, AliveInv, Ends
  <2> HIDE DEF x
  <2>3. DOMAIN y = Fields /\ SideInv(y)
    BY <1>1, <2>2 DEF SideInv, Fields
  <2> HIDE DEF y
  <2> QED
    BY <1>1, <2>1, <2>2, <2>3, EndIs DEF TlsInv, AliveInv, Ends
<1> QED
  BY <1>1, <1>2, <1>3

\* Nothing of the two ends changes.
LEMMA ListenKeeps ==
  ASSUME TlsInv, Listen \/ UNCHANGED vars
  PROVE  TlsInv'
<1>1. side' = side /\ backlog' = backlog
  BY DEF Listen, vars
<1> QED
  BY <1>1 DEF TlsInv, AliveInv

----------------------------------------------------------------------------
(* The raw socket's events *)
\* A step of e that may also take bytes from the other end's kernel.
LEMMA ReadsKeep ==
  ASSUME TlsInv, NEW e \in Ends, NEW n, NEW y, side' = [Reads(e, n) EXCEPT ![e] = y],
         Sound(y), SideInv(y), y.raw # "new", side[e].raw # "new", backlog' = backlog
  PROVE  TlsInv'
<1> DEFINE f == Other(e)
           s == SubSeq(side[f].out, n + 1, Len(side[f].out))
           o == [side[f] EXCEPT !.out = s]
<1>1. f \in Ends /\ f # e /\ DOMAIN side[f] = Fields
  BY EndIs
<1>2. DOMAIN side' = Ends /\ side'[e] = y /\ side'[f] = o
  BY <1>1 DEF Reads, TlsInv
<1> HIDE DEF s
<1>3. Alike(o, side[f]) /\ o.task = side[f].task
  BY <1>1 DEF Alike, Fields
<1> HIDE DEF o
<1> QED
  BY <1>2, <1>3, EndKeeps DEF Sound

LEMMA RawDataKeeps ==
  ASSUME TlsInv, NEW e \in Ends, RawData(e)
  PROVE  TlsInv'
<1> DEFINE x == side[e]
<1>1. x.rawReadable /\ backlog' = backlog /\ Sound(x)
  BY EndIs DEF RawData
<1>2. PICK n : side' = [Reads(e, n) EXCEPT ![e].task = "feed", ![e].chunk = SubSeq(Arrived(e), 1, n)]
  BY DEF RawData
<1> DEFINE c == SubSeq(Arrived(e), 1, n)
           t == [x EXCEPT !.task = "feed"]
           y == [t EXCEPT !.chunk = c]
<1>3. Reads(e, n)[e] = x /\ DOMAIN Reads(e, n) = Ends
  BY EndIs DEF Reads, TlsInv
<1>4. side' = [Reads(e, n) EXCEPT ![e] = y]
  BY <1>2, <1>3
<1> HIDE DEF c, x
<1>5. Alike(t, x)
  BY <1>1 DEF Alike, Sound, Fields
<1> HIDE DEF t
<1>6. Alike(y, x)
  BY <1>5 DEF Alike, Fields
<1> HIDE DEF y
<1>7. x.raw = "up"
  BY <1>1 DEF Sound, Dead
<1>8. Sound(y) /\ y.raw = "up"
  BY <1>1, <1>6, <1>7, AlikeIsSound DEF Alike
<1>9. SideInv(y)
  BY <1>8, SideIs DEF Sound
<1> QED
  BY <1>1, <1>4, <1>7, <1>8, <1>9, ReadsKeep DEF x

\* An end that nothing runs for.
LEMMA IdleIs ==
  ASSUME NEW x, NEW y, Sound(x), Survives(y, x), x.task = "idle"
  PROVE  SideInv(y)
BY SideIs DEF Survives, Sound

LEMMA RawEofKeeps ==
  ASSUME TlsInv, NEW e \in Ends, RawEof(e)
  PROVE  TlsInv'
<1> DEFINE x == side[e]
           r == [x EXCEPT !.rawReadable = FALSE]
           y == AfterEof(r)
           z == IF ~y.rawWritable THEN Destroy(RawDestroy(y)) ELSE y
<1>1. /\ side' = [Reads(e, 1) EXCEPT ![e] = z] /\ backlog' = backlog
      /\ x.rawReadable /\ x.task = "idle" /\ Sound(x)
  BY EndIs DEF RawEof, Quiet, Idle
<1>2. x.raw = "up"
  BY <1>1 DEF Sound, Dead
<1> HIDE DEF x
<1>3. Sound(r) /\ r.raw = "up" /\ r.task = "idle" /\ r.open = x.open
  BY <1>1, <1>2 DEF Sound, Fields
<1> HIDE DEF r
<1>4. Survives(y, r)
  BY <1>3, AfterEofKeeps
<1> HIDE DEF y
<1>5. Survives(Destroy(RawDestroy(y)), y)
  <2> DEFINE w == RawDestroy(y)
  <2>1. /\ DOMAIN w = Fields /\ w.raw = "destroyed" /\ Dead(w) /\ w.task = y.task /\ w.open = y.open
    BY <1>4, RawDestroyDoes DEF Survives, Sound
  <2> HIDE DEF w
  <2>2. Survives(Destroy(w), y)
    BY <2>1, DestroyDoes DEF Survives
  <2> QED
    BY <2>2 DEF w
<1>6. Survives(z, r)
  BY <1>4, <1>5 DEF Survives
<1> HIDE DEF z
<1>7. Sound(z) /\ SideInv(z) /\ z.raw # "new"
  BY <1>3, <1>6, IdleIs DEF Survives
<1> QED
  BY <1>1, <1>2, <1>7, ReadsKeep DEF x

LEMMA RawResetKeeps ==
  ASSUME TlsInv, NEW e \in Ends, RawReset(e)
  PROVE  TlsInv'
<1>1. /\ Becomes(e, Destroy(side[e])) /\ side[e].task = "idle" /\ backlog' = backlog
      /\ side[e].raw = "up" /\ Sound(side[e])
  BY EndIs DEF RawReset, Quiet, Idle
<1> QED
  BY <1>1, DestroyKeeps, SurvivesKeeps

LEMMA RawWritableKeeps ==
  ASSUME TlsInv, NEW e \in Ends, RawWritable(e)
  PROVE  TlsInv'
<1>1. /\ Becomes(e, Sends(side[e])) /\ side[e].task = "idle" /\ backlog' = backlog
      /\ side[e].sendq # << >> /\ Sound(side[e])
  BY EndIs DEF RawWritable, Quiet, Idle
<1>2. side[e].raw = "up"
  BY <1>1 DEF Sound, Dead
<1>3. Survives(Sends(side[e]), side[e])
  BY <1>1, <1>2, SendsKeeps DEF Survives, Wrote
<1> QED
  BY <1>1, <1>2, <1>3, SurvivesKeeps

LEMMA RawShutdownKeeps ==
  ASSUME TlsInv, NEW e \in Ends, RawShutdown(e)
  PROVE  TlsInv'
<1> DEFINE x == side[e]
           r == [x EXCEPT !.finTimer = FALSE]
           f == RawFin(r)
           w == RawDestroy(f)
<1>1. /\ Becomes(e, BothShut(f)) /\ x.task = "idle" /\ backlog' = backlog
      /\ x.finTimer /\ Sound(x)
  BY EndIs DEF RawShutdown, Quiet, Idle
<1>2. x.raw = "up"
  BY <1>1 DEF Sound, Dead
<1> HIDE DEF x
<1>3. Sound(r) /\ r.raw = "up" /\ r.task = "idle" /\ r.open = x.open
  BY <1>1, <1>2 DEF Sound, Fields
<1> HIDE DEF r
<1>4. Alike(f, r) /\ f.task = r.task
  BY <1>3, RawFinKeeps DEF Sound
<1> HIDE DEF f
<1>5. Sound(f) /\ f.raw = "up" /\ f.task = x.task /\ f.open = x.open
  BY <1>1, <1>3, <1>4, AlikeIsSound DEF Alike
<1>6. /\ DOMAIN w = Fields /\ w.raw = "destroyed" /\ Dead(w) /\ w.task = f.task /\ w.open = f.open
  BY <1>5, RawDestroyDoes DEF Sound
<1>7. BothShut(f) = f \/ BothShut(f) = Destroy(w)
  BY DEF BothShut
<1> HIDE DEF w
<1>8. Survives(Destroy(w), x) /\ Survives(f, x)
  BY <1>2, <1>5, <1>6, DestroyDoes DEF Survives
<1>9. Survives(BothShut(f), x)
  BY <1>7, <1>8
<1> QED
  BY <1>1, <1>2, <1>9, SurvivesKeeps DEF x

----------------------------------------------------------------------------
(* Callbacks *)
\* Those that call SSL run for an end that is up.
LEMMA CallbackIs ==
  ASSUME TlsInv, NEW e \in Ends, side[e].task \in {"feed", "drive", "pump"}
  PROVE  Sound(side[e]) /\ side[e].raw = "up" /\ side[e].conn
BY EndIs DEF Sound

\* And they leave it up or destroyed.
LEMMA CallbackKeeps ==
  ASSUME TlsInv, NEW e \in Ends, NEW y, Becomes(e, y), side[e].raw \in {"up", "destroyed"},
         Sound(y), SideInv(y), y.raw \in {"up", "destroyed"}, backlog' = backlog
  PROVE  TlsInv'
BY BecomesKeeps

LEMMA FeedKeeps ==
  ASSUME TlsInv, NEW e \in Ends, Feed(e)
  PROVE  TlsInv'
<1> DEFINE x == side[e]
           n == Smaller(Len(x.chunk), Ring - Len(x.ring))
           g == x.ring \o SubSeq(x.chunk, 1, n)
           c == SubSeq(x.chunk, Fed(x) + 1, Len(x.chunk))
           a == [x EXCEPT !.ring = g]
           b == [a EXCEPT !.chunk = c]
           t == IF x.open THEN "pump" ELSE "drive"
           l == x.chunk = << >>
           d == [x EXCEPT !.task = t]
           w == [d EXCEPT !.last = l]
<1>1. (Becomes(e, b) \/ Becomes(e, w)) /\ x.task = "feed" /\ backlog' = backlog
  BY DEF Feed, Runs
<1>2. Sound(x) /\ x.raw = "up"
  BY <1>1, CallbackIs
<1> HIDE DEF x, n, g, c, t, l
<1>3. Alike(a, x) /\ Alike(d, x)
  BY <1>2 DEF Alike, Sound, Fields
<1> HIDE DEF a, d
<1>4. Alike(b, x) /\ Alike(w, x)
  BY <1>3 DEF Alike, Fields
<1> HIDE DEF b, w
<1>5. Sound(b) /\ Sound(w) /\ b.raw = "up" /\ w.raw = "up"
  BY <1>2, <1>4, AlikeIsSound DEF Alike
<1>6. SideInv(b) /\ SideInv(w)
  BY <1>5, SideIs DEF Sound
<1> QED
  BY <1>1, <1>2, <1>5, <1>6, CallbackKeeps DEF x

LEMMA DriveKeeps ==
  ASSUME TlsInv, NEW e \in Ends, Drive(e)
  PROVE  TlsInv'
<1> DEFINE x == side[e]
           h == Flush(x, "hello")
           a == [h EXCEPT !.stage = "hello"]
<1>1. x.task = "drive" /\ backlog' = backlog
  BY DEF Drive, Runs
<1>2. Sound(x) /\ x.raw = "up" /\ x.conn
  BY <1>1, CallbackIs
<1>3. \/ Becomes(e, a) \/ Becomes(e, Return(Took(x)))
      \/ Becomes(e, Handshake(e, Took(x), Record(x)[1]))
  BY <1>2 DEF Drive
<1> HIDE DEF x
<1>4. Sound(h) /\ h.raw = "up"
  BY <1>2, FlushKeeps DEF Wrote
<1> HIDE DEF h
<1>5. Alike(a, h)
  BY <1>4 DEF Alike, Sound, Fields
<1> HIDE DEF a
<1>6. Sound(a) /\ a.raw = "up"
  BY <1>4, <1>5, AlikeIsSound DEF Alike
<1>7. SideInv(a)
  BY <1>6, SideIs DEF Sound
<1>8. Sound(Took(x)) /\ Took(x).raw = "up"
  BY <1>2, TookKeeps DEF Alike
<1>9. LET y == Return(Took(x)) IN Sound(y) /\ SideInv(y) /\ y.raw = "up"
  BY <1>8, ReturnKeeps
<1>10. LET y == Handshake(e, Took(x), Record(x)[1])
       IN  Sound(y) /\ SideInv(y) /\ y.raw \in {"up", "destroyed"}
  BY <1>8, HandshakeKeeps
<1>11. PICK y : Becomes(e, y) /\ Sound(y) /\ SideInv(y) /\ y.raw \in {"up", "destroyed"}
  BY <1>3, <1>6, <1>7, <1>9, <1>10
<1> QED
  BY <1>1, <1>2, <1>11, CallbackKeeps DEF x

\* A write of the queue may destroy the socket, and the next is called all the same.
LEMMA PendingKeeps ==
  ASSUME TlsInv, NEW e \in Ends, Pending(e)
  PROVE  TlsInv'
<1> DEFINE x == side[e]
           t == [x EXCEPT !.task = "told"]
           r == Tail(x.queue)
           q == [x EXCEPT !.queue = r]
<1>1. /\ x.task = "pending" /\ backlog' = backlog
      /\ Becomes(e, t) \/ Becomes(e, SslWriteAll(q, Head(x.queue)))
  BY DEF Pending, Runs
<1>2. Sound(x) /\ x.raw \in {"up", "destroyed"}
  BY <1>1, EndIs DEF Sound
<1> HIDE DEF r
<1>3. CASE Becomes(e, t)
  <2> HIDE DEF x
  <2>1. Alike(t, x) /\ t.task = "told"
    BY <1>2 DEF Alike, Sound, Fields
  <2> HIDE DEF t
  <2>2. Sound(t) /\ t.raw = x.raw
    BY <1>2, <2>1, AlikeIsSound DEF Alike
  <2>3. SideInv(t)
    BY <1>2, <2>1, <2>2, SideIs DEF Sound
  <2> QED
    BY <1>1, <1>2, <1>3, <2>2, <2>3, CallbackKeeps DEF x
<1>4. CASE Becomes(e, SslWriteAll(q, Head(x.queue)))
  <2> HIDE DEF x
  <2>1. Alike(q, x) /\ q.task = x.task
    BY <1>2 DEF Alike, Sound, Fields
  <2> HIDE DEF q
  <2>2. Sound(q) /\ q.raw = x.raw /\ q.open = x.open
    BY <1>2, <2>1, AlikeIsSound DEF Alike
  <2>3. Survives(SslWriteAll(q, Head(x.queue)), q)
    BY <2>2, SslWriteAllKeeps
  <2> QED
    BY <1>1, <1>2, <1>4, <2>1, <2>2, <2>3, SurvivesKeeps DEF x
<1> QED
  BY <1>1, <1>3, <1>4

\* The loop goes on if the listeners left the socket alive.
LEMMA ToldKeeps ==
  ASSUME TlsInv, NEW e \in Ends, Told(e)
  PROVE  TlsInv'
<1> DEFINE x == side[e]
           p == [x EXCEPT !.task = "pump"]
<1>1. /\ x.task = "told" /\ backlog' = backlog
      /\ (Live(x) /\ Becomes(e, p)) \/ Becomes(e, Return(x))
  BY DEF Told, Runs
<1>2. Sound(x) /\ x.raw \in {"up", "destroyed"}
  BY <1>1, EndIs DEF Sound
<1>3. CASE Live(x) /\ Becomes(e, p)
  <2> HIDE DEF x
  <2>1. x.raw = "up"
    BY <1>2, <1>3 DEF Live, Sound
  <2>2. Alike(p, x)
    BY <1>2 DEF Alike, Sound, Fields
  <2> HIDE DEF p
  <2>3. Sound(p) /\ p.raw = "up"
    BY <1>2, <2>1, <2>2, AlikeIsSound DEF Alike
  <2>4. SideInv(p)
    BY <2>3, SideIs DEF Sound
  <2> QED
    BY <1>1, <1>2, <1>3, <2>3, <2>4, CallbackKeeps DEF x
<1>4. CASE Becomes(e, Return(x))
  BY <1>1, <1>2, <1>4, ReturnKeeps, CallbackKeeps
<1> QED
  BY <1>1, <1>3, <1>4

LEMMA PumpKeeps ==
  ASSUME TlsInv, NEW e \in Ends, Pump(e)
  PROVE  TlsInv'
<1> DEFINE x == side[e]
           k == Took(x)
           g == Append(k.got, Record(x))
           a == [k EXCEPT !.got = g]
           d == [a EXCEPT !.task = "told"]
           n == [k EXCEPT !.notified = TRUE]
<1>1. /\ x.task = "pump" /\ backlog' = backlog
      /\ \/ Becomes(e, d)
         \/ \E z \in {AfterEof(x), k, AfterEof(n), Destroy(x)} : Becomes(e, Return(z))
  BY DEF Pump, Runs
<1>2. Sound(x) /\ x.raw = "up"
  BY <1>1, CallbackIs
<1> HIDE DEF x
<1>3. Sound(k) /\ k.raw = "up"
  BY <1>2, TookKeeps DEF Alike
<1> HIDE DEF k, g
<1>4. CASE Becomes(e, d)
  <2>1. Alike(a, k)
    BY <1>3 DEF Alike, Sound, Fields
  <2> HIDE DEF a
  <2>2. Alike(d, k)
    BY <2>1 DEF Alike, Fields
  <2> HIDE DEF d
  <2>3. Sound(d) /\ d.raw = "up"
    BY <1>3, <2>2, AlikeIsSound DEF Alike
  <2>4. SideInv(d)
    BY <2>3, SideIs DEF Sound
  <2> QED
    BY <1>1, <1>2, <1>4, <2>3, <2>4, CallbackKeeps DEF x
<1>5. CASE \E z \in {AfterEof(x), k, AfterEof(n), Destroy(x)} : Becomes(e, Return(z))
  <2>1. Alike(n, k)
    BY <1>3 DEF Alike, Sound, Fields
  <2> HIDE DEF n
  <2>2. Sound(n) /\ n.raw = "up"
    BY <1>3, <2>1, AlikeIsSound DEF Alike
  <2>3. \A z \in {AfterEof(x), AfterEof(n), Destroy(x)} : Sound(z) /\ z.raw \in {"up", "destroyed"}
    BY <1>2, <2>2, AfterEofKeeps, DestroyKeeps DEF Survives
  <2>4. PICK z : Becomes(e, Return(z)) /\ Sound(z) /\ z.raw \in {"up", "destroyed"}
    BY <1>3, <1>5, <2>3
  <2> QED
    BY <1>1, <1>2, <2>4, ReturnKeeps, CallbackKeeps DEF x
<1> QED
  BY <1>1, <1>4, <1>5

----------------------------------------------------------------------------
LEMMA TlsInit == Init => TlsInv
<1> SUFFICES ASSUME Init PROVE TlsInv
  OBVIOUS
<1>1. side = [e \in Ends |-> Side(e = "client")] /\ backlog = FALSE
  BY DEF Init
<1>2. ASSUME NEW c PROVE SideInv(Side(c)) /\ DOMAIN Side(c) = Fields /\ Side(c).raw = "new"
  BY DEF Side, SideInv, Fields
<1> QED
  BY <1>1, <1>2 DEF TlsInv, AliveInv, Ends

LEMMA TlsStep == TlsInv /\ [Next]_vars => TlsInv'
<1> SUFFICES ASSUME TlsInv, [Next]_vars PROVE TlsInv'
  OBVIOUS
<1>1. CASE Listen \/ UNCHANGED vars
  BY <1>1, ListenKeeps
<1>2. CASE Connect \/ ConnectOver \/ Accept \/ CloseServer
  BY <1>2, ConnectsKeep, AcceptKeeps, CloseServerKeeps
<1>3. ASSUME NEW e \in Ends, User(e) PROVE TlsInv'
  BY <1>3, WriteKeeps, EndKeepsAll, UserDestroysKeeps DEF User
<1>4. ASSUME NEW e \in Ends, Loop(e) PROVE TlsInv'
  BY <1>4, RawDataKeeps, RawEofKeeps, RawResetKeeps, RawWritableKeeps, RawShutdownKeeps DEF Loop
<1>5. ASSUME NEW e \in Ends, Callback(e) PROVE TlsInv'
  BY <1>5, FeedKeeps, DriveKeeps, PendingKeeps, ToldKeeps, PumpKeeps DEF Callback
<1> QED
  BY <1>1, <1>2, <1>3, <1>4, <1>5 DEF Next

\* _onRawData, _driveHandshake and _pumpRead (globals.cpp) call SSL only while its
\* object exists: it goes with destroy(), which takes the raw socket along, so that
\* no event of it starts a callback; and the loops look at both after each listener.
THEOREM SslCallsAreSafe == Spec => []NoCallAfterFree
<1>1. TlsInv => NoCallAfterFree
  BY EndIs DEF NoCallAfterFree, Sound, Dead
<1> QED
  BY <1>1, TlsInit, TlsStep, PTL DEF Spec

----------------------------------------------------------------------------
(* What is on its way, as a sequence of bytes *)
Handshakes == Records \ {r \in Records : r[1] \in {"data", "close"}}

LEMMA BytesAre ==
  ASSUME NEW S, NEW q \in Seq(S)
  PROVE  /\ Bytes(q) \in Seq(S) /\ Len(Bytes(q)) = 2 * Len(q)
         /\ \A j \in 1..Len(q) : Bytes(q)[2 * j - 1] = q[j]
<1>1. Len(q) \in Nat /\ q \in [1..Len(q) -> S]
  BY LenProperties
<1>2. \A i \in 1..2 * Len(q) : (i + 1) \div 2 \in 1..Len(q)
  BY <1>1
<1>3. Bytes(q) \in [1..2 * Len(q) -> S] /\ 2 * Len(q) \in Nat
  BY <1>1, <1>2 DEF Bytes
<1>4. Bytes(q) \in Seq(S) /\ Len(Bytes(q)) = 2 * Len(q)
  BY <1>3, SeqDef
<1>5. ASSUME NEW j \in 1..Len(q) PROVE Bytes(q)[2 * j - 1] = q[j]
  <2>1. 2 * j - 1 \in 1..2 * Len(q) /\ ((2 * j - 1) + 1) \div 2 = j
    BY <1>1
  <2> QED
    BY <2>1 DEF Bytes
<1> QED
  BY <1>4, <1>5

LEMMA JoinIs ==
  ASSUME NEW S, NEW w \in Seq(S), NEW b \in Seq(S)
  PROVE  /\ w \o b \in Seq(S) /\ Len(w \o b) = Len(w) + Len(b)
         /\ \A i \in 1..Len(w) : (w \o b)[i] = w[i]
         /\ \A i \in 1..Len(b) : (w \o b)[Len(w) + i] = b[i]
OBVIOUS

LEMMA RestIs ==
  ASSUME NEW S, NEW w \in Seq(S), NEW n \in Nat, n <= Len(w)
  PROVE  /\ SubSeq(w, n + 1, Len(w)) \in Seq(S) /\ Len(SubSeq(w, n + 1, Len(w))) = Len(w) - n
         /\ \A i \in 1..(Len(w) - n) : SubSeq(w, n + 1, Len(w))[i] = w[i + n]
         /\ SubSeq(w, 1, n) \in Seq(S) /\ Len(SubSeq(w, 1, n)) = n
         /\ \A i \in 1..n : SubSeq(w, 1, n)[i] = w[i]
OBVIOUS

LEMMA OneRecord1 ==
  ASSUME NEW r \in Records
  PROVE  Bytes(<<r>>) \in Seq(Records) /\ Len(Bytes(<<r>>)) = 2 /\ Bytes(<<r>>)[1] = r
<1> DEFINE d == <<r>>
<1>1. d \in Seq(Records) /\ Len(d) = 1 /\ d[1] = r
  OBVIOUS
<1> HIDE DEF d
<1>2. Bytes(d) \in Seq(Records) /\ Len(Bytes(d)) = 2 * 1 /\ \A j \in 1..1 : Bytes(d)[2 * j - 1] = d[j]
  BY <1>1, BytesAre
<1> QED
  BY <1>1, <1>2 DEF d

LEMMA NumberedIs ==
  ASSUME NEW a \in Nat, NEW n \in Nat
  PROVE  /\ Numbered(a, n) \in Seq(Records) /\ Len(Numbered(a, n)) = n
         /\ \A j \in 1..n : Numbered(a, n)[j] = <<"data", a + j>>
<1>1. Numbered(a, n) \in [1..n -> Records]
  BY DEF Numbered, Records
<1>2. Numbered(a, n) \in Seq(Records) /\ Len(Numbered(a, n)) = n
  BY <1>1, SeqDef
<1> QED
  BY <1>2 DEF Numbered

LEMMA CarriedTrim ==
  ASSUME NEW w, Len(w) \in Nat, NEW m \in Nat, NEW k \in Nat, NEW h \in Nat, NEW c \in {0, 1}, m <= k,
         Carried(w, m, k, h, c)
  PROVE  \E g \in 0..Len(w) : /\ Carried(w, m, k, g, c)
                              /\ Len(w) = 2 * (h + (k - m) + c) => g = h
<1>1. CASE h <= Len(w)
  BY <1>1
<1>2. CASE h > Len(w)
  <2>1. Carried(w, m, k, Len(w), c)
    BY <1>2 DEF Carried
  <2> QED
    BY <1>2, <2>1
<1> QED
  BY <1>1, <1>2

LEMMA CarriedPrefix ==
  ASSUME NEW w, Len(w) \in Nat, NEW v, Len(v) \in Nat, Len(v) <= Len(w), \A i \in 1..Len(v) : v[i] = w[i],
         NEW m \in Nat, NEW k \in Nat, NEW h \in Nat, NEW c \in {0, 1}, m <= k, Carried(w, m, k, h, c)
  PROVE  Carried(v, m, k, h, c)
BY SMTT(40) DEF Carried

LEMMA JoinOne ==
  ASSUME NEW w \in Seq(Records), NEW r \in Records
  PROVE  /\ w \o Bytes(<<r>>) \in Seq(Records) /\ Len(w \o Bytes(<<r>>)) = Len(w) + 2
         /\ \A i \in 1..Len(w) : (w \o Bytes(<<r>>))[i] = w[i]
         /\ (w \o Bytes(<<r>>))[Len(w) + 1] = r
<1> DEFINE b == Bytes(<<r>>)
<1>1. ASSUME NEW c \in Seq(Records)
      PROVE  /\ w \o c \in Seq(Records) /\ Len(w \o c) = Len(w) + Len(c)
             /\ \A i \in 1..Len(w) : (w \o c)[i] = w[i]
             /\ \A i \in 1..Len(c) : (w \o c)[Len(w) + i] = c[i]
  BY JoinIs
<1>2. b \in Seq(Records) /\ Len(b) = 2 /\ b[1] = r
  BY OneRecord1
<1> HIDE DEF b
<1>3. w \o b \in Seq(Records) /\ Len(w \o b) = Len(w) + Len(b)
  BY <1>1, <1>2
<1>4. \A i \in 1..Len(w) : (w \o b)[i] = w[i]
  BY <1>1, <1>2
<1>5. 1 \in 1..Len(b)
  BY <1>2
<1>6. (w \o b)[Len(w) + 1] = b[1]
  BY <1>1, <1>2, <1>5
<1> QED
  BY <1>2, <1>3, <1>4, <1>6 DEF b

LEMMA CarriedHello ==
  ASSUME NEW w \in Seq(Records), NEW r \in Handshakes, NEW h \in Nat,
         Carried(w, 0, 0, h, 0), Len(w) = 2 * h
  PROVE  LET v == w \o Bytes(<<r>>)
         IN  v \in Seq(Records) /\ Len(v) = 2 * (h + 1) /\ Carried(v, 0, 0, h + 1, 0)
<1> DEFINE b == Bytes(<<r>>)
           v == w \o b
<1>1. r \in Records /\ r[1] \notin {"data", "close"}
  BY DEF Handshakes
<1>3. /\ v \in Seq(Records) /\ Len(v) = Len(w) + 2
      /\ \A i \in 1..Len(w) : v[i] = w[i]
      /\ v[Len(w) + 1] = r
  BY <1>1, JoinOne
<1> HIDE DEF v, b
<1>4. ASSUME NEW j \in 1..Len(v), 2 * j - 1 <= Len(v)
      PROVE  j <= h + 1 /\ v[2 * j - 1][1] \notin {"data", "close"}
  <2>1. j <= h + 1
    BY <1>3, <1>4
  <2>2. CASE j <= h
    <3>1. 2 * j - 1 \in 1..Len(w) /\ j \in 1..Len(w)
      BY <2>2
    <3> QED
      BY <1>3, <2>1, <2>2, <3>1 DEF Carried
  <2>3. CASE j = h + 1
    BY <1>1, <1>3, <2>3
  <2> QED
    BY <2>1, <2>2, <2>3
<1>5. Carried(v, 0, 0, h + 1, 0)
  BY <1>3, <1>4 DEF Carried
<1> QED
  BY <1>3, <1>5 DEF b, v

LEMMA CarriedData ==
  ASSUME NEW w \in Seq(Records), NEW m \in Nat, NEW k \in Nat, NEW h \in Nat, NEW n \in Nat, m <= k,
         Carried(w, m, k, h, 0), Len(w) = 2 * (h + (k - m))
  PROVE  LET v == w \o Bytes(Numbered(k, n))
         IN  v \in Seq(Records) /\ Len(v) = 2 * (h + (k + n - m)) /\ Carried(v, m, k + n, h, 0)
<1> DEFINE d == Numbered(k, n)
           b == Bytes(d)
           v == w \o b
<1>1. d \in Seq(Records) /\ Len(d) = n /\ \A j \in 1..n : d[j] = <<"data", k + j>>
  BY NumberedIs
<1> HIDE DEF d
<1>2. b \in Seq(Records) /\ Len(b) = 2 * n /\ \A j \in 1..n : b[2 * j - 1] = <<"data", k + j>>
  BY <1>1, BytesAre
<1> HIDE DEF b
<1>3. /\ v \in Seq(Records) /\ Len(v) = Len(w) + 2 * n
      /\ \A i \in 1..Len(w) : v[i] = w[i]
      /\ \A i \in 1..Len(b) : v[Len(w) + i] = b[i]
  <2>1. w \o b \in Seq(Records) /\ Len(w \o b) = Len(w) + Len(b)
    BY <1>2, JoinIs
  <2>2. \A i \in 1..Len(w) : (w \o b)[i] = w[i]
    BY <1>2, JoinIs
  <2>3. \A i \in 1..Len(b) : (w \o b)[Len(w) + i] = b[i]
    BY SMTT(40), <1>2, JoinIs
  <2> QED
    BY <1>2, <2>1, <2>2, <2>3
<1> HIDE DEF v
<1>4. Len(v) = 2 * (h + (k + n - m))
  BY <1>3
<1>5. ASSUME NEW j \in 1..Len(v), 2 * j - 1 <= Len(v)
      PROVE  LET r == v[2 * j - 1]
             IN  /\ j <= h => r[1] \notin {"data", "close"}
                 /\ j > h /\ j <= h + (k + n - m) => r = <<"data", m + (j - h)>>
                 /\ j > h + (k + n - m) => r[1] = "close"
  <2>1. j <= h + (k + n - m)
    BY <1>4, <1>5
  <2>2. CASE 2 * j - 1 <= Len(w)
    <3>1. j <= h + (k - m) /\ j \in 1..Len(w) /\ 2 * j - 1 \in 1..Len(w)
      BY <2>2
    <3>2. v[2 * j - 1] = w[2 * j - 1]
      BY <1>3, <3>1
    <3>3. LET r == w[2 * j - 1]
          IN  /\ j <= h => r[1] \notin {"data", "close"}
              /\ j > h /\ j <= h + (k - m) => r = <<"data", m + (j - h)>>
      BY <2>2, <3>1 DEF Carried
    <3> QED
      BY SMTT(40), <2>1, <3>1, <3>2, <3>3
  <2>3. CASE 2 * j - 1 > Len(w)
    <3> DEFINE i == j - (h + (k - m))
    <3>1. j > h + (k - m)
      BY <2>3
    <3>2. i \in 1..n /\ 2 * j - 1 = Len(w) + (2 * i - 1) /\ 2 * i - 1 \in 1..Len(b) /\ k + i = m + (j - h)
      BY <1>2, <2>1, <2>3, <3>1
    <3>3. v[2 * j - 1] = b[2 * i - 1]
      BY <1>3, <3>2
    <3>4. b[2 * i - 1] = <<"data", k + i>>
      BY <1>2, <3>2
    <3> QED
      BY <2>1, <3>1, <3>2, <3>3, <3>4
  <2> QED
    BY SMTT(40), <2>2, <2>3, <1>3
<1>6. Carried(v, m, k + n, h, 0)
  BY <1>4, <1>5 DEF Carried
<1> QED
  BY <1>3, <1>4, <1>6 DEF b, v, d

LEMMA CarriedClose ==
  ASSUME NEW w \in Seq(Records), NEW m \in Nat, NEW k \in Nat, NEW h \in Nat, m <= k,
         Carried(w, m, k, h, 0), Len(w) = 2 * (h + (k - m))
  PROVE  LET v == w \o Bytes(<<<<"close", 0>>>>)
         IN  v \in Seq(Records) /\ Len(v) = 2 * (h + (k - m) + 1) /\ Carried(v, m, k, h, 1)
<1> DEFINE d == <<"close", 0>>
           b == Bytes(<<d>>)
           v == w \o b
<1>1. d \in Records /\ d[1] = "close"
  BY DEF Records
<1> HIDE DEF d
<1>3. /\ v \in Seq(Records) /\ Len(v) = Len(w) + 2
      /\ \A i \in 1..Len(w) : v[i] = w[i]
      /\ v[Len(w) + 1] = d
  BY <1>1, JoinOne
<1> HIDE DEF v, b
<1>4. ASSUME NEW j \in 1..Len(v), 2 * j - 1 <= Len(v)
      PROVE  LET r == v[2 * j - 1]
             IN  /\ j <= h => r[1] \notin {"data", "close"}
                 /\ j > h /\ j <= h + (k - m) => r = <<"data", m + (j - h)>>
                 /\ j > h + (k - m) => r[1] = "close"
  <2>1. j <= h + (k - m) + 1
    BY SMTT(40), <1>3, <1>4
  <2>2. CASE j <= h + (k - m)
    <3>1. 2 * j - 1 \in 1..Len(w) /\ j \in 1..Len(w)
      BY <2>2
    <3>2. v[2 * j - 1] = w[2 * j - 1]
      BY <1>3, <3>1
    <3>3. LET r == w[2 * j - 1]
          IN  /\ j <= h => r[1] \notin {"data", "close"}
              /\ j > h /\ j <= h + (k - m) => r = <<"data", m + (j - h)>>
      BY <2>2, <3>1 DEF Carried
    <3> QED
      BY <2>2, <3>2, <3>3
  <2>3. CASE j = h + (k - m) + 1
    <3>1. 2 * j - 1 = Len(w) + 1
      BY <2>3
    <3> QED
      BY SMTT(40), <1>1, <1>3, <2>3, <3>1
  <2> QED
    BY SMTT(40), <2>1, <2>2, <2>3
<1>5. Carried(v, m, k, h, 1)
  BY <1>3, <1>4 DEF Carried
<1> QED
  BY <1>3, <1>5 DEF b, v, d

\* A record is taken: of the handshake, of data, or close_notify.
LEMMA CarriedTake ==
  ASSUME NEW w \in Seq(Records), NEW m \in Nat, NEW k \in Nat, NEW h \in Nat, NEW c \in {0, 1}, m <= k,
         Carried(w, m, k, h, c), Len(w) >= 2
  PROVE  LET v == SubSeq(w, 3, Len(w))
         IN  /\ v \in Seq(Records) /\ Len(v) = Len(w) - 2
             /\ w[1][1] \notin {"data", "close"} => h > 0 /\ Carried(v, m, k, h - 1, c)
             /\ w[1][1] = "data" => /\ h = 0 /\ m < k /\ w[1] = <<"data", m + 1>>
                                    /\ Carried(v, m + 1, k, 0, c)
             /\ w[1][1] = "close" => h = 0 /\ k = m /\ c = 1 /\ v = << >> /\ Carried(v, m, k, 0, 0)
<1> DEFINE v == SubSeq(w, 3, Len(w))
<1>1. v \in Seq(Records) /\ Len(v) = Len(w) - 2 /\ \A i \in 1..Len(v) : v[i] = w[i + 2]
  <2>1. 2 \in Nat /\ 2 <= Len(w) /\ 2 + 1 = 3
    OBVIOUS
  <2>2. /\ SubSeq(w, 2 + 1, Len(w)) \in Seq(Records) /\ Len(SubSeq(w, 2 + 1, Len(w))) = Len(w) - 2
        /\ \A i \in 1..(Len(w) - 2) : SubSeq(w, 2 + 1, Len(w))[i] = w[i + 2]
    BY ZenonT(60), <2>1, RestIs
  <2> QED
    BY <2>1, <2>2
<1> HIDE DEF v
<1>2. /\ 1 <= h => w[1][1] \notin {"data", "close"}
      /\ 1 > h /\ 1 <= h + (k - m) => w[1] = <<"data", m + (1 - h)>>
      /\ 1 > h + (k - m) => w[1][1] = "close"
  <2>1. 1 \in 1..Len(w) /\ 2 * 1 - 1 = 1
    OBVIOUS
  <2> QED
    BY <2>1 DEF Carried
<1>3. ASSUME NEW j \in 1..Len(v), 2 * j - 1 <= Len(v)
      PROVE  LET r == v[2 * j - 1]
             IN  /\ j + 1 <= h => r[1] \notin {"data", "close"}
                 /\ j + 1 > h /\ j + 1 <= h + (k - m) => r = <<"data", m + ((j + 1) - h)>>
                 /\ j + 1 > h + (k - m) => r[1] = "close"
  <2>1. v[2 * j - 1] = w[2 * (j + 1) - 1] /\ j + 1 \in 1..Len(w) /\ 2 * (j + 1) - 1 <= Len(w)
    BY <1>1, <1>3
  <2> QED
    BY <2>1 DEF Carried
<1>4. Len(w) <= 2 * (h + (k - m) + c)
  BY DEF Carried
<1>5. CASE w[1][1] \notin {"data", "close"}
  <2>1. h > 0
    BY <1>2, <1>5
  <2>2. Carried(v, m, k, h - 1, c)
    BY <1>1, <1>3, <1>4, <2>1 DEF Carried
  <2> QED
    BY <1>1, <1>5, <2>1, <2>2 DEF v
<1>6. CASE w[1][1] = "data"
  <2>1. h = 0 /\ k > m /\ w[1] = <<"data", m + 1>>
    BY <1>2, <1>6
  <2>2. Carried(v, m + 1, k, 0, c)
    BY <1>1, <1>3, <1>4, <2>1 DEF Carried
  <2> QED
    BY <1>1, <1>6, <2>1, <2>2 DEF v
<1>7. CASE w[1][1] = "close"
  <2>1. h = 0 /\ k = m /\ c = 1 /\ Len(v) = 0
    BY <1>1, <1>2, <1>4, <1>7
  <2>2. v = << >> /\ Carried(v, m, k, 0, 0)
    BY <1>1, <2>1 DEF Carried
  <2> QED
    BY <1>1, <1>7, <2>1, <2>2 DEF v
<1> QED
  BY <1>5, <1>6, <1>7

----------------------------------------------------------------------------
(* The way from one SSL to the other *)
LEMMA SplitIs ==
  ASSUME NEW S, NEW q \in Seq(S), NEW n \in 0..Len(q)
  PROVE  /\ SubSeq(q, 1, n) \in Seq(S) /\ SubSeq(q, n + 1, Len(q)) \in Seq(S)
         /\ SubSeq(q, 1, n) \o SubSeq(q, n + 1, Len(q)) = q
<1>1. SubSeq(q, 1, n) \in Seq(S) /\ SubSeq(q, n + 1, Len(q)) \in Seq(S)
  BY RestIs
<1>2. 1 \in 1..(Len(q) + 1) /\ n \in (1 - 1)..Len(q) /\ Len(q) \in n..Len(q)
  OBVIOUS
<1>3. SubSeq(q, 1, n) \o SubSeq(q, n + 1, Len(q)) = SubSeq(q, 1, Len(q))
  BY <1>2, ConcatAdjacentSubSeq
<1>4. SubSeq(q, 1, Len(q)) = q
  BY SubSeqFull
<1> QED
  BY <1>1, <1>3, <1>4

LEMMA Assoc ==
  \A u1, u2, u3 \in Seq(Records) : (u1 \o u2) \o u3 = u1 \o (u2 \o u3)
BY SMTT(40), ConcatAssociative

LEMMA AssocOf ==
  ASSUME NEW u1 \in Seq(Records), NEW u2 \in Seq(Records)
  PROVE  \A u3 \in Seq(Records) : (u1 \o u2) \o u3 = u1 \o (u2 \o u3)
BY SMTT(40), ConcatAssociative

Whole(p, r, c, o, s) == p \o (r \o (c \o (o \o s)))

LEMMA WholeIs ==
  ASSUME NEW p \in Seq(Records), NEW r \in Seq(Records), NEW c \in Seq(Records),
         NEW o \in Seq(Records), NEW s \in Seq(Records)
  PROVE  /\ Whole(p, r, c, o, s) \in Seq(Records)
         /\ Len(Whole(p, r, c, o, s)) = Len(p) + Len(r) + Len(c) + Len(o) + Len(s)
<1>1. o \o s \in Seq(Records) /\ Len(o \o s) = Len(o) + Len(s)
  BY JoinIs
<1> DEFINE a == o \o s
<1> HIDE DEF a
<1>2. c \o a \in Seq(Records) /\ Len(c \o a) = Len(c) + Len(a)
  BY <1>1, JoinIs DEF a
<1> DEFINE b == c \o a
<1> HIDE DEF b
<1>3. r \o b \in Seq(Records) /\ Len(r \o b) = Len(r) + Len(b)
  BY <1>2, JoinIs DEF b
<1> DEFINE d == r \o b
<1> HIDE DEF d
<1>4. p \o d \in Seq(Records) /\ Len(p \o d) = Len(p) + Len(d)
  BY <1>3, JoinIs DEF d
<1>5. Len(p \o d) = Len(p) + (Len(r) + (Len(c) + (Len(o) + Len(s))))
  BY <1>1, <1>2, <1>3, <1>4 DEF a, b, d
<1>6. Len(p) \in Nat /\ Len(r) \in Nat /\ Len(c) \in Nat /\ Len(o) \in Nat /\ Len(s) \in Nat
  OBVIOUS
<1>7. Whole(p, r, c, o, s) = p \o d
  BY DEF Whole, a, b, d
<1> HIDE DEF Whole
<1> QED
  BY <1>4, <1>5, <1>6, <1>7

LEMMA JoinsAre ==
  /\ \A a, b \in Seq(Records) : a \o b \in Seq(Records)
  /\ \A a, b, c \in Seq(Records) : (a \o b) \o c = a \o (b \o c)
<1>1. ASSUME NEW a \in Seq(Records), NEW b \in Seq(Records) PROVE a \o b \in Seq(Records)
  BY JoinIs
<1>2. ASSUME NEW a \in Seq(Records), NEW b \in Seq(Records), NEW c \in Seq(Records)
      PROVE  (a \o b) \o c = a \o (b \o c)
  BY Assoc, Zenon
<1> QED
  BY <1>1, <1>2

LEMMA WholeEmpty ==
  ASSUME NEW s \in Seq(Records)
  PROVE  s \o << >> = s /\ << >> \o s = s
BY ConcatEmptySeq

\* Bytes are added at the end.
LEMMA WholeAdds ==
  ASSUME NEW p \in Seq(Records), NEW r \in Seq(Records), NEW c \in Seq(Records),
         NEW o \in Seq(Records), NEW s \in Seq(Records), NEW t \in Seq(Records)
  PROVE  Whole(p, r, c, o, s \o t) = Whole(p, r, c, o, s) \o t
<1> DEFINE a == o \o s
           b == c \o a
           d == r \o b
<1>1. o \o (s \o t) = a \o t /\ a \in Seq(Records)
  <2>1. (o \o s) \o t = o \o (s \o t)
    BY ZenonT(60), Assoc
  <2> QED
    BY <2>1, JoinsAre
<1> HIDE DEF a
<1>2. c \o (a \o t) = b \o t /\ b \in Seq(Records)
  BY ZenonT(60), <1>1, JoinsAre
<1> HIDE DEF b
<1>3. r \o (b \o t) = d \o t /\ d \in Seq(Records)
  BY ZenonT(60), <1>2, JoinsAre
<1> HIDE DEF d
<1>4. p \o (d \o t) = (p \o d) \o t
  BY ZenonT(60), <1>3, JoinsAre
<1> QED
  BY <1>1, <1>2, <1>3, <1>4 DEF Whole, a, b, d

\* The first bytes of one part become the last of the part before it.
LEMMA WholeMoves ==
  ASSUME NEW p \in Seq(Records), NEW r \in Seq(Records), NEW c \in Seq(Records),
         NEW o \in Seq(Records), NEW s \in Seq(Records), NEW a \in Seq(Records)
  PROVE  /\ Whole(p, r, c, o \o a, s) = Whole(p, r, c, o, a \o s)
         /\ Whole(p, r, c \o a, o, s) = Whole(p, r, c, a \o o, s)
         /\ Whole(p, r \o a, c, o, s) = Whole(p, r, a \o c, o, s)
         /\ Whole(p \o a, r, c, o, s) = Whole(p, a \o r, c, o, s)
<1> DEFINE d == o \o s
           e == c \o d
           f == r \o e
<1>0. /\ \A y \in Seq(Records) : (c \o a) \o y = c \o (a \o y)
      /\ \A y \in Seq(Records) : (a \o o) \o y = a \o (o \o y)
      /\ \A y \in Seq(Records) : (r \o a) \o y = r \o (a \o y)
      /\ \A y \in Seq(Records) : (a \o c) \o y = a \o (c \o y)
      /\ \A y \in Seq(Records) : (p \o a) \o y = p \o (a \o y)
      /\ \A y \in Seq(Records) : (a \o r) \o y = a \o (r \o y)
  BY ZenonT(60), AssocOf
<1>1. (o \o a) \o s = o \o (a \o s)
  BY ZenonT(60), Assoc
<1>2. d \in Seq(Records)
  BY JoinIs
<1>3. (c \o a) \o d = c \o (a \o d) /\ a \o d = (a \o o) \o s
  BY <1>0, <1>2
<1>4. e \in Seq(Records)
  BY <1>2, JoinIs
<1>5. (r \o a) \o e = r \o (a \o e) /\ a \o e = (a \o c) \o d
  BY <1>0, <1>2, <1>4
<1>6. f \in Seq(Records)
  BY <1>4, JoinIs
<1>7. (p \o a) \o f = p \o (a \o f) /\ a \o f = (a \o r) \o e
  BY <1>0, <1>4, <1>6
<1>8. Whole(p, r, c, o \o a, s) = Whole(p, r, c, o, a \o s)
  BY <1>1 DEF Whole
<1>9. Whole(p, r, c \o a, o, s) = Whole(p, r, c, a \o o, s)
  BY <1>3 DEF Whole
<1>10. Whole(p, r \o a, c, o, s) = Whole(p, r, a \o c, o, s)
  BY <1>5 DEF Whole
<1>11. Whole(p \o a, r, c, o, s) = Whole(p, a \o r, c, o, s)
  BY <1>7 DEF Whole
<1> QED
  BY <1>8, <1>9, <1>10, <1>11

\* SSL takes a record from what is at its end of the way.
LEMMA WholeTakes ==
  ASSUME NEW p \in Seq(Records), NEW r \in Seq(Records), NEW c \in Seq(Records),
         NEW o \in Seq(Records), NEW s \in Seq(Records), Len(p \o r) >= 2
  PROVE  LET i == p \o r
             w == Whole(p, r, c, o, s)
         IN  /\ Whole(<< >>, SubSeq(i, 3, Len(i)), c, o, s) = SubSeq(w, 3, Len(w))
             /\ w[1] = i[1] /\ Len(w) >= 2 /\ i[1] \in Records
<1> DEFINE i == p \o r
           b == c \o (o \o s)
           w == Whole(p, r, c, o, s)
           t == SubSeq(i, 3, Len(i))
<1>1. i \in Seq(Records)
  BY JoinIs
<1>2. o \o s \in Seq(Records)
  BY JoinIs
<1>3. b \in Seq(Records)
  BY <1>2, JoinIs
<1>4. w = i \o b
  BY <1>3, JoinsAre, Zenon DEF Whole
<1>5. i[1] \in Records
  BY <1>1, ElementOfSeq
<1>6. t \in Seq(Records) /\ Whole(<< >>, t, c, o, s) = t \o b
  <2>1. 2 \in Nat /\ 2 <= Len(i) /\ 2 + 1 = 3
    OBVIOUS
  <2>2. t \in Seq(Records)
    BY <1>1, <2>1, RestIs
  <2>3. t \o b \in Seq(Records)
    BY <1>3, <2>2, JoinIs
  <2>4. << >> \o (t \o b) = t \o b
    BY <2>3, ConcatEmptySeq
  <2> QED
    BY <2>2, <2>4 DEF Whole
<1>7. Len(i) >= 2
  OBVIOUS
<1> HIDE DEF i, b, w
<1>8. t \o b = SubSeq(w, 3, Len(w)) /\ w[1] = i[1] /\ Len(w) >= 2
  <2> DEFINE v == i \o b
             u == SubSeq(v, 3, Len(v))
  <2>1. v \in Seq(Records) /\ Len(v) = Len(i) + Len(b)
    BY <1>1, <1>3, JoinIs
  <2>2. \A j \in 1..Len(i) : v[j] = i[j]
    BY <1>1, <1>3, JoinIs
  <2>3. \A j \in 1..Len(b) : v[Len(i) + j] = b[j]
    BY SMTT(40), <1>1, <1>3, JoinIs
  <2> HIDE DEF v
  <2>4. Len(v) >= 2 /\ v[1] = i[1]
    <3>1. Len(i) \in Nat /\ Len(b) \in Nat
      BY <1>1, <1>3, LenProperties
    <3>2. 1 \in 1..Len(i)
      BY <1>7, <3>1
    <3>3. Len(v) >= 2
      BY <1>7, <2>1, <3>1
    <3> QED
      BY <2>2, <3>2, <3>3
  <2>5. 2 \in Nat /\ 2 <= Len(v) /\ 2 <= Len(i) /\ 2 + 1 = 3
    BY <1>7, <2>4
  <2>6. u \in Seq(Records) /\ Len(u) = Len(v) - 2 /\ \A j \in 1..(Len(v) - 2) : u[j] = v[j + 2]
    BY <2>1, <2>5, RestIs
  <2>7. Len(t) = Len(i) - 2 /\ \A j \in 1..(Len(i) - 2) : t[j] = i[j + 2]
    <3>1. /\ Len(SubSeq(i, 2 + 1, Len(i))) = Len(i) - 2
          /\ \A j \in 1..(Len(i) - 2) : SubSeq(i, 2 + 1, Len(i))[j] = i[j + 2]
      BY ZenonT(60), <1>1, <2>5, RestIs
    <3> QED
      BY <2>5, <3>1
  <2> DEFINE y == t \o b
  <2> HIDE DEF t, u
  <2>8. y \in Seq(Records) /\ Len(y) = Len(t) + Len(b)
    BY <1>3, <1>6, JoinIs
  <2>9. \A j \in 1..Len(t) : y[j] = t[j]
    BY <1>3, <1>6, JoinIs
  <2>10. \A j \in 1..Len(b) : y[Len(t) + j] = b[j]
    BY <1>3, <1>6, JoinIs
  <2> HIDE DEF y
  <2>11. Len(i) \in Nat /\ Len(b) \in Nat /\ Len(y) = Len(u)
    BY SMTT(40), <1>1, <1>3, <2>1, <2>6, <2>7, <2>8
  <2>12. ASSUME NEW j \in 1..Len(y) PROVE y[j] = u[j]
    <3>1. CASE j <= Len(t)
      <4>1. j \in 1..Len(t) /\ j + 2 \in 1..Len(i) /\ j \in 1..(Len(i) - 2) /\ j \in 1..(Len(v) - 2)
        BY <2>1, <2>7, <2>11, <3>1
      <4> QED
        BY <2>2, <2>6, <2>7, <2>9, <4>1
    <3>2. CASE j > Len(t)
      <4> DEFINE l == j - Len(t)
      <4>1. l \in 1..Len(b) /\ j = Len(t) + l /\ j + 2 = Len(i) + l /\ j \in 1..(Len(v) - 2)
        BY <2>1, <2>7, <2>8, <2>11, <3>2
      <4> HIDE DEF l
      <4>2. y[j] = b[l] /\ v[j + 2] = b[l]
        BY <2>3, <2>10, <4>1
      <4> QED
        BY <2>6, <4>1, <4>2
    <3>3. Len(t) \in Nat
      BY <2>7, <2>11, <1>7
    <3> QED
      BY <3>1, <3>2, <3>3
  <2>13. y = u
    BY <2>6, <2>8, <2>11, <2>12, SeqEqual
  <2> QED
    BY <1>4, <2>4, <2>13 DEF y, u, v
<1> QED
  BY <1>5, <1>6, <1>8 DEF i, w

----------------------------------------------------------------------------
(* What the kernel holds *)
FinLast(q) == \A i \in DOMAIN q : q[i] = Fin => i = Len(q)
LEMMA FinIsNone == Fin \notin Records
BY DEF Fin, Records

LEMMA BareIs ==
  ASSUME NEW q \in Seq(Records \cup {Fin}), FinLast(q)
  PROVE  /\ Bare(q) \in Seq(Records)
         /\ (\A i \in DOMAIN q : q[i] # Fin) => Bare(q) = q /\ q \in Seq(Records)
<1>1. Len(q) \in Nat /\ DOMAIN q = 1..Len(q) /\ \A i \in 1..Len(q) : q[i] \in Records \cup {Fin}
  BY LenProperties
<1>2. CASE q # << >> /\ q[Len(q)] = Fin
  <2>1. Len(q) > 0
    BY <1>1, <1>2
  <2> DEFINE n == Len(q) - 1
  <2>2. n \in Nat /\ n <= Len(q)
    BY <1>1, <2>1
  <2>3. \A i \in 1..n : q[i] \in Records
    BY <1>1, <2>1 DEF FinLast
  <2>4. SubSeq(q, 1, n) \in Seq(Records)
    BY <2>2, <2>3, SubSeqProperties
  <2>5. Bare(q) = SubSeq(q, 1, n)
    BY <1>2 DEF Bare
  <2>6. Len(q) \in DOMAIN q
    BY <1>1, <2>1
  <2> HIDE DEF n
  <2> QED
    BY <1>2, <2>4, <2>5, <2>6
<1>3. CASE ~(q # << >> /\ q[Len(q)] = Fin)
  <2>1. \A i \in 1..Len(q) : q[i] \in Records
    BY <1>1, <1>3 DEF FinLast
  <2>2. q \in [1..Len(q) -> Records]
    BY <1>1, <2>1
  <2>3. q \in Seq(Records)
    BY <1>1, <2>2, SeqDef
  <2> QED
    BY <1>3, <2>3 DEF Bare
<1> QED
  BY <1>2, <1>3

LEMMA BareOf ==
  ASSUME NEW q \in Seq(Records)
  PROVE  /\ Bare(q) = q /\ Bare(Append(q, Fin)) = q
         /\ q \in Seq(Records \cup {Fin}) /\ Append(q, Fin) \in Seq(Records \cup {Fin})
         /\ \A i \in DOMAIN q : q[i] # Fin
         /\ \A i \in DOMAIN Append(q, Fin) : Append(q, Fin)[i] = Fin => i = Len(Append(q, Fin))
<1>1. Len(q) \in Nat /\ DOMAIN q = 1..Len(q) /\ \A i \in 1..Len(q) : q[i] \in Records
  BY LenProperties
<1>2. \A i \in DOMAIN q : q[i] # Fin
  BY <1>1, FinIsNone
<1>3. Bare(q) = q
  <2>1. q # << >> => Len(q) \in DOMAIN q
    BY <1>1, EmptySeq
  <2> QED
    BY <1>2, <2>1 DEF Bare
<1>4. q \in Seq(Records \cup {Fin})
  BY SeqMonotonic
<1> DEFINE a == Append(q, Fin)
<1>5. /\ a \in Seq(Records \cup {Fin}) /\ Len(a) = Len(q) + 1 /\ a[Len(a)] = Fin
      /\ \A i \in 1..Len(q) : a[i] = q[i]
  BY <1>4, AppendProperties
<1> HIDE DEF a
<1>6. SubSeq(a, 1, Len(q)) = q
  <2>1. \A i \in 1..Len(q) : a[i] \in Records
    BY <1>1, <1>5
  <2>2. /\ SubSeq(a, 1, Len(q)) \in Seq(Records) /\ Len(SubSeq(a, 1, Len(q))) = Len(q)
        /\ \A i \in 1..Len(q) : SubSeq(a, 1, Len(q))[i] = q[i]
    <3>1. Len(q) \in Nat /\ Len(q) <= Len(a)
      BY <1>1, <1>5
    <3>2. /\ Len(SubSeq(a, 1, Len(q))) = Len(q)
          /\ \A i \in 1..Len(q) : SubSeq(a, 1, Len(q))[i] = a[i]
      BY <1>5, <3>1, RestIs
    <3>3. SubSeq(a, 1, Len(q)) \in Seq(Records)
      BY <1>1, <2>1, SubSeqProperties
    <3> QED
      BY <1>5, <3>2, <3>3
  <2> QED
    BY <2>2, SeqEqual
<1>7. Bare(a) = q
  <2>1. Len(a) - 1 = Len(q) /\ a # << >>
    BY <1>1, <1>5
  <2> QED
    BY <1>5, <1>6, <2>1 DEF Bare
<1>8. \A i \in DOMAIN a : a[i] = Fin => i = Len(a)
  <2>1. DOMAIN a = 1..Len(a)
    BY <1>5, LenProperties
  <2> QED
    BY <1>1, <1>2, <1>5, <2>1
<1> QED
  BY <1>2, <1>3, <1>4, <1>5, <1>7, <1>8 DEF a

\* A read takes bytes in front of the FIN.
LEMMA BareRead ==
  ASSUME NEW q \in Seq(Records \cup {Fin}), FinLast(q), NEW n \in 1..Len(q), q[n] # Fin
  PROVE  LET a == SubSeq(q, 1, n)
             z == SubSeq(q, n + 1, Len(q))
         IN  /\ a \in Seq(Records) /\ z \in Seq(Records \cup {Fin}) /\ Bare(z) \in Seq(Records)
             /\ FinLast(z) /\ ((\E i \in DOMAIN z : z[i] = Fin) => (\E i \in DOMAIN q : q[i] = Fin))
             /\ a \o Bare(z) = Bare(q)
<1> DEFINE a == SubSeq(q, 1, n)
           z == SubSeq(q, n + 1, Len(q))
<1>1. Len(q) \in Nat /\ DOMAIN q = 1..Len(q) /\ \A i \in 1..Len(q) : q[i] \in Records \cup {Fin}
  BY LenProperties
<1>2. \A i \in 1..n : q[i] \in Records
  BY <1>1 DEF FinLast
<1>3. a \in Seq(Records)
  BY <1>2, SubSeqProperties
<1>4. n \in Nat /\ n <= Len(q) /\ n \in 0..Len(q)
  BY <1>1
<1>5. /\ z \in Seq(Records \cup {Fin}) /\ Len(z) = Len(q) - n
      /\ \A i \in 1..(Len(q) - n) : z[i] = q[i + n]
  BY <1>4, RestIs
<1>6. a \o z = q
  BY <1>4, SplitIs
<1>7. Len(a) = n
  BY <1>4, RestIs
<1> HIDE DEF a, z
<1>8. DOMAIN z = 1..(Len(q) - n)
  BY <1>5, LenProperties
<1>9. FinLast(z) /\ ((\E i \in DOMAIN z : z[i] = Fin) => (\E i \in DOMAIN q : q[i] = Fin))
  <2>1. ASSUME NEW i \in DOMAIN z, z[i] = Fin PROVE i = Len(z) /\ (\E j \in DOMAIN q : q[j] = Fin)
    <3>1. i + n \in DOMAIN q /\ q[i + n] = Fin
      BY <1>1, <1>4, <1>5, <1>8, <2>1
    <3>2. i + n = Len(q)
      BY <3>1 DEF FinLast
    <3> QED
      BY <1>1, <1>4, <1>5, <1>8, <3>1, <3>2
  <2> QED
    BY <2>1 DEF FinLast
<1>10. Bare(z) \in Seq(Records)
  BY <1>5, <1>9, BareIs
<1>11. CASE q[Len(q)] = Fin
  <2>1. n < Len(q)
    BY <1>4, <1>11
  <2>2. Len(q) > 0 /\ z # << >> /\ z[Len(z)] = Fin /\ Bare(z) = SubSeq(z, 1, Len(z) - 1)
    BY <1>1, <1>4, <1>5, <1>11, <2>1 DEF Bare
  <2>3. q # << >> /\ Bare(q) = SubSeq(q, 1, Len(q) - 1)
    BY <1>1, <1>11, <2>2 DEF Bare
  <2> DEFINE l == Len(q) - 1
  <2>4. 1 \in 1..(Len(q) + 1) /\ n \in (1 - 1)..Len(q) /\ l \in n..Len(q)
    BY <1>1, <1>4, <2>1
  <2>5. SubSeq(q, 1, n) \o SubSeq(q, n + 1, l) = SubSeq(q, 1, l)
    BY <2>4, ConcatAdjacentSubSeq
  <2>6. SubSeq(q, n + 1, l) = SubSeq(z, 1, Len(z) - 1)
    <3> DEFINE u == SubSeq(q, n + 1, l)
               v == SubSeq(z, 1, Len(z) - 1)
    <3>1. \A i \in (n + 1)..l : q[i] \in Records
      BY <1>1, <1>4 DEF FinLast
    <3>2. /\ u \in Seq(Records) /\ Len(u) = IF n + 1 <= l THEN l - (n + 1) + 1 ELSE 0
          /\ \A i \in 1..(l - (n + 1) + 1) : u[i] = q[(n + 1) + i - 1]
      <4>1. n + 1 \in Int /\ l \in Int
        BY <1>1, <1>4
      <4> QED
        BY <3>1, <4>1, SubSeqProperties
    <3>3. Len(z) - 1 \in Nat /\ Len(z) - 1 <= Len(z)
      BY <1>1, <1>4, <1>5, <2>1
    <3>4. Len(v) = Len(z) - 1 /\ \A i \in 1..(Len(z) - 1) : v[i] = z[i]
      BY <1>5, <3>3, RestIs
    <3>5. v \in Seq(Records)
      BY <1>10, <2>2
    <3> HIDE DEF u, v
    <3>6. Len(u) = Len(z) - 1 /\ \A i \in 1..Len(u) : u[i] = q[i + n]
      <4>1. l - (n + 1) + 1 = Len(z) - 1
        BY <1>1, <1>4, <1>5
      <4>2. Len(u) = Len(z) - 1
        <5>1. n + 1 <= l \/ Len(z) - 1 = 0
          <6> DEFINE lq == Len(q)
          <6>1. n + 1 <= lq - 1 \/ lq - n - 1 = 0
            <7>1. lq \in Nat /\ n \in Nat /\ n < lq
              BY <1>1, <1>4, <2>1
            <7> HIDE DEF lq
            <7> QED
              BY <7>1
          <6> QED
            BY <1>5, <6>1
        <5>2. CASE n + 1 <= l
          BY <3>2, <4>1, <5>2
        <5>3. CASE ~(n + 1 <= l)
          BY <3>2, <5>1, <5>3
        <5> QED
          BY <5>2, <5>3
      <4>3. ASSUME NEW i \in 1..Len(u) PROVE u[i] = q[i + n]
        <5>1. i \in 1..(l - (n + 1) + 1) /\ (n + 1) + i - 1 = i + n
          BY <1>1, <1>4, <4>1, <4>2, <4>3
        <5> QED
          BY <3>2, <5>1
      <4> QED
        BY <4>2, <4>3
    <3>7. \A i \in 1..Len(u) : u[i] = v[i]
      BY <1>1, <1>4, <1>5, <3>4, <3>6
    <3> QED
      BY <3>2, <3>4, <3>5, <3>6, <3>7, SeqEqual DEF u, v
  <2> QED
    BY <1>3, <1>5, <1>9, <1>10, <2>2, <2>3, <2>5, <2>6 DEF a, z
<1>12. CASE q[Len(q)] # Fin
  <2>1. \A i \in DOMAIN z : z[i] # Fin
    <3>1. \A i \in DOMAIN z : i + n \in DOMAIN q
      BY <1>1, <1>4, <1>5, <1>8
    <3> QED
      BY <1>5, <1>8, <1>12, <3>1 DEF FinLast
  <2>2. Bare(z) = z
    BY <1>5, <1>9, <2>1, BareIs
  <2>3. \A i \in DOMAIN q : q[i] # Fin
    BY <1>12 DEF FinLast
  <2>4. Bare(q) = q
    BY <2>3, BareIs
  <2> QED
    BY <1>3, <1>5, <1>6, <1>9, <1>10, <2>2, <2>4 DEF a, z
<1> QED
  BY <1>11, <1>12

----------------------------------------------------------------------------
(* The functions of the raw socket, and what is on its way *)
\* What they leave alone.
SameTls(z, x) ==
  /\ z.conn = x.conn /\ z.open = x.open /\ z.writable = x.writable /\ z.destroyed = x.destroyed
  /\ z.closing = x.closing /\ z.ended = x.ended /\ z.queue = x.queue /\ z.task = x.task
  /\ z.chunk = x.chunk /\ z.last = x.last /\ z.stage = x.stage /\ z.part = x.part
  /\ z.ring = x.ring /\ z.notified = x.notified /\ z.stuck = x.stuck /\ z.raw = x.raw
  /\ z.put = x.put /\ z.got = x.got /\ z.cut = x.cut
Sent(x) == Bare(x.out) \o x.sendq
Good(x) == Sound(x) /\ Typed(x) /\ Linked(x)

LEMMA SentIs ==
  ASSUME NEW x, Good(x)
  PROVE  /\ Bare(x.out) \in Seq(Records) /\ x.sendq \in Seq(Records) /\ Sent(x) \in Seq(Records)
         /\ ~x.finned => x.out \in Seq(Records) /\ Bare(x.out) = x.out
<1>1. x.out \in Seq(Records \cup {Fin}) /\ FinLast(x.out) /\ x.sendq \in Seq(Records)
  BY DEF Good, Typed, Linked, FinLast
<1>2. Bare(x.out) \in Seq(Records)
  BY <1>1, BareIs
<1>3. ~x.finned => \A i \in DOMAIN x.out : x.out[i] # Fin
  BY DEF Good, Linked
<1>4. ~x.finned => x.out \in Seq(Records) /\ Bare(x.out) = x.out
  BY <1>1, <1>3, BareIs
<1>5. Sent(x) \in Seq(Records)
  BY <1>1, <1>2, JoinsAre DEF Sent
<1> QED
  BY <1>1, <1>2, <1>4, <1>5

LEMMA FinishGood ==
  ASSUME NEW x, Good(x), x.raw = "up"
  PROVE  LET z == Finish(x)
         IN  Good(z) /\ SameTls(z, x) /\ z.out = x.out /\ z.sendq = x.sendq /\ z.finned = x.finned
<1> DEFINE y == [x EXCEPT !.draining = FALSE, !.rawWritable = FALSE, !.finTimer = TRUE]
           z == Finish(x)
<1>1. CASE x.draining /\ x.sendq = << >>
  <2>1. z = y
    BY <1>1 DEF Finish
  <2>2. DOMAIN x = Fields
    BY DEF Good, Sound
  <2>3. /\ SameTls(y, x) /\ y.out = x.out /\ y.sendq = x.sendq /\ y.finned = x.finned
        /\ ~y.draining /\ ~y.rawWritable /\ y.finTimer /\ y.rawReadable = x.rawReadable /\ DOMAIN y = Fields
    BY <2>2 DEF SameTls, Fields
  <2> HIDE DEF y, z
  <2>4. Sound(y)
    BY <2>3 DEF Good, Sound, Dead, SameTls
  <2>5. Typed(y)
    BY <2>3 DEF Good, Typed, SameTls
  <2>6. Linked(y)
    BY <1>1, <2>3 DEF Good, Linked, SameTls
  <2> QED
    BY <2>1, <2>3, <2>4, <2>5, <2>6 DEF Good, z
<1>2. CASE ~(x.draining /\ x.sendq = << >>)
  BY <1>2 DEF Finish, SameTls
<1> QED
  BY <1>1, <1>2

LEMMA SendsGood ==
  ASSUME NEW x, Good(x), x.raw = "up"
  PROVE  LET z == Sends(x)
         IN  Good(z) /\ SameTls(z, x) /\ Sent(z) = Sent(x) /\ (x.sendq = << >> => z.sendq = << >>)
<1> DEFINE n == Smaller(Len(x.sendq), KernelSize - Smaller(Len(x.out), KernelSize))
           a == SubSeq(x.sendq, 1, n)
           o == x.out \o a
           q == SubSeq(x.sendq, n + 1, Len(x.sendq))
           y == [x EXCEPT !.out = o, !.sendq = q]
           z == Sends(x)
<1>1. z = Finish(y)
  BY DEF Sends
<1>2. x.sendq \in Seq(Records) /\ Bare(x.out) \in Seq(Records) /\ x.out \in Seq(Records \cup {Fin})
  BY SentIs DEF Good, Typed
<1>3. n \in 0..Len(x.sendq)
  <2>1. Len(x.sendq) \in Nat /\ Len(x.out) \in Nat /\ KernelSize \in Nat
    BY <1>2, LenProperties, TlsAssumption
  <2> QED
    BY <2>1 DEF Smaller
<1> HIDE DEF n
<1>4. a \in Seq(Records) /\ q \in Seq(Records) /\ a \o q = x.sendq
  BY <1>2, <1>3, SplitIs
<1>5. x.sendq = << >> => q = << >> /\ a = << >>
  <2>1. Len(x.sendq) \in Nat
    BY <1>2, LenProperties
  <2>2. ASSUME x.sendq = << >> PROVE Len(a) = 0 /\ Len(q) = 0
    <3>1. n = 0 /\ Len(x.sendq) = 0
      BY <1>3, <2>2
    <3>2. 0 \in Nat /\ 0 <= Len(x.sendq)
      BY <2>1
    <3> QED
      BY <1>2, <3>1, <3>2, RestIs
  <2> QED
    BY <1>4, <2>2, EmptySeq
<1> HIDE DEF a, q
<1>6. o \in Seq(Records \cup {Fin}) /\ (\A i \in DOMAIN o : o[i] = Fin => i = Len(o) /\ x.finned)
      /\ Bare(o) \o q = Bare(x.out) \o x.sendq
  <2>1. CASE x.sendq = << >>
    <3>1. o = x.out
      BY <1>2, <1>5, <2>1, ConcatEmptySeq
    <3> QED
      BY <1>2, <1>5, <2>1, <3>1 DEF Good, Linked
  <2>2. CASE x.sendq # << >>
    <3>1. ~x.finned
      BY <2>2 DEF Good, Linked
    <3>2. x.out \in Seq(Records) /\ Bare(x.out) = x.out
      BY <3>1, SentIs
    <3>3. o \in Seq(Records)
      BY <1>4, <3>2, JoinsAre
    <3>4. Bare(o) = o /\ o \in Seq(Records \cup {Fin}) /\ \A i \in DOMAIN o : o[i] # Fin
      BY <3>3, BareOf
    <3>5. o \o q = x.out \o (a \o q)
      BY <1>4, <3>2, JoinsAre
    <3> HIDE DEF o
    <3> QED
      BY <1>4, <3>2, <3>4, <3>5
  <2> QED
    BY <2>1, <2>2
<1> HIDE DEF o
<1>7. /\ SameTls(y, x) /\ y.out = o /\ y.sendq = q /\ y.finned = x.finned /\ y.draining = x.draining
      /\ y.rawWritable = x.rawWritable /\ y.finTimer = x.finTimer /\ y.rawReadable = x.rawReadable
      /\ DOMAIN y = Fields
  <2>1. DOMAIN x = Fields
    BY DEF Good, Sound
  <2> QED
    BY <2>1 DEF SameTls, Fields
<1> HIDE DEF y
<1>8. Sound(y) /\ y.raw = "up"
  BY <1>5, <1>7 DEF Good, Sound, Dead, SameTls
<1>9. Typed(y)
  BY <1>4, <1>6, <1>7 DEF Good, Typed, SameTls
<1>10. Linked(y)
  BY <1>5, <1>6, <1>7 DEF Good, Linked, SameTls
<1>11. Good(y) /\ Sent(y) = Sent(x)
  BY <1>6, <1>7, <1>8, <1>9, <1>10 DEF Good, Sent
<1> HIDE DEF z
<1>12. Good(z) /\ SameTls(z, y) /\ z.out = y.out /\ z.sendq = y.sendq
  BY <1>1, <1>8, <1>11, FinishGood
<1> QED
  BY <1>5, <1>7, <1>11, <1>12 DEF SameTls, Sent, z

LEMMA RawWriteGood ==
  ASSUME NEW x, Good(x), x.rawWritable, NEW b \in Seq(Records)
  PROVE  LET z == RawWrite(x, b)
         IN  Good(z) /\ SameTls(z, x) /\ Sent(z) = Sent(x) \o b
<1> DEFINE q == x.sendq \o b
           y == [x EXCEPT !.sendq = q]
           z == RawWrite(x, b)
<1>1. z = Sends(y) /\ x.raw = "up"
  BY DEF RawWrite, Good, Sound, Dead
<1>2. x.sendq \in Seq(Records) /\ Bare(x.out) \in Seq(Records)
  BY SentIs
<1>3. q \in Seq(Records) /\ Bare(x.out) \o q = (Bare(x.out) \o x.sendq) \o b
  BY <1>2, JoinsAre
<1> HIDE DEF q
<1>4. /\ SameTls(y, x) /\ y.out = x.out /\ y.sendq = q /\ y.finned = x.finned /\ y.draining = x.draining
      /\ y.rawWritable = x.rawWritable /\ y.finTimer = x.finTimer /\ y.rawReadable = x.rawReadable
      /\ DOMAIN y = Fields
  <2>1. DOMAIN x = Fields
    BY DEF Good, Sound
  <2> QED
    BY <2>1 DEF SameTls, Fields
<1> HIDE DEF y
<1>5. Sound(y) /\ y.raw = "up"
  BY <1>1, <1>4 DEF Good, Sound, Dead, SameTls
<1>6. Typed(y)
  BY <1>3, <1>4 DEF Good, Typed, SameTls
<1>7. Linked(y)
  BY <1>4 DEF Good, Linked, SameTls
<1> HIDE DEF z
<1>8. Good(z) /\ SameTls(z, y) /\ Sent(z) = Sent(y)
  BY <1>1, <1>5, <1>6, <1>7, SendsGood DEF Good
<1> QED
  BY <1>3, <1>4, <1>8 DEF SameTls, Sent, z

LEMMA FlushGood ==
  ASSUME NEW x, Good(x), x.rawWritable, NEW kind, <<kind, 0>> \in Records
  PROVE  LET z == Flush(x, kind)
         IN  Good(z) /\ SameTls(z, x) /\ Sent(z) = Sent(x) \o Bytes(<<<<kind, 0>>>>)
<1> DEFINE r == <<kind, 0>>
           b == Bytes(<<r>>)
<1>1. b \in Seq(Records)
  BY OneRecord1
<1>2. Flush(x, kind) = RawWrite(x, b)
  BY DEF Flush
<1> HIDE DEF b
<1>3. LET z == RawWrite(x, b) IN Good(z) /\ SameTls(z, x) /\ Sent(z) = Sent(x) \o b
  BY <1>1, RawWriteGood
<1> QED
  BY <1>2, <1>3 DEF b

LEMMA RawEndGood ==
  ASSUME NEW x, Good(x), x.raw = "up", x.closing
  PROVE  LET z == RawEnd(x)
         IN  Good(z) /\ SameTls(z, x) /\ Sent(z) = Sent(x) /\ z.sendq = x.sendq
<1> DEFINE y == [x EXCEPT !.draining = TRUE]
           z == RawEnd(x)
<1>1. z = Finish(y)
  BY DEF RawEnd
<1>2. /\ SameTls(y, x) /\ y.out = x.out /\ y.sendq = x.sendq /\ y.finned = x.finned
      /\ y.rawWritable = x.rawWritable /\ y.finTimer = x.finTimer /\ y.rawReadable = x.rawReadable
      /\ DOMAIN y = Fields
  <2>1. DOMAIN x = Fields
    BY DEF Good, Sound
  <2> QED
    BY <2>1 DEF SameTls, Fields
<1> HIDE DEF y
<1>3. Sound(y) /\ y.raw = "up"
  BY <1>2 DEF Good, Sound, Dead, SameTls
<1>4. Typed(y)
  BY <1>2 DEF Good, Typed, SameTls
<1>5. Linked(y)
  BY <1>2 DEF Good, Linked, SameTls
<1> HIDE DEF z
<1>6. Good(z) /\ SameTls(z, y) /\ z.out = y.out /\ z.sendq = y.sendq
  BY <1>1, <1>3, <1>4, <1>5, FinishGood DEF Good
<1> QED
  BY <1>2, <1>6 DEF SameTls, Sent, z

\* The FIN of the raw socket.
LEMMA RawFinGood ==
  ASSUME NEW x, Good(x), x.raw \in {"up", "destroyed"}, ~x.rawWritable
  PROVE  LET z == RawFin(x)
         IN  /\ Good(z) /\ SameTls(z, x) /\ Sent(z) = Sent(x) /\ z.sendq = x.sendq
             /\ z.rawReadable = x.rawReadable
<1> DEFINE o == Append(x.out, Fin)
           y == [x EXCEPT !.finned = TRUE, !.out = o]
           z == RawFin(x)
<1>1. CASE x.finned
  BY <1>1 DEF RawFin, SameTls
<1>2. CASE ~x.finned
  <2>1. z = y
    BY <1>2 DEF RawFin
  <2>2. x.out \in Seq(Records) /\ Bare(x.out) = x.out
    BY <1>2, SentIs
  <2>3. /\ Bare(o) = x.out /\ o \in Seq(Records \cup {Fin})
        /\ \A i \in DOMAIN o : o[i] = Fin => i = Len(o)
    BY <2>2, BareOf
  <2> HIDE DEF o
  <2>4. /\ SameTls(y, x) /\ y.out = o /\ y.sendq = x.sendq /\ y.finned /\ y.draining = x.draining
        /\ y.rawWritable = x.rawWritable /\ y.finTimer = x.finTimer /\ y.rawReadable = x.rawReadable
        /\ DOMAIN y = Fields
    <3>1. DOMAIN x = Fields
      BY DEF Good, Sound
    <3> QED
      BY <3>1 DEF SameTls, Fields
  <2> HIDE DEF y, z
  <2>5. Sound(y)
    BY <2>4 DEF Good, Sound, Dead, SameTls
  <2>6. Typed(y)
    BY <2>3, <2>4 DEF Good, Typed, SameTls
  <2>7. Linked(y)
    BY <2>3, <2>4 DEF Good, Linked, SameTls
  <2> QED
    BY <2>1, <2>2, <2>3, <2>4, <2>5, <2>6, <2>7 DEF Good, Sent, z
<1> QED
  BY <1>1, <1>2

----------------------------------------------------------------------------
(* destroy() *)
LEMMA DestroyTwice ==
  ASSUME NEW x, DOMAIN x = Fields, ~x.destroyed, x.raw # "destroyed"
  PROVE  Destroy(RawDestroy(x)) = Destroy(x)
<1> DEFINE c == x.cut \/ x.sendq # << >> \/ x.queue # << >>
           e == << >>
           o == Append(x.out, Fin)
           G(v) == [v EXCEPT !.raw = "destroyed", !.rawReadable = FALSE, !.rawWritable = FALSE,
                             !.cut = c, !.sendq = e, !.draining = FALSE, !.finTimer = FALSE]
           F(v) == [v EXCEPT !.finned = TRUE, !.out = o]
           H(v) == [[v EXCEPT !.destroyed = TRUE, !.writable = FALSE] EXCEPT !.conn = FALSE, !.part = e, !.ring = e]
           f == x.raw \in {"connecting", "up"} /\ ~x.finned
<1>1. RawDestroy(x) = IF f THEN F(G(x)) ELSE G(x)
  <2>1. G(x).finned = x.finned /\ G(x).out = x.out
    BY DEF Fields
  <2> QED
    BY <2>1 DEF RawDestroy, RawFin
<1>2. Destroy(x) = IF f THEN F(G(H(x))) ELSE G(H(x))
  <2>1. /\ H(x).finned = x.finned /\ H(x).out = x.out /\ H(x).cut = x.cut /\ H(x).sendq = x.sendq
        /\ H(x).queue = x.queue /\ H(x).raw = x.raw
        /\ G(H(x)).finned = x.finned /\ G(H(x)).out = x.out
    BY DEF Fields
  <2>2. Destroy(x) = RawDestroy(H(x))
    BY DEF Destroy, FreeConn
  <2>3. RawDestroy(H(x)) = IF x.raw \in {"connecting", "up"} THEN RawFin(G(H(x))) ELSE G(H(x))
    BY <2>1 DEF RawDestroy
  <2> QED
    BY <2>1, <2>2, <2>3 DEF RawFin
<1> HIDE DEF c, e, o, f
<1>3. H(G(x)) = G(H(x)) /\ H(F(G(x))) = F(G(H(x)))
  OBVIOUS
<1>4. Destroy(RawDestroy(x)) = H(RawDestroy(x))
  <2>1. /\ ~G(x).destroyed /\ G(x).raw = "destroyed"
        /\ ~F(G(x)).destroyed /\ F(G(x)).raw = "destroyed"
        /\ H(G(x)).raw = "destroyed" /\ H(F(G(x))).raw = "destroyed"
    BY DEF Fields
  <2>2. ~RawDestroy(x).destroyed /\ H(RawDestroy(x)).raw = "destroyed"
    BY <1>1, <2>1
  <2> QED
    BY <2>2 DEF Destroy, FreeConn, RawDestroy, e
<1> QED
  BY <1>1, <1>2, <1>3, <1>4

Gone(z, x) ==
  /\ Good(z) /\ z.destroyed /\ z.raw = "destroyed" /\ ~z.conn /\ z.part = << >> /\ z.ring = << >>
  /\ z.sendq = << >> /\ ~z.rawReadable /\ Bare(z.out) = Bare(x.out)
  /\ z.cut <=> x.sendq # << >> \/ x.queue # << >>
  /\ z.open = x.open /\ z.closing = x.closing /\ z.ended = x.ended /\ z.queue = x.queue
  /\ z.task = x.task /\ z.chunk = x.chunk /\ z.last = x.last /\ z.notified = x.notified
  /\ z.stuck = x.stuck /\ z.put = x.put /\ z.got = x.got

LEMMA DestroyGood ==
  ASSUME NEW x, Good(x), ~x.destroyed
  PROVE  Gone(Destroy(x), x) /\ Gone(Destroy(RawDestroy(x)), x)
<1> DEFINE c == x.cut \/ x.sendq # << >> \/ x.queue # << >>
           e == << >>
           y == [FreeConn([x EXCEPT !.destroyed = TRUE, !.writable = FALSE])
                   EXCEPT !.raw = "destroyed", !.rawReadable = FALSE, !.rawWritable = FALSE,
                          !.cut = c, !.sendq = e, !.draining = FALSE, !.finTimer = FALSE]
           z == Destroy(x)
<1>1. DOMAIN x = Fields /\ x.raw \in {"new", "connecting", "up"} /\ ~x.cut
  BY DEF Good, Sound, Linked
<1>2. z = IF x.raw \in {"connecting", "up"} THEN RawFin(y) ELSE y
  <2> DEFINE h == FreeConn([x EXCEPT !.destroyed = TRUE, !.writable = FALSE])
  <2>1. h.cut = x.cut /\ h.sendq = x.sendq /\ h.queue = x.queue /\ h.raw = x.raw
    BY <1>1 DEF FreeConn, Fields
  <2>2. z = RawDestroy(h)
    BY DEF Destroy
  <2>3. RawDestroy(h) = IF x.raw \in {"connecting", "up"} THEN RawFin(y) ELSE y
    BY <1>1, <2>1 DEF RawDestroy
  <2> QED
    BY <2>2, <2>3
<1>3. c <=> x.sendq # << >> \/ x.queue # << >>
  BY <1>1
<1> HIDE DEF c
<1>4. e \in Seq(Records) /\ Len(e) = 0
  BY EmptySeq
<1>5. /\ DOMAIN y = Fields
      /\ y.destroyed /\ y.raw = "destroyed" /\ ~y.conn /\ y.part = e /\ y.ring = e /\ y.sendq = e
      /\ ~y.writable /\ ~y.rawReadable /\ ~y.rawWritable /\ ~y.draining /\ ~y.finTimer
      /\ y.cut = c /\ y.out = x.out /\ y.finned = x.finned
      /\ y.open = x.open /\ y.closing = x.closing /\ y.ended = x.ended /\ y.queue = x.queue
      /\ y.task = x.task /\ y.chunk = x.chunk /\ y.last = x.last /\ y.notified = x.notified
      /\ y.stuck = x.stuck /\ y.put = x.put /\ y.got = x.got
  <2> DEFINE h == FreeConn([x EXCEPT !.destroyed = TRUE, !.writable = FALSE])
  <2>1. /\ DOMAIN h = Fields
        /\ h.destroyed /\ ~h.conn /\ h.part = e /\ h.ring = e /\ ~h.writable
        /\ h.out = x.out /\ h.finned = x.finned
        /\ h.open = x.open /\ h.closing = x.closing /\ h.ended = x.ended /\ h.queue = x.queue
        /\ h.task = x.task /\ h.chunk = x.chunk /\ h.last = x.last /\ h.notified = x.notified
        /\ h.stuck = x.stuck /\ h.put = x.put /\ h.got = x.got
    BY <1>1 DEF FreeConn, Fields
  <2> HIDE DEF e, h
  <2> QED
    BY <2>1 DEF Fields, h
<1> HIDE DEF y
<1>6. Sound(y)
  BY <1>5 DEF Sound, Dead
<1>7. Typed(y)
  <2>1. Len(x.ring) \in Nat /\ Ring \in Nat
    BY TlsAssumption, LenProperties DEF Good, Typed
  <2>2. Len(y.part) = 0 /\ Len(y.ring) = 0
    BY <1>4, <1>5
  <2> HIDE DEF e
  <2> QED
    BY <1>4, <1>5, <2>1, <2>2 DEF Good, Typed
<1>8. Linked(y)
  BY <1>3, <1>5 DEF Good, Linked
<1>9. Gone(y, x)
  BY <1>3, <1>5, <1>6, <1>7, <1>8 DEF Good, Gone
<1>10. Gone(RawFin(y), x)
  <2> DEFINE f == RawFin(y)
  <2>1. Good(f) /\ SameTls(f, y) /\ f.sendq = y.sendq /\ f.rawReadable = y.rawReadable /\ Sent(f) = Sent(y)
    BY <1>5, <1>9, RawFinGood DEF Gone
  <2>2. Bare(f.out) = Bare(y.out)
    <3>1. Bare(f.out) \in Seq(Records) /\ Bare(y.out) \in Seq(Records)
      BY <1>9, <2>1, SentIs DEF Gone
    <3>2. Bare(f.out) \o e = Bare(y.out) \o e
      BY <1>5, <2>1 DEF Sent
    <3> QED
      BY <3>1, <3>2, ConcatEmptySeq
  <2> HIDE DEF f
  <2>3. Gone(f, x)
    BY <1>9, <2>1, <2>2 DEF Gone, SameTls
  <2> QED
    BY <2>3 DEF f
<1>11. Gone(z, x)
  BY <1>2, <1>9, <1>10
<1>12. Destroy(RawDestroy(x)) = z
  BY <1>1, DestroyTwice
<1> QED
  BY <1>11, <1>12

----------------------------------------------------------------------------
(* Flow, from one state of the sender or of the reader to another *)
LEMMA WayIs ==
  ASSUME NEW x, NEW y, Good(x), Typed(y)
  PROVE  /\ Way(x, y) = y.part \o (y.ring \o (y.chunk \o Sent(x)))
         /\ Way(x, y) = Whole(y.part, y.ring, y.chunk, Bare(x.out), x.sendq)
         /\ Way(x, y) \in Seq(Records) /\ Len(Way(x, y)) \in Nat
<1>1. Way(x, y) = Whole(y.part, y.ring, y.chunk, Bare(x.out), x.sendq)
  BY DEF Way, Whole
<1>2. Whole(y.part, y.ring, y.chunk, Bare(x.out), x.sendq) \in Seq(Records)
  BY SentIs, WholeIs DEF Typed
<1> QED
  BY <1>1, <1>2, LenProperties DEF Way, Sent

LEMMA WayAdds ==
  ASSUME NEW x, NEW z, NEW y, Good(x), Typed(y), NEW b \in Seq(Records), Good(z), Sent(z) = Sent(x) \o b
  PROVE  Way(z, y) = Way(x, y) \o b
<1> DEFINE s == Sent(x)
           p == y.part
           r == y.ring
           c == y.chunk
<1>1. s \in Seq(Records) /\ p \in Seq(Records) /\ r \in Seq(Records) /\ c \in Seq(Records)
  BY SentIs DEF Typed
<1>2. Way(z, y) = p \o (r \o (c \o (s \o b))) /\ Way(x, y) = p \o (r \o (c \o s))
  BY WayIs
<1> HIDE DEF s, p, r, c
<1>3. c \o (s \o b) = (c \o s) \o b /\ c \o s \in Seq(Records)
  BY ZenonT(60), <1>1, JoinsAre
<1>4. r \o ((c \o s) \o b) = (r \o (c \o s)) \o b /\ r \o (c \o s) \in Seq(Records)
  BY ZenonT(60), <1>1, <1>3, JoinsAre
<1>5. p \o ((r \o (c \o s)) \o b) = (p \o (r \o (c \o s))) \o b
  BY ZenonT(60), <1>1, <1>4, JoinsAre
<1> QED
  BY <1>2, <1>3, <1>4, <1>5

\* A sender that differs in what Flow does not speak of, and a reader that does.
FlowsAs(z, x) ==
  /\ z.put = x.put /\ z.cut = x.cut /\ z.closing = x.closing /\ (x.destroyed => z.destroyed)
  /\ (x.open => z.open) /\ z.queue = x.queue /\ (x.sendq = << >> => z.sendq = << >>) /\ Sent(z) = Sent(x)
LEMMA SenderSame ==
  ASSUME NEW x, NEW y, NEW z, Good(x), Good(z), Typed(y), FlowsAs(z, x), Flow(x, y)
  PROVE  Flow(z, y)
<1>1. Way(z, y) = Way(x, y)
  BY WayIs DEF FlowsAs
<1> QED
  BY ZenonT(60), <1>1 DEF FlowsAs, Flow

ReadsAs(z, y) ==
  /\ z.got = y.got /\ z.ended = y.ended
  /\ z.destroyed \/ (~y.destroyed /\ z.part = y.part /\ z.ring = y.ring /\ z.chunk = y.chunk)
LEMMA ReaderSame ==
  ASSUME NEW x, NEW y, NEW z, ReadsAs(z, y), Flow(x, y)
  PROVE  Flow(x, z)
<1>1. ~z.destroyed => Way(x, z) = Way(x, y)
  BY DEF Way, ReadsAs
<1> QED
  BY <1>1 DEF ReadsAs, Flow

Carries(x, y, k, h, c) ==
  LET w == Way(x, y)
      m == Len(y.got)
  IN  /\ Carried(w, m, k, h, c)
      /\ ~x.open => k = 0
      /\ c = 1 => x.closing
      /\ ~x.cut => Len(w) = 2 * (h + (k - m) + c) /\ Waits(x.queue, k, Len(x.put))
FlowHead(x, y) ==
  /\ x.put = Numbered(0, Len(x.put))
  /\ Len(y.got) <= Len(x.put) /\ y.got = Numbered(0, Len(y.got))
  /\ y.ended /\ ~x.cut => /\ x.closing \/ x.destroyed
                          /\ x.sendq = << >> /\ x.queue = << >> /\ Len(y.got) = Len(x.put)

LEMMA FlowHas ==
  ASSUME NEW x, NEW y, Flow(x, y)
  PROVE  /\ FlowHead(x, y)
         /\ ~y.destroyed => \E k \in Len(y.got)..Len(x.put), c \in {0, 1} :
                              \E h \in 0..Len(Way(x, y)) : Carries(x, y, k, h, c)
BY DEF Flow, FlowHead, Carries

LEMMA FlowWith ==
  ASSUME NEW x, NEW y, FlowHead(x, y), Len(y.got) \in Nat, Len(Way(x, y)) \in Nat,
         NEW k \in Len(y.got)..Len(x.put), NEW c \in {0, 1}, NEW h \in Nat,
         ~y.destroyed => Carries(x, y, k, h, c)
  PROVE  Flow(x, y)
<1> DEFINE w == Way(x, y)
           m == Len(y.got)
<1>1. CASE y.destroyed
  BY <1>1 DEF Flow, FlowHead
<1>2. CASE ~y.destroyed
  <2>1. Carried(w, m, k, h, c)
    BY <1>2 DEF Carries
  <2>2. PICK g \in 0..Len(w) : Carried(w, m, k, g, c) /\ (Len(w) = 2 * (h + (k - m) + c) => g = h)
    <3>1. Len(w) \in Nat /\ m \in Nat /\ k \in Nat /\ m <= k
      OBVIOUS
    <3> HIDE DEF w, m
    <3> QED
      BY SMTT(40), <2>1, <3>1, CarriedTrim
  <2>3. Carries(x, y, k, g, c)
    BY <1>2, <2>2 DEF Carries
  <2> QED
    BY <1>2, <2>3 DEF Flow, FlowHead, Carries
<1> QED
  BY <1>1, <1>2

----------------------------------------------------------------------------
(* What a sender does *)
\* destroy() cuts what the kernel has not taken.
LEMMA SenderGone ==
  ASSUME NEW x, NEW y, NEW z, Good(x), Typed(y), Gone(z, x), ~x.destroyed, Flow(x, y)
  PROVE  Flow(z, y)
<1>1. FlowHead(x, y) /\ ~x.cut
  BY FlowHas DEF Good, Linked
<1>2. FlowHead(z, y)
  BY <1>1 DEF FlowHead, Gone
<1>3. Len(y.got) \in Nat /\ Len(x.put) \in Nat /\ Len(Way(z, y)) \in Nat /\ Len(Way(x, y)) \in Nat
  BY WayIs, LenProperties DEF Good, Typed, Gone
<1>4. CASE y.destroyed
  <2>1. Len(y.got) \in Len(y.got)..Len(z.put) /\ 0 \in {0, 1} /\ 0 \in Nat
    BY <1>2, <1>3 DEF FlowHead, Gone
  <2> QED
    BY <1>2, <1>3, <1>4, <2>1, FlowWith
<1>5. CASE ~y.destroyed
  <2>1. PICK k \in Len(y.got)..Len(x.put), c \in {0, 1} :
          \E h \in 0..Len(Way(x, y)) : Carries(x, y, k, h, c)
    BY <1>5, FlowHas
  <2>2. PICK h \in 0..Len(Way(x, y)) : Carries(x, y, k, h, c)
    BY <2>1
  <2> DEFINE w == Way(x, y)
             v == Way(z, y)
             m == Len(y.got)
  <2>3. w \in Seq(Records) /\ v \in Seq(Records) /\ Bare(x.out) \in Seq(Records) /\ x.sendq \in Seq(Records)
    BY SentIs, WayIs DEF Gone
  <2>4. x.sendq = << >> => v = w
    BY DEF Gone, Way
  <2>5. Len(v) <= Len(w) /\ \A i \in 1..Len(v) : v[i] = w[i]
    <3>1. Sent(x) = Sent(z) \o x.sendq
      BY <2>3, ConcatEmptySeq DEF Sent, Gone
    <3>2. w = v \o x.sendq
      <4>1. Good(z)
        BY DEF Gone
      <4>2. x.sendq \in Seq(Records)
        BY <2>3
      <4> QED
        BY ZenonT(60), <3>1, <4>1, <4>2, WayAdds
    <3> HIDE DEF w, v
    <3>3. Len(w) = Len(v) + Len(x.sendq) /\ \A i \in 1..Len(v) : w[i] = v[i]
      BY <2>3, <3>2, JoinIs
    <3>4. Len(x.sendq) \in Nat /\ Len(v) \in Nat
      BY <2>3, LenProperties
    <3> QED
      BY <3>3, <3>4
  <2>6. Carried(v, m, k, h, c)
    <3>1. Carried(w, m, k, h, c)
      BY <2>2 DEF Carries
    <3>2. m \in Nat /\ k \in Nat /\ m <= k /\ h \in Nat /\ Len(v) \in Nat /\ Len(w) \in Nat
      BY <1>3
    <3> HIDE DEF w, v, m
    <3> QED
      BY <2>5, <3>1, <3>2, CarriedPrefix
  <2>7. Carries(z, y, k, h, c)
    <3>1. ~z.cut => x.sendq = << >> /\ v = w
      BY <2>4 DEF Gone
    <3> QED
      BY <1>1, <2>2, <2>6, <3>1 DEF Carries, Gone
  <2>8. k \in Len(y.got)..Len(z.put) /\ h \in Nat
    BY <1>3 DEF Gone
  <2> QED
    BY <1>2, <1>3, <2>7, <2>8, FlowWith
<1> QED
  BY <1>4, <1>5

\* What the sender has written and closed does not change.
SendsAs(z, x) ==
  /\ z.put = x.put /\ z.cut = x.cut /\ z.closing = x.closing /\ z.destroyed = x.destroyed
  /\ z.open = x.open
\* A record of the handshake.
LEMMA SenderHello ==
  ASSUME NEW x, NEW y, NEW z, Good(x), Good(z), Typed(y), Flow(x, y), SendsAs(z, x), z.queue = x.queue,
         ~x.open, ~x.destroyed, NEW r \in Handshakes, Sent(z) = Sent(x) \o Bytes(<<r>>)
  PROVE  Flow(z, y)
<1>1. FlowHead(x, y) /\ ~x.cut /\ ~x.closing
  BY FlowHas DEF Good, Linked
<1>2. FlowHead(z, y)
  BY <1>1 DEF FlowHead, SendsAs
<1>3. Len(y.got) \in Nat /\ Len(x.put) \in Nat /\ Len(Way(z, y)) \in Nat /\ Len(Way(x, y)) \in Nat
  BY WayIs, LenProperties DEF Good, Typed
<1>4. CASE y.destroyed
  <2>1. Len(y.got) \in Len(y.got)..Len(z.put) /\ 0 \in {0, 1} /\ 0 \in Nat
    BY <1>2, <1>3 DEF FlowHead, SendsAs
  <2> QED
    BY <1>2, <1>3, <1>4, <2>1, FlowWith
<1>5. CASE ~y.destroyed
  <2>1. PICK k \in Len(y.got)..Len(x.put), c \in {0, 1} :
          \E h \in 0..Len(Way(x, y)) : Carries(x, y, k, h, c)
    BY <1>5, FlowHas
  <2>2. PICK h \in 0..Len(Way(x, y)) : Carries(x, y, k, h, c)
    BY <2>1
  <2> DEFINE w == Way(x, y)
             v == Way(z, y)
             m == Len(y.got)
             b == Bytes(<<r>>)
  <2>3. k = 0 /\ c = 0 /\ m = 0
    BY <1>1, <1>3, <2>2 DEF Carries
  <2>4. w \in Seq(Records) /\ Carried(w, 0, 0, h, 0) /\ Len(w) = 2 * h /\ h \in Nat
    <3>1. w \in Seq(Records)
      BY WayIs
    <3>2. Carried(w, m, k, h, c) /\ Len(w) = 2 * (h + (k - m) + c)
      BY <1>1, <2>2 DEF Carries
    <3>3. h \in Nat
      BY <1>3
    <3> HIDE DEF w, m
    <3> QED
      BY <2>3, <3>1, <3>2, <3>3
  <2>5. r \in Records /\ b \in Seq(Records)
    BY OneRecord1 DEF Handshakes
  <2>6. v = w \o b
    BY ZenonT(60), <2>5, WayAdds
  <2> HIDE DEF w, v, m, b
  <2>7. Carried(v, 0, 0, h + 1, 0) /\ Len(v) = 2 * (h + 1)
    BY <2>4, <2>6, CarriedHello DEF b
  <2>8. Carries(z, y, 0, h + 1, 0)
    BY <2>2, <2>3, <2>7 DEF Carries, SendsAs, v, m
  <2>9. 0 \in Len(y.got)..Len(z.put) /\ h + 1 \in Nat /\ 0 \in {0, 1}
    BY <1>3, <2>3, <2>4 DEF SendsAs, m
  <2> QED
    BY <1>2, <1>3, <2>8, <2>9, FlowWith
<1> QED
  BY <1>4, <1>5

\* close_notify.
LEMMA SenderClose ==
  ASSUME NEW x, NEW y, NEW z, Good(x), Good(z), Typed(y), Flow(x, y), z.queue = x.queue,
         x.open, ~x.closing, ~x.destroyed, z.open, z.closing, z.put = x.put, z.cut = x.cut,
         Sent(z) = Sent(x) \o Bytes(<<<<"close", 0>>>>)
  PROVE  Flow(z, y)
<1>1. FlowHead(x, y) /\ ~x.cut
  BY FlowHas DEF Good, Linked
<1>2. FlowHead(z, y)
  BY <1>1 DEF FlowHead
<1>3. Len(y.got) \in Nat /\ Len(x.put) \in Nat /\ Len(Way(z, y)) \in Nat /\ Len(Way(x, y)) \in Nat
  BY WayIs, LenProperties DEF Good, Typed
<1>4. CASE y.destroyed
  <2>1. Len(y.got) \in Len(y.got)..Len(z.put) /\ 0 \in {0, 1} /\ 0 \in Nat
    BY <1>2, <1>3 DEF FlowHead
  <2> QED
    BY <1>2, <1>3, <1>4, <2>1, FlowWith
<1>5. CASE ~y.destroyed
  <2>1. PICK k \in Len(y.got)..Len(x.put), c \in {0, 1} :
          \E h \in 0..Len(Way(x, y)) : Carries(x, y, k, h, c)
    BY <1>5, FlowHas
  <2>2. PICK h \in 0..Len(Way(x, y)) : Carries(x, y, k, h, c)
    BY <2>1
  <2> DEFINE w == Way(x, y)
             v == Way(z, y)
             m == Len(y.got)
             b == Bytes(<<<<"close", 0>>>>)
  <2>3. c = 0
    BY <2>2 DEF Carries
  <2>4. w \in Seq(Records) /\ Carried(w, m, k, h, 0) /\ Len(w) = 2 * (h + (k - m)) /\ h \in Nat
        /\ m \in Nat /\ k \in Nat /\ m <= k
    <3>1. w \in Seq(Records)
      BY WayIs
    <3>2. Carried(w, m, k, h, c) /\ Len(w) = 2 * (h + (k - m) + c)
      BY <1>1, <2>2 DEF Carries
    <3>3. h \in Nat /\ m \in Nat /\ k \in Nat /\ m <= k
      BY <1>3
    <3> HIDE DEF w, m
    <3> QED
      BY <2>3, <3>1, <3>2, <3>3
  <2>5. b \in Seq(Records)
    BY OneRecord1 DEF Records
  <2>6. v = w \o b
    BY ZenonT(60), <2>5, WayAdds
  <2> HIDE DEF w, v, m, b
  <2>7. Carried(v, m, k, h, 1) /\ Len(v) = 2 * (h + (k - m) + 1)
    BY <2>4, <2>6, CarriedClose DEF b
  <2>8. Carries(z, y, k, h, 1)
    BY <1>1, <2>2, <2>7 DEF Carries, v, m
  <2>9. k \in Len(y.got)..Len(z.put) /\ h \in Nat /\ 1 \in {0, 1}
    BY <1>3, <2>4 DEF m
  <2> QED
    BY <1>2, <1>3, <2>8, <2>9, FlowWith
<1> QED
  BY <1>4, <1>5

----------------------------------------------------------------------------
(* The data that is written *)
LEMMA NumberedAdds ==
  ASSUME NEW p \in Nat, NEW n \in Nat
  PROVE  Numbered(0, p) \o Numbered(p, n) = Numbered(0, p + n)
<1> DEFINE a == Numbered(0, p)
           b == Numbered(p, n)
           d == Numbered(0, p + n)
           v == a \o b
<1>1. a \in Seq(Records) /\ Len(a) = p /\ \A j \in 1..p : a[j] = <<"data", j>>
  <2>1. a \in Seq(Records) /\ Len(a) = p /\ \A j \in 1..p : a[j] = <<"data", 0 + j>>
    BY NumberedIs
  <2> HIDE DEF a
  <2> QED
    BY <2>1
<1>2. b \in Seq(Records) /\ Len(b) = n /\ \A j \in 1..n : b[j] = <<"data", p + j>>
  BY NumberedIs
<1>3. d \in Seq(Records) /\ Len(d) = p + n /\ \A j \in 1..(p + n) : d[j] = <<"data", j>>
  <2>1. p + n \in Nat /\ 0 \in Nat
    OBVIOUS
  <2>2. d \in Seq(Records) /\ Len(d) = p + n /\ \A j \in 1..(p + n) : d[j] = <<"data", 0 + j>>
    BY <2>1, NumberedIs
  <2> HIDE DEF d
  <2> QED
    BY <2>2
<1> HIDE DEF a, b, d
<1>4. v \in Seq(Records) /\ Len(v) = Len(a) + Len(b)
  BY <1>1, <1>2, JoinIs
<1>5. (\A i \in 1..Len(a) : v[i] = a[i]) /\ \A i \in 1..Len(b) : v[Len(a) + i] = b[i]
  <2>0. a \in Seq(Records) /\ b \in Seq(Records)
    BY <1>1, <1>2
  <2>1. \A i \in 1..Len(a) : v[i] = a[i]
    BY <2>0, JoinIs
  <2>2. \A i \in 1..Len(b) : v[Len(a) + i] = b[i]
    BY <2>0, JoinIs
  <2> QED
    BY <2>1, <2>2
<1> HIDE DEF v
<1>6. ASSUME NEW j \in 1..Len(v) PROVE v[j] = d[j]
  <2>1. CASE j <= p
    <3>1. j \in 1..Len(a) /\ j \in 1..p /\ j \in 1..(p + n)
      BY <1>1, <1>2, <1>4, <2>1
    <3> QED
      BY <1>1, <1>3, <1>5, <3>1
  <2>2. CASE j > p
    <3>1. j - p \in 1..n /\ j = p + (j - p) /\ j \in 1..(p + n)
      BY <1>1, <1>2, <1>4, <2>2
    <3>2. v[j] = b[j - p]
      BY <1>1, <1>2, <1>5, <3>1
    <3> QED
      BY <1>2, <1>3, <3>1, <3>2
  <2> QED
    BY <2>1, <2>2
<1>7. Len(v) = Len(d)
  BY <1>1, <1>2, <1>3, <1>4
<1>8. v = d
  BY <1>3, <1>4, <1>6, <1>7, SeqEqual
<1> QED
  BY <1>8 DEF v, a, b, d

LEMMA WaitsTail ==
  ASSUME NEW q \in Seq(Seq(Records)), q # << >>, NEW k \in Nat, NEW p \in Nat, Waits(q, k, p)
  PROVE  LET d == Head(q)
         IN  /\ d \in Seq(Records) /\ d = Numbered(k, Len(d)) /\ k + Len(d) <= p
             /\ Tail(q) \in Seq(Seq(Records)) /\ Waits(Tail(q), k + Len(d), p)
<1> DEFINE d == Head(q)
           t == Tail(q)
           n == Len(d)
<1>1. Len(q) \in Nat /\ Len(q) > 0 /\ DOMAIN q = 1..Len(q) /\ d = q[1] /\ d \in Seq(Records)
  BY LenProperties, EmptySeq, HeadTailProperties
<1>2. t \in Seq(Seq(Records)) /\ Len(t) = Len(q) - 1 /\ \A i \in 1..Len(t) : t[i] = q[i + 1]
  BY HeadTailProperties
<1>3. DOMAIN t = 1..Len(t)
  BY <1>2, LenProperties
<1>4. n \in Nat
  BY <1>1, LenProperties
<1> HIDE DEF d, t, n
<1>5. 1 \in DOMAIN q
  BY <1>1
<1>6. q[1][1][2] = k + 1
  BY DEF Waits
<1>7. d = Numbered(k, n) /\ k + n <= p
  <2>1. q[1] = Numbered(q[1][1][2] - 1, Len(q[1])) /\ q[1][1][2] - 1 + Len(q[1]) <= p
    BY <1>5 DEF Waits
  <2>2. q[1][1][2] - 1 = k
    BY <1>6
  <2> QED
    BY <1>1, <2>1, <2>2 DEF n
<1>8. t = << >> => k + n = p
  <2>1. ASSUME t = << >> PROVE k + n = p
    <3>1. Len(q) = 1
      <4>1. Len(t) = 0
        BY <2>1
      <4>2. Len(q) \in Nat /\ Len(t) = Len(q) - 1
        BY <1>1, <1>2
      <4> QED
        BY <4>1, <4>2
    <3>2. q[Len(q)][1][2] - 1 + Len(q[Len(q)]) = p
      BY DEF Waits
    <3> QED
      BY SMTT(40), <1>1, <1>4, <1>6, <3>1, <3>2 DEF n
  <2> QED
    BY <2>1
<1>9. \A j \in DOMAIN t : /\ t[j] # << >> /\ t[j] = Numbered(t[j][1][2] - 1, Len(t[j]))
                          /\ t[j][1][2] - 1 + Len(t[j]) <= p
  <2>1. \A j \in DOMAIN t : j + 1 \in DOMAIN q /\ t[j] = q[j + 1]
    BY SMTT(40), <1>1, <1>2, <1>3
  <2> QED
    BY <2>1 DEF Waits
<1>10. ASSUME t # << >>
       PROVE  t[1][1][2] = (k + n) + 1 /\ t[Len(t)][1][2] - 1 + Len(t[Len(t)]) = p
  <2>1. Len(t) >= 1
    BY <1>2, <1>10, EmptySeq, LenProperties
  <2>2. 1 \in 1..(Len(q) - 1) /\ t[1] = q[1 + 1] /\ t[Len(t)] = q[Len(q)]
    <3>1. 1 \in 1..(Len(q) - 1) /\ 1 \in 1..Len(t) /\ Len(t) \in 1..Len(t) /\ Len(t) + 1 = Len(q)
      BY <1>1, <1>2, <2>1
    <3>2. t[1] = q[1 + 1] /\ t[Len(t)] = q[Len(t) + 1]
      BY <1>2, <3>1
    <3> QED
      BY <3>1, <3>2
  <2>3. q[1 + 1][1][2] = q[1][1][2] + Len(q[1])
    BY <2>2 DEF Waits
  <2>4. q[Len(q)][1][2] - 1 + Len(q[Len(q)]) = p
    BY DEF Waits
  <2>5. t[1][1][2] = (k + n) + 1
    <3>1. t[1][1][2] = (k + 1) + n
      BY <1>1, <1>6, <2>2, <2>3 DEF n
    <3> QED
      BY <1>4, <3>1
  <2> QED
    BY <2>2, <2>4, <2>5
<1>11. \A j \in 1..(Len(t) - 1) : t[j + 1][1][2] = t[j][1][2] + Len(t[j])
  <2>1. ASSUME NEW j \in 1..(Len(t) - 1) PROVE t[j + 1][1][2] = t[j][1][2] + Len(t[j])
    <3>1. j + 1 \in 1..(Len(q) - 1) /\ j \in 1..Len(t) /\ j + 1 \in 1..Len(t)
      BY <1>1, <1>2
    <3>2. t[j] = q[j + 1] /\ t[j + 1] = q[(j + 1) + 1]
      BY <1>2, <3>1
    <3> QED
      BY <3>1, <3>2 DEF Waits
  <2> QED
    BY <2>1
<1>12. Waits(t, k + n, p)
  BY <1>8, <1>9, <1>10, <1>11 DEF Waits
<1> QED
  BY <1>1, <1>2, <1>7, <1>12 DEF d, t, n

\* The record after a chunk is the one its first record and its length say.
LEMMA EndOfChunk ==
  ASSUME NEW v \in Seq(Records), v # << >>, NEW p \in Nat, v[1][2] - 1 + Len(v) = p
  PROVE  p + 1 = v[1][2] + Len(v)
<1>1. Len(v) \in Nat /\ 1 \in 1..Len(v)
  BY LenProperties, EmptySeq
<1>2. v[1] \in Records
  BY <1>1, ElementOfSeq
<1>3. v[1][2] \in Nat
  BY <1>2 DEF Records
<1> DEFINE x == v[1][2]
           y == Len(v)
<1>4. x \in Nat /\ y \in Nat /\ x - 1 + y = p
  BY <1>1, <1>3
<1> HIDE DEF x, y
<1>5. p + 1 = x + y
  BY <1>4
<1> QED
  BY <1>5 DEF x, y

LEMMA WaitsAdd ==
  ASSUME NEW q \in Seq(Seq(Records)), NEW k \in Nat, NEW p \in Nat, Waits(q, k, p), NEW n \in Nat \ {0}
  PROVE  Waits(Append(q, Numbered(p, n)), k, p + n)
<1> DEFINE d == Numbered(p, n)
           a == Append(q, d)
<1>1. d \in Seq(Records) /\ Len(d) = n /\ d[1] = <<"data", p + 1>> /\ d # << >>
  <2>1. d \in Seq(Records) /\ Len(d) = n /\ \A j \in 1..n : d[j] = <<"data", p + j>>
    BY NumberedIs
  <2> HIDE DEF d
  <2> QED
    BY <2>1, EmptySeq
<1>2. d[1][2] - 1 = p /\ d[1][2] = p + 1
  <2> HIDE DEF d
  <2> QED
    BY <1>1
<1>3. d = Numbered(d[1][2] - 1, Len(d))
  BY <1>1, <1>2
<1> HIDE DEF d
<1>4. Len(q) \in Nat /\ DOMAIN q = 1..Len(q) /\ \A j \in DOMAIN q : q[j] \in Seq(Records)
  BY LenProperties
<1>5. /\ a \in Seq(Seq(Records)) /\ Len(a) = Len(q) + 1 /\ a[Len(q) + 1] = d
      /\ \A j \in 1..Len(q) : a[j] = q[j]
  BY <1>1, AppendProperties
<1>6. DOMAIN a = 1..(Len(q) + 1) /\ a # << >>
  BY <1>4, <1>5, LenProperties, EmptySeq
<1> HIDE DEF a
<1>7. \A j \in DOMAIN a : /\ a[j] # << >> /\ a[j] = Numbered(a[j][1][2] - 1, Len(a[j]))
                          /\ a[j][1][2] - 1 + Len(a[j]) <= p + n
  <2>1. ASSUME NEW j \in 1..Len(q)
        PROVE  /\ a[j] # << >> /\ a[j] = Numbered(a[j][1][2] - 1, Len(a[j]))
               /\ a[j][1][2] - 1 + Len(a[j]) <= p + n
    <3>1. /\ q[j] # << >> /\ q[j] = Numbered(q[j][1][2] - 1, Len(q[j]))
          /\ q[j][1][2] - 1 + Len(q[j]) <= p
      BY <1>4 DEF Waits
    <3>2. q[j] \in Seq(Records) /\ Len(q[j]) \in Nat /\ 1 \in 1..Len(q[j])
      BY <1>4, <3>1, LenProperties, EmptySeq
    <3>3. q[j][1] \in Records
      BY <3>2, ElementOfSeq
    <3>4. q[j][1][2] \in Nat
      BY <3>3 DEF Records
    <3>5. q[j][1][2] - 1 + Len(q[j]) <= p + n
      BY SMTT(40), <3>1, <3>2, <3>4
    <3>6. a[j] = q[j]
      BY <1>5
    <3> QED
      BY <3>1, <3>5, <3>6
  <2>2. /\ a[Len(q) + 1] # << >> /\ a[Len(q) + 1] = Numbered(a[Len(q) + 1][1][2] - 1, Len(a[Len(q) + 1]))
        /\ a[Len(q) + 1][1][2] - 1 + Len(a[Len(q) + 1]) <= p + n
    <3>1. a[Len(q) + 1] = d
      BY <1>5
    <3>2. d[1][2] - 1 + Len(d) <= p + n
      BY <1>1, <1>2
    <3> QED
      BY <1>1, <1>3, <3>1, <3>2
  <2>3. \A j \in DOMAIN a : j \in 1..Len(q) \/ j = Len(q) + 1
    BY <1>4, <1>6
  <2> QED
    BY <2>1, <2>2, <2>3
<1>8. a[1][1][2] = k + 1 /\ a[Len(a)][1][2] - 1 + Len(a[Len(a)]) = p + n
  <2>1. a[Len(a)] = d
    BY <1>5
  <2>2. CASE q = << >>
    <3>1. k = p /\ a[1] = d
      BY <1>5, <2>2, EmptySeq DEF Waits
    <3> QED
      BY <1>1, <1>2, <2>1, <3>1
  <2>3. CASE q # << >>
    <3>1. 1 \in 1..Len(q)
      BY <1>4, <2>3, EmptySeq
    <3>2. q[1][1][2] = k + 1 /\ a[1] = q[1]
      BY <1>5, <2>3, <3>1 DEF Waits
    <3> QED
      BY <1>1, <1>2, <2>1, <3>2
  <2> QED
    BY <2>2, <2>3
<1>9. \A j \in 1..(Len(a) - 1) : a[j + 1][1][2] = a[j][1][2] + Len(a[j])
  <2>1. ASSUME NEW j \in 1..(Len(q) - 1) PROVE a[j + 1][1][2] = a[j][1][2] + Len(a[j])
    <3>1. j \in 1..Len(q) /\ j + 1 \in 1..Len(q)
      BY <1>4
    <3>2. a[j] = q[j] /\ a[j + 1] = q[j + 1]
      BY <1>5, <3>1
    <3> QED
      BY <3>2 DEF Waits
  <2>2. ASSUME q # << >> PROVE a[Len(q) + 1][1][2] = a[Len(q)][1][2] + Len(a[Len(q)])
    <3>1. Len(q) \in 1..Len(q)
      BY <1>4, <2>2, EmptySeq
    <3>2. q[Len(q)][1][2] - 1 + Len(q[Len(q)]) = p /\ a[Len(q)] = q[Len(q)]
      BY <1>5, <2>2, <3>1 DEF Waits
    <3>3. q[Len(q)] \in Seq(Records) /\ q[Len(q)] # << >>
      BY <1>4, <3>1 DEF Waits
    <3>7. p + 1 = q[Len(q)][1][2] + Len(q[Len(q)])
      BY <3>2, <3>3, EndOfChunk
    <3>8. a[Len(q) + 1][1][2] = p + 1
      BY <1>2, <1>5
    <3>9. a[Len(q)] = q[Len(q)]
      BY <3>2
    <3> QED
      BY <3>7, <3>8, <3>9
  <2>3. \A j \in 1..(Len(a) - 1) : j \in 1..(Len(q) - 1) \/ (j = Len(q) /\ q # << >>)
    <3>1. Len(q) \in Nat /\ Len(a) = Len(q) + 1
      BY <1>4, <1>5
    <3>2. Len(q) > 0 => q # << >>
      OBVIOUS
    <3> QED
      BY <3>1, <3>2
  <2> QED
    BY <2>1, <2>2, <2>3
<1>10. Waits(a, k, p + n)
  BY <1>6, <1>7, <1>8, <1>9 DEF Waits
<1> QED
  BY <1>10 DEF a, d

LEMMA WaitsNone ==
  ASSUME NEW p
  PROVE  Waits(<< >>, p, p)
BY DEF Waits

\* A chunk that waited for the handshake.
LEMMA SenderPending ==
  ASSUME NEW x, NEW y, NEW z, Good(x), Good(z), Typed(y), Flow(x, y), SendsAs(z, x),
         x.open, ~x.closing, ~x.destroyed, x.queue # << >>, z.queue = Tail(x.queue),
         Sent(z) = Sent(x) \o Bytes(Head(x.queue))
  PROVE  Flow(z, y)
<1>1. FlowHead(x, y) /\ ~x.cut
  BY FlowHas DEF Good, Linked
<1>2. FlowHead(z, y)
  BY <1>1 DEF FlowHead, SendsAs
<1>3. Len(y.got) \in Nat /\ Len(x.put) \in Nat /\ Len(Way(z, y)) \in Nat /\ Len(Way(x, y)) \in Nat
  BY WayIs, LenProperties DEF Good, Typed
<1>4. CASE y.destroyed
  <2>1. Len(y.got) \in Len(y.got)..Len(z.put) /\ 0 \in {0, 1} /\ 0 \in Nat
    BY <1>2, <1>3 DEF FlowHead, SendsAs
  <2> QED
    BY <1>2, <1>3, <1>4, <2>1, FlowWith
<1>5. CASE ~y.destroyed
  <2>1. PICK k \in Len(y.got)..Len(x.put), c \in {0, 1} :
          \E h \in 0..Len(Way(x, y)) : Carries(x, y, k, h, c)
    BY <1>5, FlowHas
  <2>2. PICK h \in 0..Len(Way(x, y)) : Carries(x, y, k, h, c)
    BY <2>1
  <2> DEFINE w == Way(x, y)
             v == Way(z, y)
             m == Len(y.got)
             d == Head(x.queue)
             n == Len(d)
             b == Bytes(d)
             p == Len(x.put)
  <2>3. c = 0
    BY <2>2 DEF Carries
  <2>4. w \in Seq(Records) /\ Carried(w, m, k, h, 0) /\ Len(w) = 2 * (h + (k - m)) /\ h \in Nat
        /\ m \in Nat /\ k \in Nat /\ m <= k
    <3>1. w \in Seq(Records)
      BY WayIs
    <3>2. Carried(w, m, k, h, c) /\ Len(w) = 2 * (h + (k - m) + c)
      BY <1>1, <2>2 DEF Carries
    <3>3. h \in Nat /\ m \in Nat /\ k \in Nat /\ m <= k
      BY <1>3
    <3> HIDE DEF w, m
    <3> QED
      BY <2>3, <3>1, <3>2, <3>3
  <2>5. d \in Seq(Records) /\ d = Numbered(k, n) /\ k + n <= p /\ Waits(z.queue, k + n, p)
    <3>1. x.queue \in Seq(Seq(Records)) /\ p \in Nat /\ k \in Nat
      BY <1>3, <2>4 DEF Good, Typed
    <3>2. Waits(x.queue, k, p)
      BY <1>1, <2>2 DEF Carries
    <3> QED
      BY <3>1, <3>2, WaitsTail
  <2>6. n \in Nat
    BY <2>5, LenProperties
  <2>7. b \in Seq(Records)
    BY <2>5, BytesAre
  <2>8. v = w \o b
    BY ZenonT(60), <2>7, WayAdds
  <2> HIDE DEF w, v, m, b, d, n, p
  <2>9. Carried(v, m, k + n, h, 0) /\ Len(v) = 2 * (h + (k + n - m))
    <3>1. v = w \o Bytes(Numbered(k, n))
      BY <2>5, <2>8 DEF b
    <3>2. w \in Seq(Records) /\ m \in Nat /\ k \in Nat /\ h \in Nat /\ m <= k
          /\ Carried(w, m, k, h, 0) /\ Len(w) = 2 * (h + (k - m))
      BY <2>4
    <3>3. LET u == w \o Bytes(Numbered(k, n))
          IN  u \in Seq(Records) /\ Len(u) = 2 * (h + (k + n - m)) /\ Carried(u, m, k + n, h, 0)
      BY <2>6, <3>2, CarriedData
    <3> QED
      BY <3>1, <3>3, Zenon
  <2>10. Carries(z, y, k + n, h, 0)
    <3>1. Len(v) = 2 * (h + ((k + n) - m) + 0)
      BY <2>4, <2>6, <2>9
    <3> QED
      BY <1>1, <2>5, <2>9, <3>1 DEF Carries, SendsAs, v, m, p
  <2>11. k + n \in Len(y.got)..Len(z.put) /\ h \in Nat /\ 0 \in {0, 1}
    <3>1. k + n \in m..p
      BY <1>3, <2>4, <2>5, <2>6 DEF p
    <3> QED
      BY <2>4, <3>1 DEF SendsAs, m, p
  <2> QED
    BY <1>2, <1>3, <2>10, <2>11, FlowWith
<1> QED
  BY <1>4, <1>5

\* n records are written.
Puts(z, x, n) == z.put = x.put \o Numbered(Len(x.put), n)
LEMMA HeadWrites ==
  ASSUME NEW x, NEW y, NEW z, FlowHead(x, y), NEW n \in Nat, Len(x.put) \in Nat, Len(y.got) \in Nat,
         Puts(z, x, n),
         ~x.closing, ~x.destroyed, ~x.cut, z.cut = x.cut
  PROVE  FlowHead(z, y) /\ Len(z.put) = Len(x.put) + n
<1> DEFINE p == Len(x.put)
<1>1. x.put = Numbered(0, p) /\ ~y.ended
  BY DEF FlowHead
<1> HIDE DEF p
<1>2. p \in Nat /\ p + n \in Nat
  BY DEF p
<1>3. z.put = Numbered(0, p + n)
  <2>1. z.put = Numbered(0, p) \o Numbered(p, n)
    BY <1>1 DEF p, Puts
  <2> QED
    BY <1>2, <2>1, NumberedAdds
<1>4. Len(z.put) = p + n
  <2>1. 0 \in Nat
    OBVIOUS
  <2> QED
    BY <1>2, <1>3, <2>1, NumberedIs
<1>5. Len(y.got) <= p /\ y.got = Numbered(0, Len(y.got))
  BY DEF FlowHead, p
<1> QED
  BY <1>1, <1>2, <1>3, <1>4, <1>5 DEF FlowHead, p

\* A write after the handshake.
LEMMA SenderWrites ==
  ASSUME NEW x, NEW y, NEW z, Good(x), Good(z), Typed(y), Flow(x, y), NEW n \in Nat \ {0},
         x.open, ~x.closing, ~x.destroyed, x.queue = << >>, z.queue = x.queue, z.open,
         Puts(z, x, n), z.cut = x.cut,
         z.closing = x.closing, z.destroyed = x.destroyed,
         NEW d, d = Numbered(Len(x.put), n), Sent(z) = Sent(x) \o Bytes(d)
  PROVE  Flow(z, y)
<1>0. \A e \in Seq(Records) : Sent(z) = Sent(x) \o e => Way(z, y) = Way(x, y) \o e
  BY ZenonT(60), WayAdds
<1>1. FlowHead(x, y) /\ ~x.cut
  BY FlowHas DEF Good, Linked
<1>3. Len(y.got) \in Nat /\ Len(x.put) \in Nat /\ Len(Way(z, y)) \in Nat /\ Len(Way(x, y)) \in Nat
  BY WayIs, LenProperties DEF Good, Typed
<1>2. FlowHead(z, y) /\ Len(z.put) = Len(x.put) + n
  BY <1>1, <1>3, HeadWrites
<1>4. CASE y.destroyed
  <2>1. Len(y.got) \in Len(y.got)..Len(z.put) /\ 0 \in {0, 1} /\ 0 \in Nat
    BY <1>1, <1>2, <1>3 DEF FlowHead
  <2> QED
    BY <1>2, <1>3, <1>4, <2>1, FlowWith
<1>5. CASE ~y.destroyed
  <2>1. PICK k \in Len(y.got)..Len(x.put), c \in {0, 1} :
          \E h \in 0..Len(Way(x, y)) : Carries(x, y, k, h, c)
    BY <1>5, FlowHas
  <2>2. PICK h \in 0..Len(Way(x, y)) : Carries(x, y, k, h, c)
    BY <2>1
  <2> DEFINE w == Way(x, y)
             v == Way(z, y)
             m == Len(y.got)
             b == Bytes(d)
             p == Len(x.put)
  <2>3. c = 0 /\ k = p
    BY <1>1, <2>2 DEF Carries, Waits
  <2>4. w \in Seq(Records) /\ Carried(w, m, k, h, 0) /\ Len(w) = 2 * (h + (k - m)) /\ h \in Nat
        /\ m \in Nat /\ k \in Nat /\ m <= k
    <3>1. w \in Seq(Records)
      BY WayIs
    <3>2. Carried(w, m, k, h, c) /\ Len(w) = 2 * (h + (k - m) + c)
      BY <1>1, <2>2 DEF Carries
    <3>3. h \in Nat /\ m \in Nat /\ k \in Nat /\ m <= k
      BY <1>3
    <3> HIDE DEF w, m
    <3> QED
      BY SMTT(40), <2>3, <3>1, <3>2, <3>3
  <2>5. b \in Seq(Records)
    <3>1. d \in Seq(Records)
      BY <1>3, NumberedIs
    <3> QED
      BY <3>1, BytesAre
  <2>6. v = w \o b
    BY <1>0, <2>5, Zenon
  <2> HIDE DEF w, v, m, b, p
  <2>7. Carried(v, m, k + n, h, 0) /\ Len(v) = 2 * (h + (k + n - m))
    <3>1. d = Numbered(k, n)
      BY <2>3 DEF p
    <3>2. v = w \o Bytes(Numbered(k, n))
      BY <2>6, <3>1 DEF b
    <3> QED
      BY <2>4, <3>2, CarriedData
  <2>8. Carries(z, y, k + n, h, 0)
    <3>1. Len(v) = 2 * (h + ((k + n) - m) + 0)
      BY SMTT(40), <2>4, <2>7
    <3>2. Waits(z.queue, k + n, Len(z.put))
      <4>1. z.queue = << >>
        OBVIOUS
      <4>2. k + n = Len(z.put)
        BY <1>2, <2>3 DEF p
      <4>3. Waits(<< >>, k + n, k + n)
        BY WaitsNone
      <4> QED
        BY <4>1, <4>2, <4>3
    <3> QED
      BY <2>7, <3>1, <3>2 DEF Carries, v, m
  <2>9. k + n \in Len(y.got)..Len(z.put) /\ h \in Nat /\ 0 \in {0, 1}
    <3>1. k + n \in m..(p + n)
      BY SMTT(40), <2>3, <2>4
    <3> QED
      BY <1>2, <2>4, <3>1 DEF m, p
  <2> QED
    BY <1>2, <1>3, <2>8, <2>9, FlowWith
<1> QED
  BY <1>4, <1>5

\* A write before the handshake is done.
LEMMA SenderQueues ==
  ASSUME NEW x, NEW y, NEW z, Good(x), Good(z), Typed(y), Flow(x, y), NEW n \in Nat \ {0},
         ~x.closing, ~x.destroyed, z.queue = Append(x.queue, Numbered(Len(x.put), n)), z.open = x.open,
         Puts(z, x, n), z.cut = x.cut,
         z.closing = x.closing, z.destroyed = x.destroyed, Sent(z) = Sent(x)
  PROVE  Flow(z, y)
<1>1. FlowHead(x, y) /\ ~x.cut
  BY FlowHas DEF Good, Linked
<1>3. Len(y.got) \in Nat /\ Len(x.put) \in Nat /\ Len(Way(z, y)) \in Nat /\ Len(Way(x, y)) \in Nat
  BY WayIs, LenProperties DEF Good, Typed
<1>2. FlowHead(z, y) /\ Len(z.put) = Len(x.put) + n
  BY <1>1, <1>3, HeadWrites
<1>4. CASE y.destroyed
  <2>1. Len(y.got) \in Len(y.got)..Len(z.put) /\ 0 \in {0, 1} /\ 0 \in Nat
    BY <1>1, <1>2, <1>3 DEF FlowHead
  <2> QED
    BY <1>2, <1>3, <1>4, <2>1, FlowWith
<1>5. CASE ~y.destroyed
  <2>1. PICK k \in Len(y.got)..Len(x.put), c \in {0, 1} :
          \E h \in 0..Len(Way(x, y)) : Carries(x, y, k, h, c)
    BY <1>5, FlowHas
  <2>2. PICK h \in 0..Len(Way(x, y)) : Carries(x, y, k, h, c)
    BY <2>1
  <2>3. Way(z, y) = Way(x, y)
    BY WayIs
  <2>4. Waits(z.queue, k, Len(z.put))
    <3>1. Waits(x.queue, k, Len(x.put))
      BY <1>1, <2>2 DEF Carries
    <3>2. x.queue \in Seq(Seq(Records)) /\ k \in Nat
      BY <1>3 DEF Good, Typed
    <3> QED
      BY <1>2, <1>3, <3>1, <3>2, WaitsAdd
  <2>5. Carries(z, y, k, h, c)
    BY <1>1, <2>2, <2>3, <2>4 DEF Carries
  <2>6. k \in Len(y.got)..Len(z.put) /\ h \in Nat
    BY <1>2, <1>3
  <2> QED
    BY <1>2, <1>3, <2>5, <2>6, FlowWith
<1> QED
  BY <1>4, <1>5

----------------------------------------------------------------------------
(* What a reader does *)
LEMMA FlowLengths ==
  ASSUME NEW x, NEW y, Good(x), Typed(y)
  PROVE  Len(y.got) \in Nat /\ Len(x.put) \in Nat /\ Len(Way(x, y)) \in Nat /\ Way(x, y) \in Seq(Records)
BY WayIs, LenProperties DEF Good, Typed

LEMMA WayLength ==
  ASSUME NEW x, NEW y, Good(x), Typed(y)
  PROVE  /\ Len(Way(x, y)) = Len(y.part) + Len(y.ring) + Len(y.chunk) + Len(Bare(x.out)) + Len(x.sendq)
         /\ Len(y.part) \in Nat /\ Len(y.ring) \in Nat /\ Len(y.chunk) \in Nat
         /\ Len(Bare(x.out)) \in Nat /\ Len(x.sendq) \in Nat
<1> DEFINE p == y.part
           r == y.ring
           c == y.chunk
           o == Bare(x.out)
           s == x.sendq
<1>1. p \in Seq(Records) /\ r \in Seq(Records) /\ c \in Seq(Records) /\ o \in Seq(Records) /\ s \in Seq(Records)
  BY SentIs DEF Typed
<1>2. Way(x, y) = Whole(p, r, c, o, s)
  BY WayIs
<1> HIDE DEF p, r, c, o, s
<1>3. Len(Whole(p, r, c, o, s)) = Len(p) + Len(r) + Len(c) + Len(o) + Len(s)
  BY <1>1, WholeIs
<1>4. Len(p) \in Nat /\ Len(r) \in Nat /\ Len(c) \in Nat /\ Len(o) \in Nat /\ Len(s) \in Nat
  BY <1>1, LenProperties
<1> QED
  BY <1>2, <1>3, <1>4 DEF p, r, c, o, s

LEMMA SumIs ==
  ASSUME NEW a \in Nat, NEW b \in Nat, NEW c \in Nat, NEW d \in Nat, NEW e \in Nat
  PROVE  /\ a + b + c + d + e = 0 => e = 0
         /\ c = 0 /\ d = 0 /\ e = 0 => a + b + c + d + e = a + b
OBVIOUS

LEMMA WayShort ==
  ASSUME NEW x, NEW y, Good(x), Typed(y)
  PROVE  /\ Len(Way(x, y)) = 0 => Len(x.sendq) = 0
         /\ Len(y.chunk) = 0 /\ Len(Bare(x.out)) = 0 /\ Len(x.sendq) = 0
              => Len(Way(x, y)) = Len(y.part) + Len(y.ring)
<1> DEFINE a == Len(y.part)
           b == Len(y.ring)
           c == Len(y.chunk)
           d == Len(Bare(x.out))
           e == Len(x.sendq)
           l == Len(Way(x, y))
<1>1. l = a + b + c + d + e /\ a \in Nat /\ b \in Nat /\ c \in Nat /\ d \in Nat /\ e \in Nat
  BY WayLength
<1> HIDE DEF a, b, c, d, e, l
<1>2. (l = 0 => e = 0) /\ (c = 0 /\ d = 0 /\ e = 0 => l = a + b)
  BY <1>1, SumIs
<1> QED
  BY <1>2 DEF a, b, c, d, e, l

LEMMA HalfIs ==
  ASSUME NEW l \in Nat, NEW h \in Nat, NEW k \in Nat, NEW m \in Nat, NEW n \in Nat, NEW g \in Nat,
         NEW c \in Nat, NEW d \in Nat, l = 2 * (h + (k - m) + c), h + (k - m) + c = g + (k - n) + d + 1
  PROVE  l - 2 = 2 * (g + (k - n) + d)
OBVIOUS

\* Bytes move towards SSL.
LEMMA ReaderMoves ==
  ASSUME NEW x, NEW y, NEW z, Flow(x, y), Way(x, z) = Way(x, y), z.got = y.got, z.ended = y.ended,
         y.destroyed => z.destroyed
  PROVE  Flow(x, z)
BY DEF Flow

\* SSL takes a record.
Takes(z, y) ==
  /\ HasRecord(y) /\ z.part = << >> /\ z.ring = SubSeq(Input(y), 3, Len(Input(y)))
  /\ z.chunk = y.chunk /\ ~y.destroyed /\ ~z.destroyed
LEMMA WayTakes ==
  ASSUME NEW x, NEW y, NEW z, Good(x), Typed(y), Takes(z, y)
  PROVE  LET w == Way(x, y)
         IN  Way(x, z) = SubSeq(w, 3, Len(w)) /\ w[1] = Record(y) /\ Len(w) >= 2 /\ Record(y) \in Records
<1>1. /\ y.part \in Seq(Records) /\ y.ring \in Seq(Records) /\ y.chunk \in Seq(Records)
      /\ Bare(x.out) \in Seq(Records) /\ x.sendq \in Seq(Records)
  BY SentIs DEF Typed
<1>2. Way(x, y) = Whole(y.part, y.ring, y.chunk, Bare(x.out), x.sendq)
  BY WayIs
<1>3. Way(x, z) = Whole(<< >>, SubSeq(Input(y), 3, Len(Input(y))), y.chunk, Bare(x.out), x.sendq)
  BY DEF Takes, Way, Whole
<1>4. Len(y.part \o y.ring) >= 2 /\ Input(y) = y.part \o y.ring /\ Record(y) = (y.part \o y.ring)[1]
  BY DEF Takes, HasRecord, Input, Record
<1> DEFINE p == y.part
           r == y.ring
           c == y.chunk
           o == Bare(x.out)
           s == x.sendq
<1>5. Way(x, y) = Whole(p, r, c, o, s) /\ Way(x, z) = Whole(<< >>, SubSeq(p \o r, 3, Len(p \o r)), c, o, s)
  BY <1>2, <1>3, <1>4
<1> HIDE DEF p, r, c, o, s
<1>6. LET i == p \o r
          w == Whole(p, r, c, o, s)
      IN  /\ Whole(<< >>, SubSeq(i, 3, Len(i)), c, o, s) = SubSeq(w, 3, Len(w))
          /\ w[1] = i[1] /\ Len(w) >= 2 /\ i[1] \in Records
  BY <1>1, <1>4, WholeTakes DEF p, r, c, o, s
<1> QED
  BY <1>4, <1>5, <1>6, Zenon DEF p, r

LEMMA ReaderTakes ==
  ASSUME NEW x, NEW y, NEW z, Good(x), Typed(y), Typed(z), Takes(z, y), FlowHead(x, z),
         NEW k \in Len(y.got)..Len(x.put), NEW c \in {0, 1}, NEW h \in Nat, NEW g \in Nat, NEW d \in {0, 1},
         Len(z.got) <= k, h + (k - Len(y.got)) + c = g + (k - Len(z.got)) + d + 1,
         Carries(x, y, k, h, c), Carried(Way(x, z), Len(z.got), k, g, d), d = 1 => c = 1
  PROVE  Flow(x, z)
<1>1. Len(y.got) \in Nat /\ Len(x.put) \in Nat /\ Len(Way(x, y)) \in Nat /\ Way(x, y) \in Seq(Records)
  BY FlowLengths
<1>2. Len(z.got) \in Nat /\ Len(Way(x, z)) \in Nat
  BY FlowLengths
<1>3. Len(Way(x, z)) = Len(Way(x, y)) - 2
  <2> DEFINE w == Way(x, y)
  <2>1. Way(x, z) = SubSeq(w, 3, Len(w)) /\ Len(w) >= 2 /\ w \in Seq(Records)
    BY <1>1, WayTakes
  <2> HIDE DEF w
  <2>2. 2 \in Nat /\ 2 <= Len(w) /\ 2 + 1 = 3
    BY <2>1
  <2>3. Len(SubSeq(w, 2 + 1, Len(w))) = Len(w) - 2
    BY ZenonT(60), <2>1, <2>2, RestIs
  <2> QED
    BY <2>1, <2>2, <2>3 DEF w
<1>4. Carries(x, z, k, g, d)
  <2>1. ASSUME ~x.cut
        PROVE  Len(Way(x, z)) = 2 * (g + (k - Len(z.got)) + d) /\ Waits(x.queue, k, Len(x.put))
    <3>1. Len(Way(x, y)) = 2 * (h + (k - Len(y.got)) + c) /\ Waits(x.queue, k, Len(x.put))
      BY <2>1 DEF Carries
    <3>2. k \in Nat /\ c \in Nat /\ d \in Nat
      BY <1>1
    <3>3. Len(Way(x, y)) - 2 = 2 * (g + (k - Len(z.got)) + d)
      <4> DEFINE l == Len(Way(x, y))
                 m == Len(y.got)
                 n == Len(z.got)
      <4>1. l \in Nat /\ m \in Nat /\ n \in Nat /\ l = 2 * (h + (k - m) + c) /\ h + (k - m) + c = g + (k - n) + d + 1
        BY <1>1, <1>2, <3>1
      <4> HIDE DEF l, m, n
      <4>2. l - 2 = 2 * (g + (k - n) + d)
        BY <3>2, <4>1, HalfIs
      <4> QED
        BY <4>2 DEF l, n
    <3> QED
      BY <1>3, <3>1, <3>3
  <2> QED
    BY <2>1 DEF Carries
<1>5. k \in Len(z.got)..Len(x.put)
  BY <1>1, <1>2
<1> QED
  BY <1>2, <1>4, <1>5, FlowWith

\* A record of the handshake.
LEMMA ReaderHello ==
  ASSUME NEW x, NEW y, NEW z, Good(x), Typed(y), Typed(z), Flow(x, y), Takes(z, y),
         z.got = y.got, z.ended = y.ended, Record(y)[1] \notin {"data", "close"}
  PROVE  Flow(x, z)
<1>1. PICK k \in Len(y.got)..Len(x.put), c \in {0, 1} :
        \E h \in 0..Len(Way(x, y)) : Carries(x, y, k, h, c)
  BY FlowHas DEF Takes
<1>2. PICK h \in 0..Len(Way(x, y)) : Carries(x, y, k, h, c)
  BY <1>1
<1>3. FlowHead(x, z)
  BY FlowHas DEF FlowHead
<1> DEFINE w == Way(x, y)
           m == Len(y.got)
<1>4. w \in Seq(Records) /\ m \in Nat /\ k \in Nat /\ h \in Nat /\ m <= k
  BY FlowLengths
<1>5. Carried(w, m, k, h, c)
  BY <1>2 DEF Carries
<1>6. Len(w) >= 2 /\ w[1] = Record(y) /\ Way(x, z) = SubSeq(w, 3, Len(w))
  BY WayTakes
<1> HIDE DEF w, m
<1>7. h > 0 /\ Carried(Way(x, z), m, k, h - 1, c)
  BY SMTT(40), <1>4, <1>5, <1>6, CarriedTake
<1>8. h - 1 \in Nat /\ h + (k - m) + c = (h - 1) + (k - m) + c + 1
  BY <1>4, <1>7
<1> QED
  BY <1>2, <1>3, <1>4, <1>7, <1>8, ReaderTakes DEF m

\* A record of data.
LEMMA ReaderData ==
  ASSUME NEW x, NEW y, NEW z, Good(x), Typed(y), Typed(z), Flow(x, y), Takes(z, y),
         z.got = Append(y.got, Record(y)), z.ended = y.ended, Record(y)[1] = "data"
  PROVE  Flow(x, z) /\ ~(y.ended /\ ~x.cut)
<1>1. PICK k \in Len(y.got)..Len(x.put), c \in {0, 1} :
        \E h \in 0..Len(Way(x, y)) : Carries(x, y, k, h, c)
  BY FlowHas DEF Takes
<1>2. PICK h \in 0..Len(Way(x, y)) : Carries(x, y, k, h, c)
  BY <1>1
<1> DEFINE w == Way(x, y)
           m == Len(y.got)
<1>4. w \in Seq(Records) /\ m \in Nat /\ k \in Nat /\ h \in Nat /\ m <= k /\ k <= Len(x.put) /\ Len(x.put) \in Nat
  BY FlowLengths
<1>5. Carried(w, m, k, h, c)
  BY <1>2 DEF Carries
<1>6. Len(w) >= 2 /\ w[1] = Record(y) /\ Way(x, z) = SubSeq(w, 3, Len(w)) /\ Record(y) \in Records
  BY WayTakes
<1> HIDE DEF w, m
<1>7. h = 0 /\ m < k /\ w[1] = <<"data", m + 1>> /\ Carried(Way(x, z), m + 1, k, 0, c)
  <2>1. w[1][1] = "data" /\ Len(w) >= 2
    BY <1>6
  <2>2. LET v == SubSeq(w, 3, Len(w))
        IN  h = 0 /\ m < k /\ w[1] = <<"data", m + 1>> /\ Carried(v, m + 1, k, 0, c)
    BY SMTT(40), <1>4, <1>5, <2>1, CarriedTake
  <2> QED
    BY <1>6, <2>2
<1>8. ~(y.ended /\ ~x.cut)
  BY <1>4, <1>7, FlowHas DEF FlowHead, m
<1>9. Len(z.got) = m + 1 /\ z.got = Numbered(0, m + 1)
  <2> DEFINE a == Append(y.got, Record(y))
             b == Numbered(0, m + 1)
  <2>1. y.got = Numbered(0, m) /\ y.got \in Seq(Records)
    BY FlowHas DEF FlowHead, Typed, m
  <2>2. a \in Seq(Records) /\ Len(a) = m + 1 /\ a[m + 1] = <<"data", m + 1>> /\ \A i \in 1..m : a[i] = y.got[i]
    BY <1>6, <1>7, <2>1, AppendProperties DEF m
  <2>3. y.got = Numbered(0, m) /\ \A i \in 1..m : y.got[i] = <<"data", i>>
    <3>1. 0 \in Nat
      OBVIOUS
    <3>2. \A i \in 1..m : Numbered(0, m)[i] = <<"data", 0 + i>>
      BY <1>4, <3>1, NumberedIs
    <3> QED
      BY <2>1, <3>2
  <2>4. b \in Seq(Records) /\ Len(b) = m + 1 /\ \A i \in 1..(m + 1) : b[i] = <<"data", i>>
    <3>1. 0 \in Nat /\ m + 1 \in Nat
      BY <1>4
    <3>2. b \in Seq(Records) /\ Len(b) = m + 1 /\ \A i \in 1..(m + 1) : b[i] = <<"data", 0 + i>>
      BY <3>1, NumberedIs
    <3> HIDE DEF b
    <3> QED
      BY <3>2
  <2> HIDE DEF a, b
  <2>5. \A i \in 1..(m + 1) : a[i] = b[i]
    <3>1. \A i \in 1..(m + 1) : i \in 1..m \/ i = m + 1
      BY <1>4
    <3>2. \A i \in 1..m : i \in 1..(m + 1)
      BY <1>4
    <3>3. m + 1 \in 1..(m + 1)
      BY <1>4
    <3> QED
      BY <2>2, <2>3, <2>4, <3>1, <3>2, <3>3
  <2>6. a = b
    BY <2>2, <2>4, <2>5, SeqEqual
  <2> QED
    BY <2>2, <2>6 DEF a, b
<1>10. FlowHead(x, z)
  BY <1>4, <1>7, <1>8, <1>9, FlowHas DEF FlowHead
<1>11. 0 \in Nat /\ Len(z.got) <= k /\ h + (k - m) + c = 0 + (k - Len(z.got)) + c + 1
  BY <1>4, <1>7, <1>9
<1> QED
  BY <1>2, <1>4, <1>7, <1>8, <1>9, <1>10, <1>11, ReaderTakes DEF m

\* close_notify: nothing follows it.
LEMMA ReaderClose ==
  ASSUME NEW x, NEW y, NEW z, Good(x), Typed(y), Typed(z), Flow(x, y), Takes(z, y),
         z.got = y.got, Record(y)[1] = "close", x.closing => x.queue = << >>
  PROVE  Flow(x, z)
<1>1. PICK k \in Len(y.got)..Len(x.put), c \in {0, 1} :
        \E h \in 0..Len(Way(x, y)) : Carries(x, y, k, h, c)
  BY FlowHas DEF Takes
<1>2. PICK h \in 0..Len(Way(x, y)) : Carries(x, y, k, h, c)
  BY <1>1
<1> DEFINE w == Way(x, y)
           m == Len(y.got)
<1>4. w \in Seq(Records) /\ m \in Nat /\ k \in Nat /\ h \in Nat /\ m <= k /\ k <= Len(x.put) /\ Len(x.put) \in Nat
  BY FlowLengths
<1>5. Carried(w, m, k, h, c)
  BY <1>2 DEF Carries
<1>6. Len(w) >= 2 /\ w[1] = Record(y) /\ Way(x, z) = SubSeq(w, 3, Len(w))
  BY WayTakes
<1> HIDE DEF w, m
<1>7. h = 0 /\ k = m /\ c = 1 /\ Way(x, z) = << >> /\ Carried(Way(x, z), m, k, 0, 0)
  BY <1>4, <1>5, <1>6, CarriedTake
<1>8. x.closing
  BY <1>2, <1>7 DEF Carries
<1>9. x.sendq = << >>
  <2>1. Len(Way(x, z)) = 0 /\ x.sendq \in Seq(Records)
    BY <1>7, SentIs
  <2>2. Len(x.sendq) = 0
    BY <2>1, WayShort
  <2> QED
    BY <2>1, <2>2, EmptySeq
<1>10. ~x.cut => m = Len(x.put)
  BY <1>2, <1>7, <1>8 DEF Carries, Waits
<1>11. FlowHead(x, z)
  BY <1>8, <1>9, <1>10, FlowHas DEF FlowHead, m
<1>12. 0 \in Nat /\ 0 \in {0, 1} /\ Len(z.got) <= k /\ h + (k - m) + c = 0 + (k - Len(z.got)) + 0 + 1
  BY <1>4, <1>7 DEF m
<1> QED
  BY <1>2, <1>4, <1>7, <1>11, <1>12, ReaderTakes DEF m

\* The FIN: less than a record is left, so nothing was cut.
LEMMA ReaderEof ==
  ASSUME NEW x, NEW y, NEW z, Good(x), Typed(y), Flow(x, y), ~y.destroyed,
         Bare(x.out) = << >>, x.finned, y.chunk = << >>, ~HasRecord(y), x.closing => x.queue = << >>,
         z.got = y.got, z.destroyed \/ (z.part = y.part /\ z.ring = y.ring /\ z.chunk = y.chunk)
  PROVE  Flow(x, z)
<1>1. PICK k \in Len(y.got)..Len(x.put), c \in {0, 1} :
        \E h \in 0..Len(Way(x, y)) : Carries(x, y, k, h, c)
  BY FlowHas
<1>2. PICK h \in 0..Len(Way(x, y)) : Carries(x, y, k, h, c)
  BY <1>1
<1> DEFINE w == Way(x, y)
           m == Len(y.got)
<1>4. w \in Seq(Records) /\ m \in Nat /\ k \in Nat /\ h \in Nat /\ m <= k /\ k <= Len(x.put) /\ Len(x.put) \in Nat
  BY FlowLengths
<1>5. x.sendq = << >> /\ (x.closing \/ x.destroyed)
  BY DEF Good, Linked, Sound
<1>6. Len(w) < 2
  <2>1. y.part \in Seq(Records) /\ y.ring \in Seq(Records)
    BY DEF Typed
  <2>2. Len(y.chunk) = 0 /\ Len(Bare(x.out)) = 0 /\ Len(x.sendq) = 0
    BY <1>5
  <2>3. Len(Input(y)) = Len(y.part) + Len(y.ring) /\ Input(y) \in Seq(Records)
    BY <2>1, JoinIs DEF Input
  <2>4. Len(Input(y)) < 2
    <3>1. Len(Input(y)) \in Nat
      BY <2>3, LenProperties
    <3> QED
      BY <3>1 DEF HasRecord
  <2>5. Len(w) = Len(y.part) + Len(y.ring)
    BY <2>2, WayShort
  <2> QED
    BY <2>3, <2>4, <2>5
<1> HIDE DEF w, m
<1>7. ~x.cut => k = m /\ x.queue = << >> /\ k = Len(x.put)
  <2>1. ASSUME ~x.cut PROVE k = m /\ x.queue = << >> /\ k = Len(x.put)
    <3>1. Len(w) = 2 * (h + (k - m) + c) /\ Waits(x.queue, k, Len(x.put))
      BY <1>2, <2>1 DEF Carries, w, m
    <3>2. k = m
      BY <1>4, <1>6, <3>1
    <3>3. x.queue = << >>
      BY <1>5, <2>1 DEF Good, Linked
    <3> QED
      BY <3>1, <3>2, <3>3 DEF Waits
  <2> QED
    BY <2>1
<1>8. FlowHead(x, z)
  BY <1>5, <1>7, FlowHas DEF FlowHead, m
<1>9. Carries(x, z, k, h, c) \/ z.destroyed
  <2>1. ~z.destroyed => Way(x, z) = Way(x, y)
    BY DEF Way
  <2> QED
    BY <1>2, <2>1 DEF Carries
<1>10. CASE z.destroyed
  BY <1>8, <1>10 DEF Flow, FlowHead
<1>11. CASE ~z.destroyed
  <2>1. Way(x, z) = w
    BY <1>11 DEF Way, w
  <2>2. Len(Way(x, z)) \in Nat /\ Len(z.got) \in Nat /\ k \in Len(z.got)..Len(x.put)
    BY <1>4, <2>1, LenProperties DEF m
  <2> QED
    BY <1>4, <1>8, <1>9, <1>11, <2>2, FlowWith
<1> QED
  BY <1>10, <1>11

----------------------------------------------------------------------------
(* The two ends, between the calls of a step *)
Pair(x, y) == Good(x) /\ Good(y) /\ Flow(x, y) /\ Flow(y, x)
\* What a step may do to an end x, next to the end y, to be a step of both channels.
Steps(z, x, y) ==
  /\ z.put = x.put \/ (~x.closing /\ ~x.destroyed /\ Len(z.put) > Len(x.put))
  /\ (x.closing => z.closing) /\ (x.destroyed => z.destroyed) /\ (y.ended => (z.cut <=> x.cut))
  /\ z.got = x.got \/ Len(z.got) > Len(x.got)
  /\ x.ended => z.ended
  /\ z.raw = "new" => x.raw = "new"
\* What the callback that runs knows of its end.
Knows(z, x) ==
  /\ z.task = x.task /\ z.chunk = x.chunk /\ z.last = x.last /\ z.queue = x.queue
  /\ z.open = x.open /\ z.notified = x.notified

LEMMA StepsOn ==
  ASSUME NEW x, NEW w, NEW z, NEW y, Steps(w, x, y), Steps(z, w, y),
         Len(x.put) \in Nat, Len(w.put) \in Nat, Len(z.put) \in Nat,
         Len(x.got) \in Nat, Len(w.got) \in Nat, Len(z.got) \in Nat
  PROVE  Steps(z, x, y)
<1>1. z.put = x.put \/ (~x.closing /\ ~x.destroyed /\ Len(z.put) > Len(x.put))
  BY DEF Steps
<1>2. z.got = x.got \/ Len(z.got) > Len(x.got)
  BY DEF Steps
<1> QED
  BY <1>1, <1>2 DEF Steps

LEMMA LengthsAre ==
  ASSUME NEW x, Good(x)
  PROVE  Len(x.put) \in Nat /\ Len(x.got) \in Nat
BY LenProperties DEF Good, Typed

LEMMA SameTlsPair ==
  ASSUME NEW x, NEW y, NEW z, Pair(x, y), Good(z), SameTls(z, x), Sent(z) = Sent(x),
         x.sendq = << >> => z.sendq = << >>
  PROVE  Pair(z, y) /\ Steps(z, x, y) /\ Knows(z, x)
<1>1. FlowsAs(z, x) /\ Typed(y)
  BY DEF SameTls, FlowsAs, Pair, Good
<1>2. Flow(z, y)
  BY <1>1, SenderSame DEF Pair
<1>3. Flow(y, z)
  BY ReaderMoves DEF Pair, SameTls, Way
<1> QED
  BY <1>2, <1>3 DEF Pair, SameTls, Steps, Knows

\* A step that changes only what the end reads.
Plain(z, x) ==
  /\ DOMAIN z = Fields
  /\ z.conn = x.conn /\ z.open = x.open /\ z.writable = x.writable /\ z.destroyed = x.destroyed
  /\ z.closing = x.closing /\ z.queue = x.queue
  /\ z.stuck = x.stuck /\ z.raw = x.raw /\ z.rawWritable = x.rawWritable /\ z.sendq = x.sendq
  /\ z.draining = x.draining /\ z.finTimer = x.finTimer /\ z.finned = x.finned /\ z.out = x.out
  /\ z.put = x.put /\ z.cut = x.cut /\ (z.rawReadable => x.rawReadable)
LEMMA PlainGood ==
  ASSUME NEW x, NEW y, NEW z, Good(x), Good(y), Plain(z, x), Flow(x, y),
         z.part \in Seq(Records), z.ring \in Seq(Records), z.chunk \in Seq(Records), z.got \in Seq(Records),
         Len(z.part) <= 1, Len(z.ring) <= Ring, z.got = x.got \/ Len(z.got) > Len(x.got),
         x.ended => z.ended, z.notified => z.ended
  PROVE  Good(z) /\ Flow(z, y) /\ Steps(z, x, y)
<1>1. Sound(z)
  BY DEF Good, Sound, Dead, Plain
<1>2. Typed(z)
  BY DEF Good, Typed, Plain
<1>3. Linked(z)
  BY DEF Good, Linked, Plain
<1>4. Good(z)
  BY <1>1, <1>2, <1>3 DEF Good
<1>5. FlowsAs(z, x) /\ Typed(y)
  BY DEF FlowsAs, Plain, Sent, Good
<1>6. Flow(z, y)
  BY <1>4, <1>5, SenderSame
<1>7. Steps(z, x, y)
  BY DEF Steps, Plain
<1> QED
  BY <1>4, <1>6, <1>7

\* destroy(), of an end that may have read on since it was paired.
LEMMA DestroyPair ==
  ASSUME NEW x, NEW y, NEW v, Good(x), Good(y), Flow(x, y), Flow(y, v), x.got = v.got, x.ended = v.ended,
         x.destroyed => v = x
  PROVE  LET z == Destroy(x)
         IN  /\ Pair(z, y) /\ Steps(z, x, y) /\ Knows(z, x) /\ z.destroyed /\ ~z.conn /\ z.raw = "destroyed"
             /\ ~x.destroyed => Destroy(RawDestroy(x)) = z
<1> DEFINE z == Destroy(x)
<1>1. CASE x.destroyed
  <2>1. z = x
    BY <1>1 DEF Destroy
  <2>2. Pair(x, y) /\ ~x.conn /\ x.raw = "destroyed"
    BY <1>1 DEF Pair, Good, Linked, Sound
  <2>3. Steps(x, x, y) /\ Knows(x, x)
    BY DEF Steps, Knows
  <2> QED
    BY <1>1, <2>1, <2>2, <2>3
<1>2. CASE ~x.destroyed
  <2>1. Gone(z, x)
    BY <1>2, DestroyGood
  <2>2. Destroy(RawDestroy(x)) = z
    BY <1>2, DestroyTwice DEF Good, Sound
  <2> HIDE DEF z
  <2>3. Flow(z, y)
    BY <1>2, <2>1, SenderGone DEF Good
  <2>4. ReadsAs(z, v)
    BY <2>1 DEF Gone, ReadsAs
  <2>5. Flow(y, z)
    BY <2>4, ReaderSame
  <2>6. y.ended => (z.cut <=> x.cut)
    <3>1. ~x.cut /\ FlowHead(x, y)
      BY <1>2, FlowHas DEF Good, Linked
    <3> QED
      BY <1>2, <2>1, <3>1 DEF Gone, FlowHead
  <2>7. Steps(z, x, y) /\ Knows(z, x)
    BY <1>2, <2>1, <2>6 DEF Gone, Steps, Knows
  <2> QED
    BY <2>1, <2>2, <2>3, <2>5, <2>7 DEF Gone, Pair, z
<1> QED
  BY <1>1, <1>2

\* 'end', and destroy() if the other half is done.
LEMMA AfterEofPair ==
  ASSUME NEW x, NEW y, Pair(EmitEnd(x), y), DOMAIN x = Fields
  PROVE  LET w == EmitEnd(x)
             z == AfterEof(x)
         IN  /\ Pair(z, y) /\ Steps(z, w, y) /\ Knows(z, w)
             /\ z = w \/ (z.destroyed /\ ~z.conn)
<1> DEFINE w == EmitEnd(x)
           z == AfterEof(x)
<1>1. CASE x.writable
  <2>1. z = w
    BY <1>1 DEF AfterEof
  <2>2. Steps(w, w, y) /\ Knows(w, w)
    BY DEF Steps, Knows
  <2> QED
    BY <2>1, <2>2
<1>2. CASE ~x.writable
  <2>1. z = Destroy(w)
    BY <1>2 DEF AfterEof
  <2> HIDE DEF w
  <2>2. Pair(w, y)
    BY DEF w
  <2>3. Pair(Destroy(w), y) /\ Steps(Destroy(w), w, y) /\ Knows(Destroy(w), w) /\ Destroy(w).destroyed /\ ~Destroy(w).conn
    BY <2>2, DestroyPair DEF Pair
  <2> QED
    BY <2>1, <2>3 DEF w
<1> QED
  BY <1>1, <1>2

\* The end of a callback's loop.
LEMMA ReturnPair ==
  ASSUME NEW x, NEW y, Pair(x, y), x.last \/ x.task = "idle" => x.chunk = << >>,
         x.task # "feed", x.conn /\ ~x.notified => ~HasRecord(x), x.open => x.queue = << >>
  PROVE  LET z == Return(x)
         IN  Pair(z, y) /\ Working(z) /\ Steps(z, x, y)
<1> DEFINE t == IF x.task = "idle" \/ x.last \/ x.destroyed THEN "idle" ELSE "feed"
           c == IF x.last \/ x.destroyed THEN << >> ELSE x.chunk
           z == Return(x)
<1>1. z = [x EXCEPT !.task = t, !.last = TRUE, !.chunk = c]
  BY DEF Return
<1>2. DOMAIN x = Fields
  BY DEF Pair, Good, Sound
<1>3. c \in Seq(Records) /\ (~x.destroyed => c = x.chunk) /\ (t = "idle" => c = << >>)
  BY EmptySeq DEF Pair, Good, Typed
<1>4. t = "idle" \/ t = "feed"
  OBVIOUS
<1>5. t = "idle" => x.chunk = << >> \/ x.destroyed
  OBVIOUS
<1> HIDE DEF t, c
<1>6. /\ Plain(z, x) /\ z.task = t /\ z.last = TRUE /\ z.chunk = c
      /\ z.part = x.part /\ z.ring = x.ring /\ z.got = x.got /\ z.ended = x.ended /\ z.notified = x.notified
  BY <1>1, <1>2 DEF Plain, Fields
<1> HIDE DEF z
<1>7. Good(z) /\ Flow(z, y) /\ Steps(z, x, y)
  <2>1. z.part \in Seq(Records) /\ z.ring \in Seq(Records) /\ z.chunk \in Seq(Records) /\ z.got \in Seq(Records)
        /\ Len(z.part) <= 1 /\ Len(z.ring) <= Ring /\ (z.notified => z.ended)
    BY <1>3, <1>6 DEF Pair, Good, Typed, Linked
  <2> QED
    BY <1>6, <2>1, PlainGood DEF Pair
<1>8. ReadsAs(z, x)
  BY <1>3, <1>6 DEF ReadsAs, Plain
<1>9. Flow(y, z)
  BY <1>8, ReaderSame DEF Pair
<1>10. Working(z)
  <2>1. z.task = "idle" /\ z.conn /\ ~z.notified => ~HasRecord(z)
    BY <1>6 DEF Plain, HasRecord, Input
  <2> QED
    BY <1>3, <1>4, <1>6, <2>1 DEF Working, Plain
<1> QED
  BY <1>7, <1>9, <1>10 DEF Pair, z

----------------------------------------------------------------------------
(* Steps *)
FlowsInv == TlsInv /\ FlowInv
LEMMA PairIs ==
  ASSUME FlowsInv, NEW e \in Ends
  PROVE  LET x == side[e]
             y == side[Other(e)]
         IN  /\ Pair(x, y) /\ Working(x) /\ Working(y) /\ Sound(x) /\ SideInv(x) /\ DOMAIN x = Fields
             /\ Other(e) \in Ends /\ Other(e) # e /\ Other(Other(e)) = e /\ Ends = {e, Other(e)}
<1>1. Other(e) \in Ends /\ Other(e) # e /\ Other(Other(e)) = e /\ Ends = {e, Other(e)}
  BY DEF Ends, Other
<1>2. \A d \in Ends : Sound(side[d]) /\ SideInv(side[d]) /\ DOMAIN side[d] = Fields
  BY EndIs DEF FlowsInv
<1>3. \A d \in Ends : Typed(side[d]) /\ Linked(side[d]) /\ Working(side[d]) /\ Flow(side[d], side[Other(d)])
  BY DEF FlowsInv, FlowInv
<1> QED
  BY <1>1, <1>2, <1>3 DEF Pair, Good

\* The other end, whose kernel may have been read.
Stays(z, x) ==
  /\ z.put = x.put /\ z.got = x.got /\ z.closing = x.closing /\ z.destroyed = x.destroyed
  /\ z.cut = x.cut /\ z.ended = x.ended /\ z.raw = x.raw /\ z.conn = x.conn /\ z.queue = x.queue
\* A step of e.
Went(e) ==
  LET f == Other(e)
  IN  /\ Pair(side'[e], side'[f]) /\ Working(side'[e]) /\ Working(side'[f])
      /\ Steps(side'[e], side[e], side[f]) /\ Stays(side'[f], side[f])
      /\ e = "server" => side'[e].raw # "new"

LEMMA BecomesWent ==
  ASSUME FlowsInv, NEW e \in Ends, NEW z, Becomes(e, z), Pair(z, side[Other(e)]), Working(z),
         Steps(z, side[e], side[Other(e)]), e = "server" => side[e].raw # "new" \/ z.raw # "new"
  PROVE  Went(e)
<1>1. side'[e] = z /\ side'[Other(e)] = side[Other(e)]
  BY PairIs DEF Becomes, FlowsInv, TlsInv
<1>2. Stays(side[Other(e)], side[Other(e)]) /\ Working(side[Other(e)])
  BY PairIs DEF Stays
<1> QED
  BY <1>1, <1>2 DEF Went, Steps

LEMMA WentKeeps ==
  ASSUME FlowsInv, NEW e \in Ends, Went(e)
  PROVE  FlowInv'
<1> DEFINE f == Other(e)
<1>1. Ends = {e, f} /\ Other(f) = e
  BY PairIs
<1>2. \A d \in Ends : Typed(side'[d]) /\ Linked(side'[d]) /\ Working(side'[d]) /\ Flow(side'[d], side'[Other(d)])
  BY <1>1 DEF Went, Pair, Good
<1>3. side'["server"].raw = "new" => ~side'["server"].conn /\ side'["server"].queue = << >>
  <2>1. "server" = e \/ "server" = f
    BY <1>1 DEF Ends
  <2> QED
    BY <2>1 DEF Went, Stays, FlowsInv, FlowInv
<1> QED
  BY <1>2, <1>3 DEF FlowInv

----------------------------------------------------------------------------
(* Calls of the script *)
\* The chunk of a write() fits into the ring.
LEMMA SslWriteAllGood ==
  ASSUME NEW x, Good(x), x.rawWritable, NEW d \in Seq(Records), 2 * Len(d) <= Ring
  PROVE  LET z == SslWriteAll(x, d)
         IN  Good(z) /\ SameTls(z, x) /\ Sent(z) = Sent(x) \o Bytes(d)
<1>1. Bytes(d) \in Seq(Records) /\ Len(Bytes(d)) = 2 * Len(d)
  BY BytesAre
<1>2. x.conn /\ ~x.stuck
  BY DEF Good, Sound, Dead, Linked
<1>3. SslWriteAll(x, d) = RawWrite(x, Bytes(d))
  BY SMTT(40), <1>1, <1>2 DEF SslWriteAll
<1> QED
  BY <1>1, <1>3, RawWriteGood

LEMMA WriteWent ==
  ASSUME FlowsInv, FitsRing, NEW e \in Ends, Write(e)
  PROVE  Went(e)
<1> DEFINE x == side[e]
           y == side[Other(e)]
<1>1. PICK k \in WriteSizes :
        LET data == [i \in 1..k |-> <<"data", Len(x.put) + i>>]
            v == [x EXCEPT !.put = @ \o data]
        IN  /\ x.open => x.writable
            /\ Becomes(e, IF Queues(x) THEN [v EXCEPT !.queue = Append(@, data)]
                          ELSE IF x.writable THEN SslWriteAll(v, data) ELSE v)
  BY DEF Write
<1>2. k \in Nat \ {0} /\ 2 * k <= Ring
  BY TlsAssumption DEF FitsRing
<1> DEFINE d == Numbered(Len(x.put), k)
           p == x.put \o d
           v == [x EXCEPT !.put = p]
           q == Append(v.queue, d)
           z == [v EXCEPT !.queue = q]
<1>3. d = [i \in 1..k |-> <<"data", Len(x.put) + i>>]
  BY DEF Numbered
<1>4. /\ x.open => x.writable
      /\ Becomes(e, IF ~x.open THEN z ELSE SslWriteAll(v, d))
  BY <1>1, <1>3 DEF Queues
<1>5. /\ x.conn /\ x.task \in {"idle", "told"} /\ Pair(x, y) /\ Working(x) /\ DOMAIN x = Fields
      /\ e = "server" => x.raw # "new"
  BY PairIs DEF Write, Acts, Sound
<1>6. ~x.destroyed /\ ~x.closing
  BY <1>4, <1>5 DEF Pair, Good, Linked
<1>7. Len(x.put) \in Nat /\ d \in Seq(Records) /\ Len(d) = k /\ p \in Seq(Records) /\ Len(p) > Len(x.put)
  <2>1. Len(x.put) \in Nat /\ x.put \in Seq(Records)
    BY <1>5, LengthsAre DEF Pair, Good, Typed
  <2>2. d \in Seq(Records) /\ Len(d) = k
    BY <1>2, <2>1, NumberedIs
  <2> HIDE DEF d
  <2>3. p \in Seq(Records) /\ Len(p) = Len(x.put) + Len(d)
    BY <2>1, <2>2, JoinIs
  <2> HIDE DEF p
  <2> QED
    BY <1>2, <2>1, <2>2, <2>3
<1> HIDE DEF p, d
<1>8. /\ DOMAIN v = Fields /\ v.put = p /\ Sent(v) = Sent(x)
      /\ v.conn = x.conn /\ v.open = x.open /\ v.writable = x.writable /\ v.destroyed = x.destroyed
      /\ v.closing = x.closing /\ v.ended = x.ended /\ v.queue = x.queue /\ v.notified = x.notified
      /\ v.stuck = x.stuck /\ v.raw = x.raw /\ v.rawWritable = x.rawWritable /\ v.sendq = x.sendq
      /\ v.draining = x.draining /\ v.finTimer = x.finTimer /\ v.finned = x.finned /\ v.out = x.out
      /\ v.got = x.got /\ v.cut = x.cut /\ v.rawReadable = x.rawReadable /\ v.part = x.part
      /\ v.ring = x.ring /\ v.chunk = x.chunk /\ v.task = x.task /\ v.last = x.last /\ v.stage = x.stage
  BY <1>5 DEF Fields, Sent
<1>9. Good(v)
  <2> HIDE DEF x, v
  <2>1. Sound(v)
    BY <1>5, <1>8 DEF Pair, Good, Sound, Dead
  <2>2. Typed(v)
    BY <1>5, <1>7, <1>8 DEF Pair, Good, Typed
  <2>3. Linked(v)
    BY <1>5, <1>8 DEF Pair, Good, Linked
  <2> QED
    BY <2>1, <2>2, <2>3 DEF Good
<1>10. CASE x.open
  <2> DEFINE w == SslWriteAll(v, d)
  <2>1. v.rawWritable
    BY <1>4, <1>5, <1>6, <1>8, <1>10 DEF Pair, Good, Linked
  <2>2. Good(w) /\ SameTls(w, v) /\ Sent(w) = Sent(v) \o Bytes(d)
    BY <1>2, <1>7, <1>9, <2>1, SslWriteAllGood
  <2> HIDE DEF v, w, x, y
  <2>3. x.queue = << >>
    BY <1>5, <1>10 DEF Working
  <2>4. Flow(w, y)
    <3>1. Puts(w, x, k) /\ d = Numbered(Len(x.put), k) /\ Sent(w) = Sent(x) \o Bytes(d)
      BY <1>8, <2>2 DEF SameTls, Puts, p, d
    <3>2. /\ w.queue = x.queue /\ w.open /\ w.cut = x.cut /\ w.closing = x.closing
          /\ w.destroyed = x.destroyed
      BY <1>8, <1>10, <2>2 DEF SameTls
    <3>3. Good(x) /\ Typed(y) /\ Flow(x, y)
      BY <1>5 DEF Pair, Good
    <3> QED
      BY <1>2, <1>6, <1>10, <2>2, <2>3, <3>1, <3>2, <3>3, SenderWrites
  <2>5. ReadsAs(w, x)
    BY <1>6, <1>8, <2>2 DEF SameTls, ReadsAs
  <2>6. Flow(y, w)
    BY <1>5, <2>5, ReaderSame DEF Pair
  <2>7. Steps(w, x, y)
    BY <1>6, <1>7, <1>8, <2>2 DEF Steps, SameTls
  <2>8. Working(w)
    BY <1>5, <1>8, <2>2 DEF Working, SameTls, HasRecord, Input
  <2>9. Becomes(e, w)
    BY <1>4, <1>10 DEF w
  <2>10. Pair(w, y)
    BY <1>5, <2>2, <2>4, <2>6 DEF Pair
  <2> QED
    BY <1>5, <2>7, <2>8, <2>9, <2>10, BecomesWent DEF x, y
<1>11. CASE ~x.open
  <2>1. q \in Seq(Seq(Records)) /\ \A j \in DOMAIN q : 2 * Len(q[j]) <= Ring
    <3>1. x.queue \in Seq(Seq(Records)) /\ \A j \in DOMAIN x.queue : 2 * Len(x.queue[j]) <= Ring
      BY <1>5 DEF Pair, Good, Typed
    <3>2. q = Append(x.queue, d)
      BY <1>8
    <3> HIDE DEF q, x, v
    <3>3. /\ q \in Seq(Seq(Records)) /\ Len(q) = Len(x.queue) + 1 /\ q[Len(q)] = d
          /\ \A j \in 1..Len(x.queue) : q[j] = x.queue[j]
      BY <1>7, <3>1, <3>2, AppendProperties
    <3>4. DOMAIN q = 1..Len(q) /\ DOMAIN x.queue = 1..Len(x.queue) /\ Len(x.queue) \in Nat
      BY <3>1, <3>3, LenProperties
    <3>5. \A j \in DOMAIN q : j \in 1..Len(x.queue) \/ j = Len(q)
      BY <3>3, <3>4
    <3> QED
      BY <1>2, <1>7, <3>1, <3>3, <3>4, <3>5
  <2>2. q = Append(x.queue, d)
    BY <1>8
  <2> HIDE DEF q
  <2> HIDE DEF v
  <2>3. /\ DOMAIN z = Fields /\ z.put = p /\ z.queue = q /\ Sent(z) = Sent(x)
      /\ z.conn = x.conn /\ z.open = x.open /\ z.writable = x.writable /\ z.destroyed = x.destroyed
      /\ z.closing = x.closing /\ z.ended = x.ended /\ z.notified = x.notified
      /\ z.stuck = x.stuck /\ z.raw = x.raw /\ z.rawWritable = x.rawWritable /\ z.sendq = x.sendq
      /\ z.draining = x.draining /\ z.finTimer = x.finTimer /\ z.finned = x.finned /\ z.out = x.out
      /\ z.got = x.got /\ z.cut = x.cut /\ z.rawReadable = x.rawReadable /\ z.part = x.part
      /\ z.ring = x.ring /\ z.chunk = x.chunk /\ z.task = x.task /\ z.last = x.last
    BY <1>8 DEF Fields, Sent
  <2>4. Becomes(e, z)
    BY <1>4, <1>11
  <2> HIDE DEF x, y, z
  <2>5. Sound(z)
    BY <1>9, <1>8, <2>3 DEF Good, Sound, Dead
  <2>6. Typed(z)
    BY <1>8, <1>9, <2>1, <2>3 DEF Good, Typed
  <2>7. Linked(z)
    BY <1>6, <1>8, <1>9, <2>3 DEF Good, Linked
  <2>8. Good(z)
    BY <2>5, <2>6, <2>7 DEF Good
  <2>9. Flow(z, y)
    <3>1. Puts(z, x, k) /\ z.queue = Append(x.queue, Numbered(Len(x.put), k))
      BY <2>2, <2>3 DEF Puts, p, d
    <3>2. Good(x) /\ Typed(y) /\ Flow(x, y)
      BY <1>5 DEF Pair, Good
    <3> QED
      BY <1>2, <1>6, <2>3, <2>8, <3>1, <3>2, SenderQueues
  <2>10. ReadsAs(z, x)
    BY <1>6, <2>3 DEF ReadsAs
  <2>11. Flow(y, z)
    BY <1>5, <2>10, ReaderSame DEF Pair
  <2>12. Steps(z, x, y)
    BY <1>6, <1>7, <2>3 DEF Steps
  <2>13. Working(z)
    BY <1>5, <1>11, <2>3 DEF Working, HasRecord, Input
  <2>14. Pair(z, y)
    BY <1>5, <2>8, <2>9, <2>11 DEF Pair
  <2> QED
    BY <1>5, <2>4, <2>12, <2>13, <2>14, BecomesWent DEF x, y
<1> QED
  BY <1>10, <1>11

----------------------------------------------------------------------------
\* What Working speaks of.
LEMMA WorksAs ==
  ASSUME NEW x, NEW z, Working(x), Knows(z, x), x.writable => z.writable \/ x.task # "pending",
         z.conn => x.conn /\ z.part = x.part /\ z.ring = x.ring
  PROVE  Working(z)
BY DEF Working, Knows, HasRecord, Input

LEMMA SameTlsWorks ==
  ASSUME NEW x, NEW z, Working(x), SameTls(z, x)
  PROVE  Working(z)
BY DEF Working, SameTls, HasRecord, Input

LEMMA DestroyWent ==
  ASSUME FlowsInv, NEW e \in Ends, Becomes(e, Destroy(side[e])), side[e].task # "pending",
         e = "server" => side[e].raw # "new"
  PROVE  Went(e)
<1> DEFINE x == side[e]
           y == side[Other(e)]
           z == Destroy(x)
<1>1. Pair(x, y) /\ Working(x)
  BY PairIs
<1> HIDE DEF x, y
<1>2. Pair(z, y) /\ Steps(z, x, y) /\ Knows(z, x) /\ ~z.conn /\ z.raw = "destroyed"
  BY <1>1, DestroyPair DEF Pair
<1> HIDE DEF z
<1>3. Working(z)
  BY <1>1, <1>2, WorksAs DEF x
<1> QED
  BY <1>2, <1>3, BecomesWent DEF x, y, z

LEMMA UserDestroysWent ==
  ASSUME FlowsInv, NEW e \in Ends, UserDestroys(e)
  PROVE  Went(e)
<1>1. Becomes(e, Destroy(side[e])) /\ side[e].task # "pending" /\ (e = "server" => side[e].open)
  BY DEF UserDestroys, Acts
<1>2. e = "server" => side[e].raw # "new"
  BY <1>1, PairIs DEF Sound
<1> QED
  BY <1>1, <1>2, DestroyWent

LEMMA RawResetWent ==
  ASSUME FlowsInv, NEW e \in Ends, RawReset(e)
  PROVE  Went(e)
<1>1. /\ Becomes(e, Destroy(side[e])) /\ side[e].task = "idle" /\ side[e].raw = "up"
  BY DEF RawReset, Quiet, Idle
<1> QED
  BY <1>1, DestroyWent

\* A step of the raw socket.
LEMMA SameTlsWent ==
  ASSUME FlowsInv, NEW e \in Ends, NEW z, Becomes(e, z), Good(z), SameTls(z, side[e]),
         Sent(z) = Sent(side[e]), side[e].sendq = << >> => z.sendq = << >>, side[e].raw # "new"
  PROVE  Went(e)
<1>1. Pair(z, side[Other(e)]) /\ Steps(z, side[e], side[Other(e)])
  BY PairIs, SameTlsPair
<1>2. Working(z)
  BY PairIs, SameTlsWorks
<1> QED
  BY <1>1, <1>2, BecomesWent

LEMMA RawWritableWent ==
  ASSUME FlowsInv, NEW e \in Ends, RawWritable(e)
  PROVE  Went(e)
<1>1. Becomes(e, Sends(side[e])) /\ side[e].sendq # << >>
  BY DEF RawWritable
<1>2. Good(side[e]) /\ side[e].raw = "up"
  BY <1>1, PairIs DEF Pair, Sound, Dead
<1> QED
  BY <1>1, <1>2, SendsGood, SameTlsWent

LEMMA RawShutdownWent ==
  ASSUME FlowsInv, NEW e \in Ends, RawShutdown(e)
  PROVE  Went(e)
<1> DEFINE x == side[e]
           y == side[Other(e)]
           r == [x EXCEPT !.finTimer = FALSE]
           f == RawFin(r)
           z == BothShut(f)
<1>1. Becomes(e, z) /\ x.finTimer /\ x.task = "idle"
  BY DEF RawShutdown, Quiet, Idle
<1>2. Pair(x, y) /\ Working(x) /\ DOMAIN x = Fields
  BY PairIs
<1>3. x.raw = "up" /\ ~x.rawWritable
  BY <1>1, <1>2 DEF Pair, Good, Linked, Sound, Dead
<1> HIDE DEF x, y, z
<1>4. /\ DOMAIN r = Fields /\ SameTls(r, x) /\ Sent(r) = Sent(x) /\ r.sendq = x.sendq
      /\ ~r.finTimer /\ r.rawReadable = x.rawReadable /\ r.rawWritable = x.rawWritable
      /\ r.draining = x.draining /\ r.finned = x.finned /\ r.out = x.out
  BY <1>2 DEF Fields, SameTls, Sent
<1> HIDE DEF r
<1>5. Sound(r)
  BY <1>2, <1>4 DEF Pair, Good, Sound, Dead, SameTls
<1>6. Typed(r)
  BY <1>2, <1>4 DEF Pair, Good, Typed, SameTls
<1>7. Linked(r)
  BY <1>2, <1>4 DEF Pair, Good, Linked, SameTls
<1>8. Good(r) /\ r.raw = "up" /\ ~r.rawWritable
  BY <1>3, <1>4, <1>5, <1>6, <1>7 DEF Good, SameTls
<1>9. Good(f) /\ SameTls(f, r) /\ Sent(f) = Sent(r) /\ f.sendq = r.sendq
  BY <1>8, RawFinGood
<1> HIDE DEF f
<1>10. /\ Good(f) /\ SameTls(f, x) /\ Sent(f) = Sent(x) /\ f.sendq = x.sendq
  BY <1>4, <1>9 DEF SameTls
<1>11. Pair(f, y) /\ Steps(f, x, y) /\ Knows(f, x)
  BY <1>2, <1>10, SameTlsPair
<1>12. Working(f)
  BY <1>2, <1>10, SameTlsWorks
<1>13. CASE z = f
  BY <1>1, <1>3, <1>11, <1>12, <1>13, BecomesWent DEF x, y
<1>14. CASE z = Destroy(RawDestroy(f))
  <2>1. ~f.destroyed
    BY <1>3, <1>10 DEF SameTls, Good, Sound
  <2>2. /\ Pair(z, y) /\ Steps(z, f, y) /\ Knows(z, f) /\ ~z.conn
    BY <1>11, <1>14, <2>1, DestroyPair DEF Pair
  <2>3. f.task # "pending"
    BY <1>1, <1>11 DEF Knows
  <2>4. Working(z)
    BY <1>12, <2>2, <2>3, WorksAs
  <2>5. Steps(z, x, y)
    BY <1>2, <1>11, <2>2, StepsOn, LengthsAre DEF Pair
  <2> QED
    BY <1>1, <1>3, <2>2, <2>4, <2>5, BecomesWent DEF x, y
<1> QED
  BY <1>13, <1>14 DEF z, BothShut

----------------------------------------------------------------------------
LEMMA EndWent ==
  ASSUME FlowsInv, FitsRing, NEW e \in Ends, End(e)
  PROVE  Went(e)
<1> DEFINE x == side[e]
           y == side[Other(e)]
           f == Flush(x, "close")
           g == [f EXCEPT !.closing = TRUE]
           w == [g EXCEPT !.writable = FALSE]
           z == RawEnd(w)
<1>1. Pair(x, y) /\ Working(x) /\ DOMAIN x = Fields
  BY PairIs
<1>2. x.raw = "up" /\ ~x.closing /\ x.open /\ x.task \in {"idle", "told"}
  BY DEF End, Acts, FitsRing
<1>3. ~x.stuck /\ x.conn /\ x.rawWritable /\ ~x.destroyed /\ x.queue = << >>
  BY <1>1, <1>2 DEF Pair, Good, Linked, Sound, Working
<1>4. Becomes(e, z)
  BY <1>2, <1>3 DEF End
<1> HIDE DEF x, y, z
<1>5. Good(f) /\ SameTls(f, x) /\ Sent(f) = Sent(x) \o Bytes(<<<<"close", 0>>>>)
  <2>1. <<"close", 0>> \in Records
    BY DEF Records
  <2> QED
    BY <1>1, <1>3, <2>1, FlushGood DEF Pair
<1> HIDE DEF f
<1>6. DOMAIN f = Fields
  BY <1>5 DEF Good, Sound
<1>7. /\ DOMAIN w = Fields /\ w.closing /\ ~w.writable /\ Sent(w) = Sent(f)
      /\ w.conn = f.conn /\ w.open = f.open /\ w.destroyed = f.destroyed
      /\ w.ended = f.ended /\ w.queue = f.queue /\ w.task = f.task
      /\ w.chunk = f.chunk /\ w.last = f.last /\ w.stage = f.stage /\ w.part = f.part
      /\ w.ring = f.ring /\ w.notified = f.notified /\ w.stuck = f.stuck /\ w.raw = f.raw
      /\ w.put = f.put /\ w.got = f.got /\ w.cut = f.cut
      /\ w.rawWritable = f.rawWritable /\ w.rawReadable = f.rawReadable /\ w.sendq = f.sendq
      /\ w.draining = f.draining /\ w.finTimer = f.finTimer /\ w.finned = f.finned /\ w.out = f.out
  BY <1>6 DEF Fields, Sent
<1> HIDE DEF w
<1>8. Sound(w)
  BY <1>5, <1>7 DEF Good, Sound, Dead
<1>9. Typed(w)
  BY <1>5, <1>7 DEF Good, Typed
<1>10. f.open /\ f.raw = "up" /\ ~f.destroyed
  BY <1>2, <1>3, <1>5 DEF SameTls
<1>11. Linked(w)
  BY <1>5, <1>7, <1>10 DEF Good, Linked
<1>12. Good(w)
  BY <1>8, <1>9, <1>11 DEF Good
<1>13. Flow(w, y)
  <2>1. /\ w.queue = x.queue /\ w.open /\ w.put = x.put /\ w.cut = x.cut /\ Sent(w) = Sent(x) \o Bytes(<<<<"close", 0>>>>)
    BY <1>2, <1>5, <1>7 DEF SameTls
  <2>2. Good(x) /\ Typed(y) /\ Flow(x, y)
    BY <1>1 DEF Pair, Good
  <2> QED
    BY <1>2, <1>3, <1>7, <1>12, <2>1, <2>2, SenderClose
<1>14. Flow(y, w)
  <2>1. ReadsAs(w, x)
    BY <1>3, <1>5, <1>7 DEF ReadsAs, SameTls
  <2> QED
    BY <1>1, <2>1, ReaderSame DEF Pair
<1>15. Pair(w, y)
  BY <1>1, <1>12, <1>13, <1>14 DEF Pair
<1>16. Steps(w, x, y)
  BY <1>5, <1>7 DEF Steps, SameTls
<1>17. Good(z) /\ SameTls(z, w) /\ Sent(z) = Sent(w) /\ z.sendq = w.sendq
  BY <1>7, <1>10, <1>12, RawEndGood DEF z
<1>18. Pair(z, y) /\ Steps(z, w, y)
  BY <1>15, <1>17, SameTlsPair
<1>19. Steps(z, x, y)
  BY <1>1, <1>15, <1>16, <1>18, StepsOn, LengthsAre DEF Pair
<1>20. Working(z)
  <2>1. Working(f)
    BY <1>1, <1>5, SameTlsWorks
  <2>2. Knows(w, f) /\ f.task # "pending"
    BY <1>2, <1>5, <1>7 DEF Knows, SameTls
  <2>3. Working(w)
    BY <1>7, <2>1, <2>2, WorksAs
  <2> QED
    BY <1>17, <2>3, SameTlsWorks
<1> QED
  BY <1>2, <1>4, <1>18, <1>19, <1>20, BecomesWent DEF x, y

----------------------------------------------------------------------------
(* The connection is made *)
LEMMA NewIs ==
  ASSUME NEW x, Good(x), Working(x), SideInv(x), x.raw \in {"new", "connecting"}
  PROVE  /\ ~x.open /\ ~x.writable /\ ~x.closing /\ ~x.destroyed /\ ~x.draining /\ ~x.finned /\ ~x.finTimer
         /\ x.sendq = << >> /\ x.task = "idle" /\ x.chunk = << >>
BY DEF Good, Sound, Dead, Linked, Working, SideInv

\* An end that differs in what the raw socket and the callback are about.
LEMMA RaisedWent ==
  ASSUME FlowsInv, NEW e \in Ends, NEW z, Becomes(e, z), Sound(z), Linked(z), Working(z),
         LET x == side[e]
         IN  /\ z.part = x.part /\ z.ring = x.ring /\ z.chunk = x.chunk /\ z.sendq = x.sendq
             /\ z.put = x.put /\ z.got = x.got /\ z.out = x.out /\ z.queue = x.queue /\ z.cut = x.cut
             /\ z.closing = x.closing /\ z.open = x.open /\ (x.destroyed => z.destroyed)
             /\ z.ended = x.ended /\ (z.destroyed \/ ~x.destroyed),
         z.raw # "new"
  PROVE  Went(e)
<1> DEFINE x == side[e]
           y == side[Other(e)]
<1>1. Pair(x, y)
  BY PairIs
<1>2. Typed(z)
  BY <1>1 DEF Pair, Good, Typed
<1>3. Good(z)
  BY <1>2 DEF Good
<1>4. FlowsAs(z, x) /\ ReadsAs(z, x)
  BY DEF FlowsAs, ReadsAs, Sent
<1>5. Steps(z, x, y)
  BY DEF Steps
<1> HIDE DEF x, y
<1>6. Flow(z, y) /\ Flow(y, z)
  BY <1>1, <1>3, <1>4, SenderSame, ReaderSame DEF Pair, Good
<1>7. Pair(z, y)
  BY <1>1, <1>3, <1>6 DEF Pair
<1> QED
  BY <1>5, <1>7, BecomesWent DEF x, y

LEMMA UpWent ==
  ASSUME FlowsInv, NEW e \in Ends, Becomes(e, Up(side[e])), side[e].raw \in {"new", "connecting"}
  PROVE  Went(e)
<1> DEFINE x == side[e]
           z == Up(x)
<1>1. Good(x) /\ Working(x) /\ SideInv(x) /\ DOMAIN x = Fields
  BY PairIs DEF Pair
<1> HIDE DEF x
<1>2. /\ z.part = x.part /\ z.ring = x.ring /\ z.chunk = x.chunk /\ z.sendq = x.sendq
      /\ z.put = x.put /\ z.got = x.got /\ z.out = x.out /\ z.queue = x.queue /\ z.cut = x.cut
      /\ z.closing = x.closing /\ z.open = x.open /\ z.destroyed = x.destroyed /\ z.ended = x.ended
      /\ DOMAIN z = Fields /\ z.raw = "up" /\ z.rawReadable /\ z.rawWritable /\ z.conn
      /\ z.task = "drive" /\ z.last = x.last /\ z.writable = x.writable /\ z.stuck = x.stuck
      /\ z.draining = x.draining /\ z.finTimer = x.finTimer /\ z.finned = x.finned
      /\ z.notified = x.notified
  BY <1>1 DEF Up, CreateConn, RawUp, Fields
<1>3. /\ ~x.open /\ ~x.writable /\ ~x.closing /\ ~x.destroyed /\ ~x.draining /\ ~x.finned /\ ~x.finTimer
      /\ x.sendq = << >> /\ x.task = "idle" /\ x.chunk = << >>
  BY <1>1, NewIs DEF x
<1> HIDE DEF z
<1>4. Sound(z)
  BY <1>2, <1>3 DEF Sound
<1>5. Linked(z)
  BY <1>1, <1>2, <1>3 DEF Good, Linked
<1>6. Working(z)
  BY <1>2, <1>3 DEF Working
<1> QED
  BY <1>2, <1>3, <1>4, <1>5, <1>6, RaisedWent DEF x, z

LEMMA ConnectWent ==
  ASSUME FlowsInv, Connect
  PROVE  Went("client")
<1> DEFINE x == side["client"]
           z == [x EXCEPT !.raw = "connecting"]
<1>1. /\ Becomes("client", Up(x)) \/ Becomes("client", z) \/ Becomes("client", Destroy(x))
      /\ x.raw = "new" /\ x.task = "idle"
  BY DEF Connect, Quiet, Idle, Ends
<1>2. "client" \in Ends
  BY DEF Ends
<1>3. CASE Becomes("client", Up(x))
  BY <1>1, <1>2, <1>3, UpWent
<1>4. CASE Becomes("client", Destroy(x))
  BY <1>1, <1>2, <1>4, DestroyWent
<1>5. CASE Becomes("client", z)
  <2>1. Good(x) /\ Working(x) /\ SideInv(x) /\ DOMAIN x = Fields
    BY <1>2, PairIs DEF Pair
  <2> HIDE DEF x
  <2>2. /\ z.part = x.part /\ z.ring = x.ring /\ z.chunk = x.chunk /\ z.sendq = x.sendq
        /\ z.put = x.put /\ z.got = x.got /\ z.out = x.out /\ z.queue = x.queue /\ z.cut = x.cut
        /\ z.closing = x.closing /\ z.open = x.open /\ z.destroyed = x.destroyed /\ z.ended = x.ended
        /\ DOMAIN z = Fields /\ z.raw = "connecting" /\ z.rawReadable = x.rawReadable
        /\ z.rawWritable = x.rawWritable /\ z.conn = x.conn
        /\ z.task = x.task /\ z.last = x.last /\ z.writable = x.writable /\ z.stuck = x.stuck
        /\ z.draining = x.draining /\ z.finTimer = x.finTimer /\ z.finned = x.finned
        /\ z.notified = x.notified
    BY <2>1 DEF Fields
  <2>3. /\ ~x.open /\ ~x.writable /\ ~x.closing /\ ~x.destroyed /\ ~x.draining /\ ~x.finned /\ ~x.finTimer
        /\ x.sendq = << >> /\ x.task = "idle" /\ x.chunk = << >>
    BY <1>1, <2>1, NewIs
  <2> HIDE DEF z
  <2>4. Sound(z)
    BY <1>1, <2>1, <2>2, <2>3 DEF Good, Sound, Dead
  <2>5. Linked(z)
    BY <2>1, <2>2, <2>3 DEF Good, Linked
  <2>6. Working(z)
    BY <2>1, <2>2 DEF Working, HasRecord, Input
  <2> QED
    BY <1>2, <1>5, <2>2, <2>3, <2>4, <2>5, <2>6, RaisedWent DEF x
<1> QED
  BY <1>1, <1>3, <1>4, <1>5

LEMMA ConnectOverWent ==
  ASSUME FlowsInv, ConnectOver
  PROVE  Went("client")
<1> DEFINE x == side["client"]
<1>1. /\ Becomes("client", Up(x)) \/ Becomes("client", Destroy(x))
      /\ x.raw = "connecting" /\ x.task = "idle" /\ "client" \in Ends
  BY DEF ConnectOver, Quiet, Idle, Ends
<1> QED
  BY <1>1, UpWent, DestroyWent

LEMMA AcceptWent ==
  ASSUME FlowsInv, Accept
  PROVE  Went("server")
<1>1. Becomes("server", Up(side["server"])) /\ backlog /\ "server" \in Ends
  BY DEF Accept, NativeAccept, Ends
<1>2. side["server"].raw = "new"
  BY <1>1 DEF FlowsInv, TlsInv, AliveInv
<1> QED
  BY <1>1, <1>2, UpWent

LEMMA CloseServerWent ==
  ASSUME FlowsInv, CloseServer
  PROVE  side' = side \/ Went("server")
<1> DEFINE x == side["server"]
           u == [x EXCEPT !.raw = "destroyed"]
           z == [u EXCEPT !.destroyed = TRUE]
<1>1. "server" \in Ends /\ x.raw = "new"
  BY DEF CloseServer, Ends
<1>2. side' = side \/ Becomes("server", z)
  <2>1. side' = side \/ side' = [side EXCEPT !["server"].raw = "destroyed", !["server"].destroyed = TRUE]
    BY DEF CloseServer
  <2>2. [side EXCEPT !["server"].raw = "destroyed", !["server"].destroyed = TRUE] = [side EXCEPT !["server"] = z]
    BY <1>1 DEF FlowsInv, TlsInv
  <2> QED
    BY <2>1, <2>2 DEF Becomes
<1>3. CASE Becomes("server", z)
  <2>1. Good(x) /\ Working(x) /\ SideInv(x) /\ DOMAIN x = Fields
    BY <1>1, PairIs DEF Pair
  <2>2. ~x.conn /\ x.queue = << >>
    BY <1>1 DEF FlowsInv, FlowInv
  <2> HIDE DEF x
  <2>3. /\ z.part = x.part /\ z.ring = x.ring /\ z.chunk = x.chunk /\ z.sendq = x.sendq
        /\ z.put = x.put /\ z.got = x.got /\ z.out = x.out /\ z.queue = x.queue /\ z.cut = x.cut
        /\ z.closing = x.closing /\ z.open = x.open /\ z.destroyed /\ z.ended = x.ended
        /\ DOMAIN z = Fields /\ z.raw = "destroyed" /\ z.rawReadable = x.rawReadable
        /\ z.rawWritable = x.rawWritable /\ z.conn = x.conn
        /\ z.task = x.task /\ z.last = x.last /\ z.writable = x.writable /\ z.stuck = x.stuck
        /\ z.draining = x.draining /\ z.finTimer = x.finTimer /\ z.finned = x.finned
        /\ z.notified = x.notified
    BY <2>1 DEF Fields
  <2>4. /\ ~x.open /\ ~x.writable /\ ~x.closing /\ ~x.destroyed /\ ~x.draining /\ ~x.finned /\ ~x.finTimer
        /\ x.sendq = << >> /\ x.task = "idle" /\ x.chunk = << >>
    BY <1>1, <2>1, NewIs
  <2> HIDE DEF z
  <2>5. Sound(z)
    BY <1>1, <2>1, <2>3, <2>4 DEF Good, Sound, Dead
  <2>6. Linked(z)
    BY <2>1, <2>2, <2>3, <2>4 DEF Good, Linked
  <2>7. Working(z)
    BY <2>1, <2>2, <2>3 DEF Working, HasRecord, Input
  <2> QED
    BY <1>1, <1>3, <2>3, <2>5, <2>6, <2>7, RaisedWent DEF x
<1> QED
  BY <1>2, <1>3

----------------------------------------------------------------------------
(* The raw socket is read *)
LEMMA WholeReads ==
  ASSUME NEW p \in Seq(Records), NEW r \in Seq(Records), NEW a \in Seq(Records),
         NEW o \in Seq(Records), NEW s \in Seq(Records)
  PROVE  Whole(p, r, a, o, s) = Whole(p, r, << >>, a \o o, s)
<1>1. << >> \in Seq(Records) /\ << >> \o a = a
  BY EmptySeq, WholeEmpty
<1>2. PICK c \in Seq(Records) : c = << >>
  BY <1>1
<1>3. Whole(p, r, c \o a, o, s) = Whole(p, r, c, a \o o, s)
  BY SMTT(40), WholeMoves
<1> QED
  BY <1>1, <1>2, <1>3

\* Both ends, when the kernel of y is read into x.
LEMMA FlowMoves ==
  ASSUME NEW x, NEW y, NEW z, NEW w, Flow(y, x), Way(w, z) = Way(y, x),
         w.put = y.put, w.cut = y.cut, w.closing = y.closing, w.destroyed = y.destroyed,
         w.open = y.open, w.queue = y.queue, w.sendq = y.sendq,
         z.got = x.got, z.ended = x.ended, x.destroyed => z.destroyed
  PROVE  Flow(w, z)
BY ZenonT(60) DEF Flow

\* The kernel of y without its first bytes.
LEMMA ReadGood ==
  ASSUME NEW y, Good(y), Working(y), NEW q \in Seq(Records \cup {Fin}), FinLast(q),
         (\E i \in DOMAIN q : q[i] = Fin) => (\E i \in DOMAIN y.out : y.out[i] = Fin)
  PROVE  LET w == [y EXCEPT !.out = q]
         IN  /\ Good(w) /\ Working(w) /\ w.out = q /\ Stays(w, y)
             /\ w.open = y.open /\ w.sendq = y.sendq
             /\ w.part = y.part /\ w.ring = y.ring /\ w.chunk = y.chunk
<1> DEFINE w == [y EXCEPT !.out = q]
<1>1. DOMAIN y = Fields
  BY DEF Good, Sound
<1>2. /\ DOMAIN w = Fields /\ w.out = q
      /\ w.part = y.part /\ w.ring = y.ring /\ w.chunk = y.chunk /\ w.sendq = y.sendq
      /\ w.put = y.put /\ w.got = y.got /\ w.queue = y.queue /\ w.cut = y.cut
      /\ w.closing = y.closing /\ w.open = y.open /\ w.destroyed = y.destroyed /\ w.ended = y.ended
      /\ w.raw = y.raw /\ w.rawReadable = y.rawReadable
      /\ w.rawWritable = y.rawWritable /\ w.conn = y.conn
      /\ w.task = y.task /\ w.last = y.last /\ w.writable = y.writable /\ w.stuck = y.stuck
      /\ w.draining = y.draining /\ w.finTimer = y.finTimer /\ w.finned = y.finned
      /\ w.notified = y.notified
  BY <1>1 DEF Fields
<1> HIDE DEF w
<1>3. Sound(w)
  BY <1>2 DEF Good, Sound, Dead
<1>4. Typed(w)
  BY <1>2 DEF Good, Typed
<1>5. Linked(w)
  <2>1. \A i \in DOMAIN w.out : w.out[i] = Fin => i = Len(w.out) /\ w.finned
    BY <1>2 DEF Good, Linked, FinLast
  <2> QED
    BY <1>2, <2>1 DEF Good, Linked
<1>6. Working(w)
  BY <1>2 DEF Working, HasRecord, Input
<1> QED
  BY <1>2, <1>3, <1>4, <1>5, <1>6 DEF Good, Stays, w

\* A step of e that also reads the other end's kernel.
LEMMA ReadsWent ==
  ASSUME FlowsInv, NEW e \in Ends, NEW n, NEW z, side' = [Reads(e, n) EXCEPT ![e] = z],
         LET y == side[Other(e)]
             w == [y EXCEPT !.out = SubSeq(y.out, n + 1, Len(y.out))]
         IN  Pair(z, w) /\ Working(z) /\ Working(w) /\ Steps(z, side[e], y) /\ Stays(w, y),
         side[e].raw # "new"
  PROVE  Went(e)
<1> DEFINE f == Other(e)
           y == side[f]
           w == [y EXCEPT !.out = SubSeq(y.out, n + 1, Len(y.out))]
<1>1. f \in Ends /\ f # e /\ DOMAIN side = Ends
  BY PairIs DEF FlowsInv, TlsInv
<1>2. side'[e] = z /\ side'[f] = w
  BY <1>1 DEF Reads
<1> HIDE DEF w
<1>3. Pair(z, w) /\ Working(z) /\ Working(w) /\ Steps(z, side[e], y) /\ Stays(w, y)
  BY DEF w
<1> HIDE DEF f
<1> QED
  BY <1>2, <1>3 DEF Went, Steps, f

LEMMA RawDataWent ==
  ASSUME FlowsInv, NEW e \in Ends, RawData(e)
  PROVE  Went(e)
<1> DEFINE x == side[e]
           y == side[Other(e)]
<1>1. PICK n \in 1..Smaller(ReadSize, Len(y.out)) :
        /\ y.out[n] # Fin
        /\ side' = [Reads(e, n) EXCEPT ![e].task = "feed", ![e].chunk = SubSeq(y.out, 1, n)]
  BY DEF RawData, Arrived
<1> DEFINE a == SubSeq(y.out, 1, n)
           q == SubSeq(y.out, n + 1, Len(y.out))
           w == [y EXCEPT !.out = q]
           t == [x EXCEPT !.task = "feed"]
           z == [t EXCEPT !.chunk = a]
<1>2. Pair(x, y) /\ Working(x) /\ Working(y) /\ DOMAIN x = Fields /\ DOMAIN side = Ends
  BY PairIs DEF FlowsInv, TlsInv
<1>3. x.rawReadable /\ x.task = "idle"
  BY DEF RawData, Quiet, Idle
<1>4. x.raw = "up" /\ x.conn /\ ~x.destroyed /\ x.chunk = << >>
  BY <1>2, <1>3 DEF Pair, Good, Sound, Dead, Working
<1>5. side' = [Reads(e, n) EXCEPT ![e] = z]
  <2>1. Reads(e, n)[e] = x /\ DOMAIN Reads(e, n) = Ends
    BY <1>2, PairIs DEF Reads
  <2> QED
    BY <1>1, <2>1
<1>6. y.out \in Seq(Records \cup {Fin}) /\ FinLast(y.out) /\ n \in 1..Len(y.out)
  <2>1. y.out \in Seq(Records \cup {Fin}) /\ FinLast(y.out)
    BY <1>2 DEF Pair, Good, Typed, Linked, FinLast
  <2>2. n \in 1..Len(y.out)
    <3>1. Len(y.out) \in Nat /\ ReadSize \in Nat
      BY <2>1, LenProperties, TlsAssumption
    <3> HIDE DEF y
    <3> QED
      BY <3>1 DEF Smaller
  <2> QED
    BY <2>1, <2>2
<1>7. /\ a \in Seq(Records) /\ q \in Seq(Records \cup {Fin}) /\ Bare(q) \in Seq(Records)
      /\ FinLast(q) /\ ((\E i \in DOMAIN q : q[i] = Fin) => (\E i \in DOMAIN y.out : y.out[i] = Fin))
      /\ a \o Bare(q) = Bare(y.out)
  BY <1>1, <1>6, BareRead
<1> HIDE DEF a
<1>8. /\ Good(w) /\ Working(w) /\ w.out = q /\ Stays(w, y) /\ w.open = y.open /\ w.sendq = y.sendq
      /\ w.part = y.part /\ w.ring = y.ring /\ w.chunk = y.chunk
  <2> HIDE DEF q, x, y
  <2> QED
    BY SMTT(40), <1>2, <1>7, ReadGood DEF Pair
<1>9. /\ z.chunk = a /\ z.task = "feed"
      /\ Plain(z, x) /\ z.part = x.part /\ z.ring = x.ring /\ z.got = x.got
      /\ z.ended = x.ended /\ z.notified = x.notified /\ z.last = x.last
  <2> HIDE DEF x, y
  <2> QED
    BY <1>2 DEF Plain, Fields
<1>10. w = [y EXCEPT !.out = SubSeq(y.out, n + 1, Len(y.out))]
  OBVIOUS
<1> HIDE DEF x, y, q, w, z
<1>11. /\ z.part \in Seq(Records) /\ z.ring \in Seq(Records) /\ z.chunk \in Seq(Records) /\ z.got \in Seq(Records)
       /\ Len(z.part) <= 1 /\ Len(z.ring) <= Ring /\ (z.notified => z.ended)
  BY <1>2, <1>7, <1>9 DEF Pair, Good, Typed, Linked
<1>12. Good(z) /\ Flow(z, y) /\ Steps(z, x, y)
  BY <1>2, <1>9, <1>11, PlainGood DEF Pair
<1>13. Flow(z, w)
  <2>1. ReadsAs(w, y)
    BY <1>8 DEF Stays, ReadsAs
  <2> QED
    BY <1>12, <2>1, ReaderSame
<1>14. Way(w, z) = Way(y, x)
  <2>1. Good(w) /\ Good(y) /\ Typed(z) /\ Typed(x)
    BY <1>2, <1>8, <1>12 DEF Pair, Good
  <2>2. /\ Way(w, z) = Whole(z.part, z.ring, z.chunk, Bare(w.out), w.sendq)
        /\ Way(y, x) = Whole(x.part, x.ring, x.chunk, Bare(y.out), y.sendq)
    BY <2>1, WayIs
  <2>3. /\ x.part \in Seq(Records) /\ x.ring \in Seq(Records) /\ y.sendq \in Seq(Records)
    BY <2>1 DEF Typed, Good
  <2>4. Whole(x.part, x.ring, a, Bare(q), y.sendq) = Whole(x.part, x.ring, << >>, a \o Bare(q), y.sendq)
    <3>1. a \in Seq(Records) /\ Bare(q) \in Seq(Records)
      BY <1>7
    <3> QED
      BY <2>3, <3>1, WholeReads
  <2> QED
    BY <1>4, <1>7, <1>8, <1>9, <2>2, <2>4
<1>15. Flow(w, z)
  BY <1>2, <1>8, <1>9, <1>14, FlowMoves DEF Pair, Stays, Plain
<1>16. Pair(z, w)
  BY <1>8, <1>12, <1>13, <1>15 DEF Pair
<1>17. Working(z)
  BY <1>2, <1>3, <1>9 DEF Working, Plain
<1> QED
  BY <1>4, <1>5, <1>8, <1>10, <1>12, <1>16, <1>17, ReadsWent DEF x, y

----------------------------------------------------------------------------
\* What close_notify and the FIN find: a closed end has written its queue.
LEMMA ClosedIs ==
  ASSUME NEW y, Good(y), Working(y)
  PROVE  y.closing => y.queue = << >>
BY DEF Good, Linked, Working

LEMMA EmitEndIs ==
  ASSUME NEW r, DOMAIN r = Fields
  PROVE  LET z == EmitEnd(r)
         IN  /\ z.ended /\ Plain(z, r) /\ z.part = r.part /\ z.ring = r.ring /\ z.chunk = r.chunk
             /\ z.got = r.got /\ z.notified = r.notified /\ z.task = r.task /\ z.last = r.last
             /\ DOMAIN z = Fields
BY DEF EmitEnd, Plain, Fields

LEMMA RawEofWent ==
  ASSUME FlowsInv, NEW e \in Ends, RawEof(e)
  PROVE  Went(e)
<1> DEFINE x == side[e]
           y == side[Other(e)]
           q == SubSeq(y.out, 1 + 1, Len(y.out))
           w == [y EXCEPT !.out = q]
           r == [x EXCEPT !.rawReadable = FALSE]
           v == EmitEnd(r)
           u == AfterEof(r)
           z == IF ~u.rawWritable THEN Destroy(RawDestroy(u)) ELSE u
<1>1. /\ side' = [Reads(e, 1) EXCEPT ![e] = z] /\ y.out # << >> /\ Head(y.out) = Fin
      /\ x.rawReadable /\ x.task = "idle"
  BY DEF RawEof, Quiet, Idle, Arrived
<1>2. Pair(x, y) /\ Working(x) /\ Working(y) /\ DOMAIN x = Fields
  BY PairIs
<1>3. w = [y EXCEPT !.out = SubSeq(y.out, 1 + 1, Len(y.out))]
  OBVIOUS
<1> HIDE DEF x, y, z
<1>4. x.raw = "up" /\ x.conn /\ ~x.destroyed /\ x.chunk = << >> /\ (~x.notified => ~HasRecord(x))
      /\ (x.notified => x.ended)
  BY <1>1, <1>2 DEF Pair, Good, Sound, Dead, Linked, Working
<1>5. q = << >> /\ Bare(y.out) = << >> /\ y.finned
  <2>1. y.out \in Seq(Records \cup {Fin}) /\ FinLast(y.out)
        /\ (\A i \in DOMAIN y.out : y.out[i] = Fin => y.finned)
    BY <1>2 DEF Pair, Good, Typed, Linked, FinLast
  <2>2. Len(y.out) \in Nat \ {0} /\ DOMAIN y.out = 1..Len(y.out) /\ y.out[1] = Fin
    BY <1>1, <2>1
  <2>3. Len(y.out) = 1 /\ y.finned
    <3>1. 1 \in DOMAIN y.out
      BY <2>2
    <3> QED
      BY <2>1, <2>2, <3>1 DEF FinLast
  <2>4. q = << >> /\ SubSeq(y.out, 1, 0) = << >>
    BY <2>1, <2>3
  <2> QED
    BY <1>1, <2>2, <2>3, <2>4 DEF Bare
<1>6. /\ Good(w) /\ Working(w) /\ w.out = << >> /\ Stays(w, y) /\ w.open = y.open /\ w.sendq = y.sendq
      /\ w.part = y.part /\ w.ring = y.ring /\ w.chunk = y.chunk
  <2>1. << >> \in Seq(Records \cup {Fin}) /\ FinLast(<< >>) /\ DOMAIN << >> = {}
    BY EmptySeq DEF FinLast
  <2> HIDE DEF q
  <2>2. q \in Seq(Records \cup {Fin}) /\ FinLast(q) /\ DOMAIN q = {}
    BY <1>5, <2>1
  <2> QED
    BY <1>2, <1>5, <2>2, ReadGood DEF Pair
<1> HIDE DEF w
<1>7. /\ DOMAIN r = Fields /\ Plain(r, x) /\ r.part = x.part /\ r.ring = x.ring /\ r.chunk = x.chunk
      /\ r.got = x.got /\ r.notified = x.notified /\ r.task = x.task /\ r.last = x.last
      /\ r.ended = x.ended
  BY <1>2 DEF Plain, Fields
<1> HIDE DEF r
<1>8. /\ v.ended /\ Plain(v, r) /\ v.part = r.part /\ v.ring = r.ring /\ v.chunk = r.chunk
      /\ v.got = r.got /\ v.notified = r.notified /\ v.task = r.task /\ v.last = r.last
      /\ DOMAIN v = Fields
  BY <1>7, EmitEndIs
<1> HIDE DEF v
<1>9. /\ v.ended /\ Plain(v, x) /\ v.part = x.part /\ v.ring = x.ring /\ v.chunk = x.chunk
      /\ v.got = x.got /\ v.notified = x.notified /\ v.task = x.task /\ v.last = x.last
  BY <1>7, <1>8 DEF Plain
<1>10. Good(v) /\ Flow(v, y) /\ Steps(v, x, y)
  <2>1. /\ v.part \in Seq(Records) /\ v.ring \in Seq(Records) /\ v.chunk \in Seq(Records) /\ v.got \in Seq(Records)
        /\ Len(v.part) <= 1 /\ Len(v.ring) <= Ring
    BY <1>2, <1>9 DEF Pair, Good, Typed
  <2> QED
    BY <1>2, <1>9, <2>1, PlainGood DEF Pair
<1>11. Flow(v, w)
  <2>1. ReadsAs(w, y)
    BY <1>6 DEF Stays, ReadsAs
  <2> QED
    BY <1>10, <2>1, ReaderSame
<1>12. Flow(y, v)
  <2>1. CASE x.notified
    <3>1. ReadsAs(v, x)
      BY <1>4, <1>9, <2>1 DEF ReadsAs, Plain
    <3> QED
      BY <1>2, <3>1, ReaderSame DEF Pair
  <2>2. CASE ~x.notified
    <3>1. y.closing => y.queue = << >>
      BY <1>2, ClosedIs DEF Pair
    <3>2. Good(y) /\ Typed(x) /\ Flow(y, x)
      BY <1>2 DEF Pair, Good
    <3> QED
      BY <1>4, <1>5, <1>9, <2>2, <3>1, <3>2, ReaderEof
  <2> QED
    BY <2>1, <2>2
<1>13. Flow(w, v)
  <2>1. Bare(w.out) = Bare(y.out)
    BY <1>5, <1>6 DEF Bare
  <2>2. FlowsAs(w, y)
    BY <1>6, <2>1 DEF FlowsAs, Stays, Sent
  <2> QED
    BY <1>2, <1>6, <1>10, <1>12, <2>2, SenderSame DEF Pair, Good
<1>14. Pair(v, w)
  BY <1>6, <1>10, <1>11, <1>13 DEF Pair
<1>15. Pair(u, w) /\ Steps(u, v, w) /\ Knows(u, v) /\ (u = v \/ (u.destroyed /\ ~u.conn))
  BY <1>7, <1>14, AfterEofPair DEF v
<1> HIDE DEF u
<1>16. Pair(z, w) /\ Steps(z, u, w) /\ Knows(z, u) /\ (z = u \/ ~z.conn)
  <2>1. Steps(u, u, w) /\ Knows(u, u)
    BY DEF Steps, Knows
  <2>2. CASE u.rawWritable
    BY <1>15, <2>1, <2>2 DEF z
  <2>3. CASE ~u.rawWritable /\ u.destroyed
    <3>1. u.raw = "destroyed"
      BY <1>15, <2>3 DEF Pair, Good, Sound
    <3>2. z = u
      BY <2>3, <3>1 DEF z, RawDestroy, Destroy
    <3> QED
      BY <1>15, <2>1, <3>2
  <2>4. CASE ~u.rawWritable /\ ~u.destroyed
    <3>1. z = Destroy(RawDestroy(u))
      BY <2>4 DEF z
    <3> QED
      BY <1>15, <2>4, <3>1, DestroyPair DEF Pair
  <2> QED
    BY <2>2, <2>3, <2>4
<1>17. Steps(z, x, y)
  <2>1. Steps(u, v, y) /\ Steps(z, u, y)
    BY <1>6, <1>15, <1>16 DEF Steps, Stays
  <2>2. Steps(u, x, y)
    BY <1>2, <1>10, <1>14, <1>15, <2>1, StepsOn, LengthsAre DEF Pair
  <2> QED
    BY <1>2, <1>15, <1>16, <2>1, <2>2, StepsOn, LengthsAre DEF Pair
<1>18. Working(z)
  <2>1. Working(v)
    BY <1>2, <1>9 DEF Working, Plain, HasRecord, Input
  <2>2. Working(u)
    BY <1>1, <1>9, <1>15, <2>1, WorksAs
  <2>3. u.task # "pending"
    BY <1>1, <1>9, <1>15 DEF Knows
  <2> QED
    BY <1>16, <2>2, <2>3, WorksAs
<1> QED
  BY <1>1, <1>3, <1>4, <1>6, <1>16, <1>17, <1>18, ReadsWent DEF x, y

----------------------------------------------------------------------------
(* Callbacks *)
\* A step that only the reader takes.
LEMMA PlainWent ==
  ASSUME FlowsInv, NEW e \in Ends, NEW z, Becomes(e, z), Plain(z, side[e]), Flow(side[Other(e)], z),
         z.part \in Seq(Records), z.ring \in Seq(Records), z.chunk \in Seq(Records), z.got \in Seq(Records),
         Len(z.part) <= 1, Len(z.ring) <= Ring, z.got = side[e].got \/ Len(z.got) > Len(side[e].got),
         side[e].ended => z.ended, z.notified => z.ended, Working(z), side[e].raw # "new"
  PROVE  Went(e)
<1> DEFINE x == side[e]
           y == side[Other(e)]
<1>1. Pair(x, y)
  BY PairIs
<1>2. Good(z) /\ Flow(z, y) /\ Steps(z, x, y)
  BY <1>1, PlainGood DEF Pair
<1>3. Pair(z, y)
  BY <1>1, <1>2 DEF Pair
<1> QED
  BY <1>2, <1>3, BecomesWent

LEMMA SmallerIs ==
  ASSUME NEW a \in Nat, NEW b \in Nat, NEW c \in Nat, b <= c
  PROVE  Smaller(a, c - b) \in 0..a /\ Smaller(a, c - b) <= c - b
BY DEF Smaller

LEMMA WholeFeeds ==
  ASSUME NEW p \in Seq(Records), NEW r \in Seq(Records), NEW a \in Seq(Records),
         NEW c \in Seq(Records), NEW o \in Seq(Records), NEW s \in Seq(Records)
  PROVE  Whole(p, r \o a, c, o, s) = Whole(p, r, a \o c, o, s)
BY SMTT(40), WholeMoves

LEMMA FeedWent ==
  ASSUME FlowsInv, NEW e \in Ends, Feed(e)
  PROVE  Went(e)
<1> DEFINE x == side[e]
           y == side[Other(e)]
           n == Smaller(Len(x.chunk), Ring - Len(x.ring))
           a == SubSeq(x.chunk, 1, n)
           c == SubSeq(x.chunk, n + 1, Len(x.chunk))
           g == x.ring \o a
           u == [x EXCEPT !.ring = g]
           b == [u EXCEPT !.chunk = c]
           t == IF x.open THEN "pump" ELSE "drive"
           l == x.chunk = << >>
           d == [x EXCEPT !.task = t]
           w == [d EXCEPT !.last = l]
<1>1. (Becomes(e, b) \/ Becomes(e, w)) /\ x.task = "feed"
  BY DEF Feed, Runs, Fed
<1>2. Pair(x, y) /\ Working(x) /\ DOMAIN x = Fields /\ x.raw = "up"
  BY <1>1, PairIs, CallbackIs DEF FlowsInv
<1>3. /\ x.part \in Seq(Records) /\ x.ring \in Seq(Records) /\ x.chunk \in Seq(Records) /\ x.got \in Seq(Records)
      /\ Len(x.part) <= 1 /\ Len(x.ring) <= Ring /\ (x.notified => x.ended)
  BY <1>2 DEF Pair, Good, Typed, Linked
<1>4. n \in 0..Len(x.chunk) /\ n <= Ring - Len(x.ring)
  <2>1. Len(x.chunk) \in Nat /\ Len(x.ring) \in Nat /\ Ring \in Nat /\ Len(x.ring) <= Ring
    BY <1>3, LenProperties, TlsAssumption
  <2> HIDE DEF x
  <2> QED
    BY <2>1, SmallerIs
<1> HIDE DEF x, y, n
<1>5. a \in Seq(Records) /\ c \in Seq(Records) /\ a \o c = x.chunk /\ Len(a) = n
  <2>1. a \in Seq(Records) /\ c \in Seq(Records) /\ a \o c = x.chunk
    BY <1>3, <1>4, SplitIs
  <2>2. n \in Nat /\ n <= Len(x.chunk)
    <3>1. Len(x.chunk) \in Nat
      BY <1>3, LenProperties
    <3> QED
      BY <1>4, <3>1
  <2>3. Len(a) = n
    BY <1>3, <2>2, RestIs
  <2> QED
    BY <2>1, <2>3
<1> HIDE DEF a, c
<1>6. g \in Seq(Records) /\ Len(g) <= Ring
  <2>1. g \in Seq(Records) /\ Len(g) = Len(x.ring) + Len(a)
    <3>1. x.ring \in Seq(Records) /\ a \in Seq(Records)
      BY <1>3, <1>5
    <3> QED
      BY <3>1, JoinIs
  <2>2. Len(x.ring) \in Nat /\ Ring \in Nat
    BY <1>3, LenProperties, TlsAssumption
  <2> HIDE DEF g
  <2> QED
    BY <1>4, <1>5, <2>1, <2>2
<1>7. CASE Becomes(e, b)
  <2>1. g = x.ring \o a
    OBVIOUS
  <2> HIDE DEF g
  <2>2. /\ DOMAIN b = Fields /\ b.ring = g /\ b.chunk = c
        /\ Plain(b, x) /\ b.part = x.part /\ b.got = x.got
        /\ b.ended = x.ended /\ b.notified = x.notified /\ b.last = x.last /\ b.task = x.task
    BY <1>2 DEF Plain, Fields
  <2> HIDE DEF b, u, t, l, d, w
  <2>3. Way(y, b) = Way(y, x)
    <3>1. Typed(b)
      BY <1>2, <1>5, <1>6, <2>2 DEF Pair, Good, Typed, Plain
    <3>2. Good(y) /\ Typed(x)
      BY <1>2 DEF Pair, Good
    <3>3. /\ Way(y, b) = Whole(x.part, g, c, Bare(y.out), y.sendq)
          /\ Way(y, x) = Whole(x.part, x.ring, x.chunk, Bare(y.out), y.sendq)
      BY <2>2, <3>1, <3>2, WayIs
    <3>4. Bare(y.out) \in Seq(Records) /\ y.sendq \in Seq(Records)
      BY <3>2, SentIs
    <3>5. Whole(x.part, x.ring \o a, c, Bare(y.out), y.sendq) = Whole(x.part, x.ring, a \o c, Bare(y.out), y.sendq)
      <4> DEFINE p == x.part
                 r == x.ring
                 o == Bare(y.out)
                 s == y.sendq
      <4>1. p \in Seq(Records) /\ r \in Seq(Records) /\ a \in Seq(Records) /\ c \in Seq(Records)
            /\ o \in Seq(Records) /\ s \in Seq(Records)
        BY <1>3, <1>5, <3>4
      <4> HIDE DEF p, r, o, s
      <4>2. Whole(p, r \o a, c, o, s) = Whole(p, r, a \o c, o, s)
        BY <4>1, WholeFeeds
      <4> QED
        BY <4>2 DEF p, r, o, s
    <3> QED
      BY <1>5, <2>1, <3>3, <3>5
  <2>4. Flow(y, b)
    BY <1>2, <2>2, <2>3, ReaderMoves DEF Pair, Plain
  <2>5. Working(b)
    BY <1>1, <1>2, <2>2 DEF Working, Plain
  <2> QED
    BY <1>2, <1>3, <1>5, <1>6, <1>7, <2>2, <2>4, <2>5, PlainWent DEF x, y
<1>8. CASE Becomes(e, w)
  <2>1. (t = "pump" \/ t = "drive") /\ (x.open => t = "pump") /\ (l => x.chunk = << >>)
    OBVIOUS
  <2> HIDE DEF t, l
  <2>2. /\ DOMAIN w = Fields /\ w.ring = x.ring /\ w.chunk = x.chunk
        /\ Plain(w, x) /\ w.part = x.part /\ w.got = x.got
        /\ w.ended = x.ended /\ w.notified = x.notified /\ w.last = l /\ w.task = t
    BY <1>2 DEF Plain, Fields
  <2> HIDE DEF w
  <2>3. ReadsAs(w, x)
    BY <2>2 DEF ReadsAs, Plain
  <2>4. Flow(y, w)
    BY <1>2, <2>3, ReaderSame DEF Pair
  <2>5. Working(w)
    BY <1>1, <1>2, <2>1, <2>2 DEF Working, Plain
  <2> QED
    BY <1>2, <1>3, <1>8, <2>2, <2>4, <2>5, PlainWent DEF x, y
<1> QED
  BY <1>1, <1>7, <1>8

LEMMA PendingWent ==
  ASSUME FlowsInv, NEW e \in Ends, Pending(e)
  PROVE  Went(e)
<1> DEFINE x == side[e]
           y == side[Other(e)]
           d == Head(x.queue)
           r == Tail(x.queue)
           q == [x EXCEPT !.queue = r]
           z == SslWriteAll(q, d)
           t == [x EXCEPT !.task = "told"]
<1>1. /\ x.task = "pending"
      /\ (x.queue = << >> /\ Becomes(e, t)) \/ (x.queue # << >> /\ Becomes(e, z))
  BY DEF Pending, Runs
<1>2. Pair(x, y) /\ Working(x) /\ DOMAIN x = Fields
  BY PairIs
<1>3. x.writable /\ x.open /\ x.raw = "up" /\ ~x.closing /\ x.rawWritable /\ ~x.destroyed
  BY <1>1, <1>2 DEF Pair, Good, Linked, Working, Sound
<1>4. /\ x.part \in Seq(Records) /\ x.ring \in Seq(Records) /\ x.chunk \in Seq(Records) /\ x.got \in Seq(Records)
      /\ Len(x.part) <= 1 /\ Len(x.ring) <= Ring /\ (x.notified => x.ended)
  BY <1>2 DEF Pair, Good, Typed, Linked
<1> HIDE DEF x, y
<1>5. CASE x.queue = << >> /\ Becomes(e, t)
  <2>1. /\ t.ring = x.ring /\ t.chunk = x.chunk
        /\ Plain(t, x) /\ t.part = x.part /\ t.got = x.got
        /\ t.ended = x.ended /\ t.notified = x.notified /\ t.last = x.last /\ t.task = "told"
    BY <1>2 DEF Plain, Fields
  <2> HIDE DEF t
  <2>2. ReadsAs(t, x)
    BY <2>1 DEF ReadsAs, Plain
  <2>3. Flow(y, t)
    BY <1>2, <2>2, ReaderSame DEF Pair
  <2>4. Working(t)
    BY <1>1, <1>2, <1>5, <2>1 DEF Working, Plain
  <2> QED
    BY <1>3, <1>4, <1>5, <2>1, <2>3, <2>4, PlainWent DEF x, y
<1>6. CASE x.queue # << >> /\ Becomes(e, z)
  <2>1. x.queue \in Seq(Seq(Records)) /\ \A j \in DOMAIN x.queue : 2 * Len(x.queue[j]) <= Ring
    BY <1>2 DEF Pair, Good, Typed
  <2>2. /\ d \in Seq(Records) /\ 2 * Len(d) <= Ring /\ r \in Seq(Seq(Records))
        /\ \A j \in DOMAIN r : 2 * Len(r[j]) <= Ring
    <3>1. Len(x.queue) \in Nat /\ Len(x.queue) > 0 /\ DOMAIN x.queue = 1..Len(x.queue) /\ d = x.queue[1]
      BY <1>6, <2>1, LenProperties, EmptySeq
    <3>2. r \in Seq(Seq(Records)) /\ Len(r) = Len(x.queue) - 1 /\ \A j \in 1..Len(r) : r[j] = x.queue[j + 1]
      BY <1>6, <2>1, HeadTailProperties
    <3>3. DOMAIN r = 1..Len(r)
      BY <3>2
    <3> HIDE DEF d, r
    <3>4. d \in Seq(Records) /\ 2 * Len(d) <= Ring
      BY <2>1, <3>1
    <3>5. ASSUME NEW j \in DOMAIN r PROVE 2 * Len(r[j]) <= Ring
      <4>1. r[j] = x.queue[j + 1] /\ j + 1 \in DOMAIN x.queue
        BY SMTT(40), <3>1, <3>2, <3>3
      <4> QED
        BY <2>1, <4>1
    <3> QED
      BY <3>2, <3>4, <3>5
  <2> HIDE DEF d, r
  <2>3. /\ DOMAIN q = Fields /\ q.queue = r /\ Sent(q) = Sent(x)
        /\ q.put = x.put
        /\ q.conn = x.conn /\ q.open = x.open /\ q.writable = x.writable /\ q.destroyed = x.destroyed
        /\ q.closing = x.closing /\ q.ended = x.ended /\ q.notified = x.notified
        /\ q.stuck = x.stuck /\ q.raw = x.raw /\ q.rawWritable = x.rawWritable /\ q.sendq = x.sendq
        /\ q.draining = x.draining /\ q.finTimer = x.finTimer /\ q.finned = x.finned /\ q.out = x.out
        /\ q.got = x.got /\ q.cut = x.cut /\ q.rawReadable = x.rawReadable /\ q.part = x.part
        /\ q.ring = x.ring /\ q.chunk = x.chunk /\ q.task = x.task /\ q.last = x.last
    BY <1>2 DEF Fields, Sent
  <2> HIDE DEF q
  <2>4. Sound(q)
    BY <1>2, <2>3 DEF Pair, Good, Sound, Dead
  <2>5. Typed(q)
    BY <1>2, <2>2, <2>3 DEF Pair, Good, Typed
  <2>6. Linked(q)
    BY <1>2, <1>3, <2>3 DEF Pair, Good, Linked
  <2>7. Good(z) /\ SameTls(z, q) /\ Sent(z) = Sent(q) \o Bytes(d)
    BY <1>3, <2>2, <2>3, <2>4, <2>5, <2>6, SslWriteAllGood DEF Good
  <2> HIDE DEF z
  <2>8. Flow(z, y)
    <3>1. SendsAs(z, x) /\ z.queue = Tail(x.queue) /\ Sent(z) = Sent(x) \o Bytes(Head(x.queue))
      BY <2>3, <2>7 DEF SendsAs, SameTls, d, r
    <3>2. Good(x) /\ Typed(y) /\ Flow(x, y)
      BY <1>2 DEF Pair, Good
    <3> QED
      BY <1>3, <1>6, <2>7, <3>1, <3>2, SenderPending
  <2>9. ReadsAs(z, x)
    BY <1>3, <2>3, <2>7 DEF SameTls, ReadsAs
  <2>10. Flow(y, z)
    BY <1>2, <2>9, ReaderSame DEF Pair
  <2>11. Steps(z, x, y)
    BY <2>3, <2>7 DEF Steps, SameTls
  <2>12. Working(z)
    <3>1. /\ z.task = "pending" /\ z.writable /\ z.chunk = x.chunk /\ z.last = x.last
      BY <1>1, <1>3, <2>3, <2>7 DEF SameTls
    <3> QED
      BY <1>1, <1>2, <3>1 DEF Working
  <2>13. Pair(z, y)
    BY <1>2, <2>7, <2>8, <2>10 DEF Pair
  <2> QED
    BY <1>3, <1>6, <2>11, <2>12, <2>13, BecomesWent DEF x, y, z, d
<1> QED
  BY <1>1, <1>5, <1>6

LEMMA ToldWent ==
  ASSUME FlowsInv, NEW e \in Ends, Told(e)
  PROVE  Went(e)
<1> DEFINE x == side[e]
           y == side[Other(e)]
           t == [x EXCEPT !.task = "pump"]
<1>1. /\ x.task = "told"
      /\ Becomes(e, t) \/ (~Live(x) /\ Becomes(e, Return(x)))
  BY DEF Told, Runs
<1>2. Pair(x, y) /\ Working(x) /\ DOMAIN x = Fields /\ SideInv(x)
  BY PairIs
<1>3. x.raw # "new"
  BY <1>1, <1>2 DEF SideInv
<1>4. /\ x.part \in Seq(Records) /\ x.ring \in Seq(Records) /\ x.chunk \in Seq(Records) /\ x.got \in Seq(Records)
      /\ Len(x.part) <= 1 /\ Len(x.ring) <= Ring /\ (x.notified => x.ended)
  BY <1>2 DEF Pair, Good, Typed, Linked
<1> HIDE DEF x, y
<1>5. CASE Becomes(e, t)
  <2>1. /\ t.ring = x.ring /\ t.chunk = x.chunk
        /\ Plain(t, x) /\ t.part = x.part /\ t.got = x.got
        /\ t.ended = x.ended /\ t.notified = x.notified /\ t.last = x.last /\ t.task = "pump"
    BY <1>2 DEF Plain, Fields
  <2> HIDE DEF t
  <2>2. ReadsAs(t, x)
    BY <2>1 DEF ReadsAs, Plain
  <2>3. Flow(y, t)
    BY <1>2, <2>2, ReaderSame DEF Pair
  <2>4. Working(t)
    BY <1>1, <1>2, <2>1 DEF Working, Plain
  <2> QED
    BY <1>3, <1>4, <1>5, <2>1, <2>3, <2>4, PlainWent DEF x, y
<1>6. CASE ~Live(x) /\ Becomes(e, Return(x))
  <2>1. ~x.conn
    BY <1>2, <1>6 DEF Live, Pair, Good, Linked
  <2>2. /\ x.last \/ x.task = "idle" => x.chunk = << >>
        /\ x.open => x.queue = << >>
    BY <1>1, <1>2 DEF Working
  <2>3. Pair(Return(x), y) /\ Working(Return(x)) /\ Steps(Return(x), x, y)
    BY <1>1, <1>2, <2>1, <2>2, ReturnPair
  <2> QED
    BY <1>3, <1>6, <2>3, BecomesWent DEF x, y
<1> QED
  BY <1>1, <1>5, <1>6

----------------------------------------------------------------------------
\* What a callback that waits leaves alone.
Holds(z, x) ==
  z.task = x.task /\ z.chunk = x.chunk /\ z.last = x.last /\ z.queue = x.queue /\ z.open = x.open

LEMMA ReturnWent ==
  ASSUME FlowsInv, NEW e \in Ends, NEW z, Becomes(e, Return(z)), Pair(z, side[Other(e)]),
         Steps(z, side[e], side[Other(e)]), Holds(z, side[e]), side[e].task \in {"drive", "pump"},
         z.conn /\ ~z.notified => ~HasRecord(z), side[e].raw # "new"
  PROVE  Went(e)
<1> DEFINE x == side[e]
           y == side[Other(e)]
           w == Return(z)
<1>1. Pair(x, y) /\ Working(x)
  BY PairIs
<1>2. /\ z.last \/ z.task = "idle" => z.chunk = << >>
      /\ z.task # "feed" /\ (z.open => z.queue = << >>)
  BY <1>1 DEF Holds, Working
<1> HIDE DEF x, y, w
<1>3. Pair(w, y) /\ Working(w) /\ Steps(w, z, y)
  BY <1>2, ReturnPair DEF w, x, y
<1>4. Steps(w, x, y)
  BY <1>1, <1>3, StepsOn, LengthsAre DEF Pair, x, y
<1> QED
  BY <1>3, <1>4, BecomesWent DEF w, x, y

LEMMA RestOfTwo ==
  ASSUME NEW w \in Seq(Records), Len(w) >= 2
  PROVE  SubSeq(w, 3, Len(w)) \in Seq(Records) /\ Len(SubSeq(w, 3, Len(w))) = Len(w) - 2
<1>1. PICK n \in Nat : n = 2
  OBVIOUS
<1>2. Len(w) \in Nat /\ n <= Len(w) /\ n + 1 = 3
  BY <1>1, LenProperties
<1>3. SubSeq(w, n + 1, Len(w)) \in Seq(Records) /\ Len(SubSeq(w, n + 1, Len(w))) = Len(w) - n
  BY <1>2, RestIs
<1> QED
  BY <1>1, <1>2, <1>3

LEMMA RestFits ==
  ASSUME NEW p \in Nat, NEW g \in Nat, NEW s \in Nat, p <= 1, g <= s
  PROVE  p + g - 2 <= s
OBVIOUS

\* SSL takes a record, or all the bytes there are.
LEMMA TookSome ==
  ASSUME NEW x, Good(x), ~x.destroyed, HasRecord(x)
  PROVE  LET t == Took(x)
         IN  /\ DOMAIN t = Fields /\ Plain(t, x) /\ Takes(t, x) /\ Holds(t, x)
             /\ t.got = x.got /\ t.ended = x.ended /\ t.notified = x.notified /\ t.stage = x.stage
             /\ t.part \in Seq(Records) /\ t.ring \in Seq(Records) /\ t.chunk \in Seq(Records) /\ t.got \in Seq(Records)
             /\ Len(t.part) <= 1 /\ Len(t.ring) <= Ring /\ Typed(t) /\ (t.notified => t.ended)
<1> DEFINE r == SubSeq(Input(x), 3, Len(Input(x)))
           t == [x EXCEPT !.part = << >>, !.ring = r]
<1>1. Took(x) = t /\ DOMAIN x = Fields
  BY DEF Took, Good, Sound
<1>2. x.part \in Seq(Records) /\ x.ring \in Seq(Records) /\ Len(x.part) <= 1 /\ Len(x.ring) <= Ring
  BY DEF Good, Typed
<1>3. Input(x) \in Seq(Records) /\ Len(Input(x)) = Len(x.part) + Len(x.ring)
  BY <1>2, JoinIs DEF Input
<1>4. r \in Seq(Records) /\ Len(r) <= Ring
  <2>1. r \in Seq(Records) /\ Len(r) = Len(Input(x)) - 2
    BY <1>3, RestOfTwo DEF HasRecord
  <2>2. Len(x.part) \in Nat /\ Len(x.ring) \in Nat /\ Ring \in Nat
    BY <1>2, LenProperties, TlsAssumption
  <2> HIDE DEF r
  <2>3. Len(r) = Len(x.part) + Len(x.ring) - 2
    BY <1>3, <2>1
  <2>4. Len(x.part) + Len(x.ring) - 2 <= Ring
    BY <1>2, <2>2, RestFits
  <2> QED
    BY <2>1, <2>3, <2>4
<1>5. r = SubSeq(Input(x), 3, Len(Input(x)))
  OBVIOUS
<1> HIDE DEF r
<1>6. /\ DOMAIN t = Fields /\ t.part = << >> /\ t.ring = r /\ t.chunk = x.chunk
      /\ t.conn = x.conn /\ t.open = x.open /\ t.writable = x.writable /\ t.destroyed = x.destroyed
      /\ t.closing = x.closing /\ t.ended = x.ended /\ t.queue = x.queue /\ t.notified = x.notified
      /\ t.stuck = x.stuck /\ t.raw = x.raw /\ t.rawWritable = x.rawWritable /\ t.sendq = x.sendq
      /\ t.draining = x.draining /\ t.finTimer = x.finTimer /\ t.finned = x.finned /\ t.out = x.out
      /\ t.put = x.put /\ t.got = x.got /\ t.cut = x.cut /\ t.rawReadable = x.rawReadable
      /\ t.task = x.task /\ t.last = x.last /\ t.stage = x.stage
  BY <1>1 DEF Fields
<1> HIDE DEF t
<1>7. t.part \in Seq(Records) /\ Len(t.part) <= 1
  BY <1>6, EmptySeq
<1>8. Typed(t)
  BY <1>4, <1>6, <1>7 DEF Good, Typed
<1>9. Plain(t, x) /\ Holds(t, x)
  BY <1>6 DEF Plain, Holds
<1>10. Takes(t, x)
  BY <1>5, <1>6 DEF Takes
<1>11. t.notified => t.ended
  BY <1>6 DEF Good, Linked
<1> QED
  BY <1>1, <1>6, <1>8, <1>9, <1>10, <1>11 DEF Typed

LEMMA TookNone ==
  ASSUME NEW x, NEW y, Pair(x, y), ~HasRecord(x)
  PROVE  LET t == Took(x)
         IN  Pair(t, y) /\ Steps(t, x, y) /\ Holds(t, x) /\ ~HasRecord(t)
<1> DEFINE i == Input(x)
           t == [x EXCEPT !.part = i, !.ring = << >>]
<1>1. Took(x) = t /\ DOMAIN x = Fields /\ Good(x) /\ Good(y) /\ Typed(x)
  BY DEF Took, Pair, Good, Sound
<1>2. x.part \in Seq(Records) /\ x.ring \in Seq(Records) /\ x.chunk \in Seq(Records) /\ x.got \in Seq(Records)
      /\ (x.notified => x.ended)
  BY <1>1 DEF Good, Typed, Linked
<1>3. i \in Seq(Records) /\ i = x.part \o x.ring
  BY <1>2, JoinIs DEF Input
<1>4. Len(i) <= 1
  <2>1. Len(i) \in Nat /\ ~(Len(i) >= 2)
    BY <1>3, LenProperties DEF HasRecord
  <2> HIDE DEF i
  <2> QED
    BY <2>1
<1> HIDE DEF i
<1>5. /\ t.part = i /\ t.ring = << >> /\ t.chunk = x.chunk /\ t.got = x.got
      /\ Plain(t, x) /\ Holds(t, x) /\ t.ended = x.ended /\ t.notified = x.notified
  BY <1>1 DEF Plain, Holds, Fields
<1> HIDE DEF t
<1>6. t.ring \in Seq(Records) /\ Len(t.ring) <= Ring
  <2>1. << >> \in Seq(Records) /\ Len(<< >>) = 0 /\ Ring \in Nat
    BY EmptySeq, TlsAssumption
  <2> QED
    BY <1>5, <2>1
<1>7. Good(t) /\ Flow(t, y) /\ Steps(t, x, y)
  BY <1>1, <1>2, <1>3, <1>4, <1>5, <1>6, PlainGood DEF Pair
<1>8. Way(y, t) = Way(y, x)
  <2>1. /\ Way(y, t) = i \o (<< >> \o (x.chunk \o Sent(y)))
        /\ Way(y, x) = x.part \o (x.ring \o (x.chunk \o Sent(y)))
    BY <1>1, <1>5, <1>7, WayIs DEF Good
  <2> DEFINE v == x.chunk \o Sent(y)
  <2>2. v \in Seq(Records)
    BY <1>1, <1>2, SentIs, JoinsAre
  <2> HIDE DEF v
  <2>3. << >> \o v = v
    BY <2>2, WholeEmpty
  <2>4. (x.part \o x.ring) \o v = x.part \o (x.ring \o v)
    BY ZenonT(60), <1>2, <2>2, AssocOf
  <2> QED
    BY <1>3, <2>1, <2>3, <2>4 DEF v
<1>9. Flow(y, t)
  BY <1>1, <1>5, <1>8, ReaderMoves DEF Pair, Plain
<1>10. ~HasRecord(t)
  <2>1. Input(t) = i
    BY <1>3, <1>5, WholeEmpty DEF Input
  <2>2. Len(i) \in Nat
    BY <1>3, LenProperties
  <2> QED
    BY <1>4, <2>1, <2>2 DEF HasRecord
<1> QED
  BY <1>1, <1>5, <1>7, <1>9, <1>10 DEF Pair

LEMMA WaitsWent ==
  ASSUME FlowsInv, NEW e \in Ends, Becomes(e, Return(Took(side[e]))), ~HasRecord(side[e]),
         side[e].task \in {"drive", "pump"}, side[e].raw # "new"
  PROVE  Went(e)
BY PairIs, TookNone, ReturnWent

\* The socket is destroyed in the callback, with a record taken or not.
LEMMA AbortWent ==
  ASSUME FlowsInv, NEW e \in Ends, NEW x, Becomes(e, Return(Destroy(x))), ~x.destroyed,
         Good(x), Flow(x, side[Other(e)]), NEW v, Flow(side[Other(e)], v), x.got = v.got, x.ended = v.ended,
         Steps(x, side[e], side[Other(e)]), Holds(x, side[e]),
         side[e].task \in {"drive", "pump"}, side[e].raw # "new"
  PROVE  Went(e)
<1> DEFINE z == Destroy(x)
           y == side[Other(e)]
<1>1. Good(y) /\ Good(side[e])
  BY PairIs DEF Pair
<1> HIDE DEF y
<1>2. Pair(z, y) /\ Steps(z, x, y) /\ Knows(z, x) /\ ~z.conn
  BY <1>1, DestroyPair DEF y
<1> HIDE DEF z
<1>3. Steps(z, side[e], y)
  BY <1>1, <1>2, StepsOn, LengthsAre DEF Pair, y
<1>4. Holds(z, side[e])
  BY <1>2 DEF Holds, Knows
<1> QED
  BY <1>2, <1>3, <1>4, ReturnWent DEF y, z

----------------------------------------------------------------------------
(* The handshake *)
\* SSL has taken a record of the handshake.
LEMMA TookHello ==
  ASSUME NEW x, NEW y, Pair(x, y), ~x.destroyed, HasRecord(x), Record(x)[1] \notin {"data", "close"}
  PROVE  LET t == Took(x)
         IN  Pair(t, y) /\ Steps(t, x, y) /\ Plain(t, x) /\ Holds(t, x) /\ t.stage = x.stage
<1> DEFINE t == Took(x)
<1>1. Good(x) /\ Good(y) /\ Flow(x, y) /\ Flow(y, x) /\ Typed(x)
  BY DEF Pair, Good
<1>2. /\ DOMAIN t = Fields /\ Plain(t, x) /\ Takes(t, x) /\ Holds(t, x)
      /\ t.got = x.got /\ t.ended = x.ended /\ t.notified = x.notified /\ t.stage = x.stage
      /\ t.part \in Seq(Records) /\ t.ring \in Seq(Records) /\ t.chunk \in Seq(Records) /\ t.got \in Seq(Records)
      /\ Len(t.part) <= 1 /\ Len(t.ring) <= Ring /\ Typed(t) /\ (t.notified => t.ended)
  BY <1>1, TookSome
<1> HIDE DEF t
<1>3. Good(t) /\ Flow(t, y) /\ Steps(t, x, y)
  BY <1>1, <1>2, PlainGood
<1>4. Flow(y, t)
  BY <1>1, <1>2, ReaderHello
<1> QED
  BY <1>1, <1>2, <1>3, <1>4 DEF Pair, t

\* What SSL answers.
LEMMA FlushPair ==
  ASSUME NEW x, NEW y, Pair(x, y), x.rawWritable, ~x.open, ~x.destroyed, NEW kind, <<kind, 0>> \in Handshakes
  PROVE  LET z == Flush(x, kind)
         IN  Pair(z, y) /\ Steps(z, x, y) /\ Holds(z, x) /\ SameTls(z, x)
<1> DEFINE z == Flush(x, kind)
<1>1. Good(x) /\ Good(y) /\ Flow(x, y) /\ Flow(y, x) /\ Typed(y)
  BY DEF Pair, Good
<1>2. Good(z) /\ SameTls(z, x) /\ Sent(z) = Sent(x) \o Bytes(<<<<kind, 0>>>>)
  BY <1>1, FlushGood DEF Handshakes
<1> HIDE DEF z
<1>3. SendsAs(z, x) /\ z.queue = x.queue /\ ReadsAs(z, x)
  BY <1>2 DEF SameTls, SendsAs, ReadsAs
<1>4. Flow(z, y)
  BY <1>1, <1>2, <1>3, SenderHello
<1>5. Flow(y, z)
  BY <1>1, <1>3, ReaderSame
<1> QED
  BY <1>1, <1>2, <1>4, <1>5 DEF Pair, Steps, Holds, SameTls, z

LEMMA StagePair ==
  ASSUME NEW x, NEW y, Pair(x, y), NEW s
  PROVE  LET z == [x EXCEPT !.stage = s]
         IN  Pair(z, y) /\ Steps(z, x, y) /\ Holds(z, x)
<1> DEFINE z == [x EXCEPT !.stage = s]
<1>1. Good(x) /\ Good(y) /\ Flow(x, y) /\ Flow(y, x) /\ DOMAIN x = Fields
  BY DEF Pair, Good, Sound
<1>2. /\ z.part = x.part /\ z.ring = x.ring /\ z.chunk = x.chunk /\ z.got = x.got
      /\ Plain(z, x) /\ Holds(z, x) /\ z.ended = x.ended /\ z.notified = x.notified
  BY <1>1 DEF Plain, Holds, Fields
<1> HIDE DEF z
<1>3. /\ z.part \in Seq(Records) /\ z.ring \in Seq(Records) /\ z.chunk \in Seq(Records) /\ z.got \in Seq(Records)
      /\ Len(z.part) <= 1 /\ Len(z.ring) <= Ring /\ (z.notified => z.ended)
  BY <1>1, <1>2 DEF Good, Typed, Linked
<1>4. Good(z) /\ Flow(z, y) /\ Steps(z, x, y)
  BY <1>1, <1>2, <1>3, PlainGood
<1>5. ReadsAs(z, x)
  BY <1>2 DEF ReadsAs, Plain
<1>6. Flow(y, z)
  BY <1>1, <1>5, ReaderSame
<1> QED
  BY <1>1, <1>2, <1>4, <1>6 DEF Pair, z

LEMMA ConnectedPair ==
  ASSUME NEW x, NEW y, Pair(x, y), x.raw = "up", ~x.open
  PROVE  LET z == Connected(x)
         IN  Pair(z, y) /\ Steps(z, x, y) /\ z.task = "pending" /\ z.writable
             /\ z.chunk = x.chunk /\ z.last = x.last
<1> DEFINE z == Connected(x)
<1>1. Good(x) /\ Good(y) /\ Flow(x, y) /\ Flow(y, x) /\ Typed(y) /\ DOMAIN x = Fields
  BY DEF Pair, Good, Sound
<1>2. ~x.closing /\ ~x.destroyed
  BY <1>1 DEF Good, Linked, Sound
<1>3. /\ z.part = x.part /\ z.ring = x.ring /\ z.chunk = x.chunk /\ z.sendq = x.sendq
      /\ z.put = x.put /\ z.got = x.got /\ z.out = x.out /\ z.queue = x.queue /\ z.cut = x.cut
      /\ z.closing = x.closing /\ z.destroyed = x.destroyed /\ z.ended = x.ended
      /\ DOMAIN z = Fields /\ z.raw = x.raw /\ z.rawReadable = x.rawReadable
      /\ z.rawWritable = x.rawWritable /\ z.conn = x.conn /\ z.open /\ z.writable
      /\ z.task = "pending" /\ z.last = x.last /\ z.stuck = x.stuck
      /\ z.draining = x.draining /\ z.finTimer = x.finTimer /\ z.finned = x.finned
      /\ z.notified = x.notified
  BY <1>1 DEF Connected, Fields
<1> HIDE DEF z
<1>4. Sound(z)
  BY <1>1, <1>3 DEF Good, Sound, Dead
<1>5. Typed(z)
  BY <1>1, <1>3 DEF Good, Typed
<1>6. Linked(z)
  BY <1>1, <1>2, <1>3 DEF Good, Linked
<1>7. Good(z)
  BY <1>4, <1>5, <1>6 DEF Good
<1>8. FlowsAs(z, x) /\ ReadsAs(z, x)
  BY <1>3 DEF FlowsAs, ReadsAs, Sent
<1>9. Flow(z, y) /\ Flow(y, z)
  BY <1>1, <1>7, <1>8, SenderSame, ReaderSame
<1>10. Steps(z, x, y)
  BY <1>3 DEF Steps
<1> QED
  BY <1>1, <1>3, <1>7, <1>9, <1>10 DEF Pair, z

----------------------------------------------------------------------------
\* An end that goes on with the handshake.
LEMMA DrivesWent ==
  ASSUME FlowsInv, NEW e \in Ends, NEW z, Becomes(e, z), Pair(z, side[Other(e)]),
         Steps(z, side[e], side[Other(e)]), Holds(z, side[e]), side[e].task = "drive",
         ~side[e].open, side[e].raw # "new"
  PROVE  Went(e)
<1>1. Working(side[e])
  BY PairIs
<1>2. Working(z)
  BY <1>1 DEF Working, Holds
<1> QED
  BY <1>2, BecomesWent

LEMMA ConnectedWent ==
  ASSUME FlowsInv, NEW e \in Ends, NEW x, Becomes(e, Connected(x)), Pair(x, side[Other(e)]),
         Steps(x, side[e], side[Other(e)]), Holds(x, side[e]), side[e].task = "drive",
         ~x.open, x.raw = "up", side[e].raw # "new"
  PROVE  Went(e)
<1> DEFINE z == Connected(x)
           y == side[Other(e)]
<1>1. Working(side[e]) /\ Good(side[e])
  BY PairIs DEF Pair
<1> HIDE DEF y
<1>2. Pair(z, y) /\ Steps(z, x, y) /\ z.task = "pending" /\ z.writable /\ z.chunk = x.chunk /\ z.last = x.last
  BY ConnectedPair DEF y
<1> HIDE DEF z
<1>3. Working(z)
  BY <1>1, <1>2 DEF Working, Holds
<1>4. Steps(z, side[e], y)
  BY <1>1, <1>2, StepsOn, LengthsAre DEF Pair, y
<1> QED
  BY <1>2, <1>3, <1>4, BecomesWent DEF z, y

LEMMA HandshakeWent ==
  ASSUME FlowsInv, NEW e \in Ends, side[e].task = "drive", side[e].raw = "up", ~side[e].open,
         side[e].rawWritable, HasRecord(side[e]), ~side[e].destroyed,
         Becomes(e, Handshake(e, Took(side[e]), Record(side[e])[1]))
  PROVE  Went(e)
<1> DEFINE x == side[e]
           y == side[Other(e)]
           kind == Record(x)[1]
           t == Took(x)
           flight == Flush(t, "flight")
           alert == Flush(t, "alert")
           finished == Flush(t, "finished")
           confirm == Flush(t, "confirm")
           a == [flight EXCEPT !.stage = "flight"]
           b == [finished EXCEPT !.stage = "finished"]
           z == Handshake(e, t, kind)
<1>1. Pair(x, y) /\ Becomes(e, z)
  BY PairIs
<1>2. \/ kind \in {"hello", "flight", "finished", "confirm"} /\ z \in {a, b}
      \/ kind \in {"hello", "flight", "finished", "confirm"} /\ z = Return(Destroy(alert))
      \/ kind \in {"hello", "flight", "finished", "confirm"} /\ z \in {Connected(finished), Connected(confirm), Connected(t)}
      \/ z = Return(Destroy(t))
  <2> HIDE DEF x, t, kind
  <2> QED
    BY DEF Handshake
<1> HIDE DEF x, y, kind, z
<1>3. /\ <<"flight", 0>> \in Handshakes /\ <<"alert", 0>> \in Handshakes
      /\ <<"finished", 0>> \in Handshakes /\ <<"confirm", 0>> \in Handshakes
  BY DEF Handshakes, Records
<1>4. CASE kind \in {"hello", "flight", "finished", "confirm"}
  <2>1. kind \notin {"data", "close"}
    BY <1>4
  <2>2. Pair(t, y) /\ Steps(t, x, y) /\ Plain(t, x) /\ Holds(t, x)
    BY <1>1, <2>1, TookHello DEF x, kind
  <2> HIDE DEF t
  <2>3. t.rawWritable /\ ~t.open /\ ~t.destroyed /\ t.raw = "up"
    BY <2>2 DEF Plain, x
  <2>4. \A f \in {flight, alert, finished, confirm} : Pair(f, y) /\ Steps(f, t, y) /\ Holds(f, t) /\ SameTls(f, t)
    BY <1>3, <2>2, <2>3, FlushPair
  <2> HIDE DEF flight, alert, finished, confirm
  <2>5. \A f \in {flight, alert, finished, confirm, t} :
          Pair(f, y) /\ Steps(f, x, y) /\ Holds(f, x) /\ ~f.open /\ f.raw = "up" /\ ~f.destroyed
    <3>1. ASSUME NEW f \in {flight, alert, finished, confirm}
          PROVE  Pair(f, y) /\ Steps(f, x, y) /\ Holds(f, x) /\ ~f.open /\ f.raw = "up" /\ ~f.destroyed
      <4>1. Pair(f, y) /\ Steps(f, t, y) /\ Holds(f, t) /\ SameTls(f, t)
        BY <2>4
      <4>2. Steps(f, x, y)
        BY <1>1, <2>2, <4>1, StepsOn, LengthsAre DEF Pair
      <4> QED
        BY <2>2, <2>3, <4>1, <4>2 DEF Holds, SameTls
    <3> QED
      BY <2>2, <2>3, <3>1
  <2>6. CASE z \in {a, b}
    <3>1. PICK f \in {flight, finished}, s \in {"flight", "finished"} : z = [f EXCEPT !.stage = s]
      BY <2>6
    <3>2. Pair(f, y) /\ Steps(f, x, y) /\ Holds(f, x)
      BY <2>5
    <3>3. Pair(z, y) /\ Steps(z, f, y) /\ Holds(z, f)
      BY <3>1, <3>2, StagePair
    <3>4. Steps(z, x, y)
      BY <1>1, <3>2, <3>3, StepsOn, LengthsAre DEF Pair
    <3>5. Holds(z, x)
      BY <3>2, <3>3 DEF Holds
    <3> QED
      BY <1>1, <3>3, <3>4, <3>5, DrivesWent DEF x, y
  <2>7. CASE z \in {Connected(finished), Connected(confirm), Connected(t)}
    <3>1. PICK f \in {finished, confirm, t} : z = Connected(f)
      BY <2>7
    <3>2. Pair(f, y) /\ Steps(f, x, y) /\ Holds(f, x) /\ ~f.open /\ f.raw = "up"
      BY <2>5
    <3> QED
      BY <1>1, <3>1, <3>2, ConnectedWent DEF x, y
  <2>8. ASSUME NEW f \in {alert, t}, z = Return(Destroy(f)) PROVE Went(e)
    <3>1. Pair(f, y) /\ Steps(f, x, y) /\ Holds(f, x) /\ ~f.destroyed
      BY <2>5
    <3> QED
      BY <1>1, <2>8, <3>1, AbortWent DEF x, y, Pair
  <2> QED
    BY <1>2, <2>6, <2>7, <2>8
<1>5. CASE z = Return(Destroy(t))
  <2>1. Good(x) /\ Good(y) /\ Flow(x, y) /\ Flow(y, x)
    BY <1>1 DEF Pair
  <2>2. /\ DOMAIN t = Fields /\ Plain(t, x) /\ Takes(t, x) /\ Holds(t, x)
        /\ t.got = x.got /\ t.ended = x.ended /\ t.notified = x.notified /\ t.stage = x.stage
        /\ t.part \in Seq(Records) /\ t.ring \in Seq(Records) /\ t.chunk \in Seq(Records) /\ t.got \in Seq(Records)
        /\ Len(t.part) <= 1 /\ Len(t.ring) <= Ring /\ Typed(t) /\ (t.notified => t.ended)
    BY <2>1, TookSome DEF x
  <2> HIDE DEF t
  <2>3. Good(t) /\ Flow(t, y) /\ Steps(t, x, y) /\ ~t.destroyed
    BY <2>1, <2>2, PlainGood DEF Takes
  <2> QED
    BY <1>1, <1>5, <2>1, <2>2, <2>3, AbortWent DEF x, y
<1> QED
  BY <1>2, <1>4, <1>5

LEMMA DriveWent ==
  ASSUME FlowsInv, NEW e \in Ends, Drive(e)
  PROVE  Went(e)
<1> DEFINE x == side[e]
           y == side[Other(e)]
           h == Flush(x, "hello")
           z == [h EXCEPT !.stage = "hello"]
<1>1. x.task = "drive"
  BY DEF Drive, Runs
<1>2. Pair(x, y) /\ Working(x) /\ x.raw = "up" /\ x.conn
  BY <1>1, PairIs, CallbackIs DEF FlowsInv
<1>3. ~x.open /\ x.rawWritable /\ ~x.destroyed
  BY <1>1, <1>2 DEF Pair, Good, Linked, Working, Sound
<1>4. \/ Becomes(e, z)
      \/ ~HasRecord(x) /\ Becomes(e, Return(Took(x)))
      \/ HasRecord(x) /\ Becomes(e, Handshake(e, Took(x), Record(x)[1]))
  BY <1>2 DEF Drive
<1>5. CASE Becomes(e, z)
  <2> HIDE DEF x, y
  <2>1. <<"hello", 0>> \in Handshakes
    BY DEF Handshakes, Records
  <2>2. Pair(h, y) /\ Steps(h, x, y) /\ Holds(h, x)
    BY <1>2, <1>3, <2>1, FlushPair
  <2> HIDE DEF h
  <2>3. Pair(z, y) /\ Steps(z, h, y) /\ Holds(z, h)
    BY <2>2, StagePair
  <2> HIDE DEF z
  <2>4. Steps(z, x, y)
    BY <1>2, <2>2, <2>3, StepsOn, LengthsAre DEF Pair
  <2>5. Holds(z, x)
    BY <2>2, <2>3 DEF Holds
  <2> QED
    BY <1>1, <1>2, <1>3, <1>5, <2>3, <2>4, <2>5, DrivesWent DEF x, y
<1>6. CASE ~HasRecord(x) /\ Becomes(e, Return(Took(x)))
  BY <1>1, <1>2, <1>6, WaitsWent
<1>7. CASE HasRecord(x) /\ Becomes(e, Handshake(e, Took(x), Record(x)[1]))
  BY <1>1, <1>2, <1>3, <1>7, HandshakeWent
<1> QED
  BY <1>4, <1>5, <1>6, <1>7

----------------------------------------------------------------------------
(* The reader's loop *)
\* 'end' and what follows it.
LEMMA EofWent ==
  ASSUME FlowsInv, NEW e \in Ends, NEW r, DOMAIN r = Fields, Becomes(e, Return(AfterEof(r))),
         Pair(EmitEnd(r), side[Other(e)]), Steps(EmitEnd(r), side[e], side[Other(e)]),
         Holds(EmitEnd(r), side[e]), EmitEnd(r).notified,
         side[e].task \in {"drive", "pump"}, side[e].raw # "new"
  PROVE  Went(e)
<1> DEFINE v == EmitEnd(r)
           z == AfterEof(r)
           y == side[Other(e)]
<1>1. Good(side[e])
  BY PairIs DEF Pair
<1> HIDE DEF y
<1>2. Pair(z, y) /\ Steps(z, v, y) /\ Knows(z, v)
  BY AfterEofPair DEF y
<1> HIDE DEF z, v
<1>3. Pair(v, y)
  BY DEF v, y
<1>4. Steps(z, side[e], y)
  BY <1>1, <1>2, <1>3, StepsOn, LengthsAre DEF Pair, v, y
<1>5. Holds(z, side[e]) /\ z.notified
  BY <1>2 DEF Holds, Knows, v
<1> QED
  BY <1>2, <1>4, <1>5, ReturnWent DEF z, y

LEMMA PumpWent ==
  ASSUME FlowsInv, NEW e \in Ends, Pump(e)
  PROVE  Went(e)
<1> DEFINE x == side[e]
           y == side[Other(e)]
           t == Took(x)
           g == Append(t.got, Record(x))
           s == [t EXCEPT !.got = g]
           d == [s EXCEPT !.task = "told"]
           n == [t EXCEPT !.notified = TRUE]
<1>1. x.task = "pump"
  BY DEF Pump, Runs
<1>2. Pair(x, y) /\ Working(x) /\ Working(y) /\ DOMAIN x = Fields /\ x.raw = "up" /\ x.conn
  BY <1>1, PairIs, CallbackIs DEF FlowsInv
<1>3. ~x.destroyed /\ Good(x) /\ Good(y) /\ Flow(x, y) /\ Flow(y, x) /\ Typed(x)
  BY <1>2 DEF Pair, Good, Sound
<1>4. \/ x.notified /\ Becomes(e, Return(AfterEof(x)))
      \/ ~HasRecord(x) /\ Becomes(e, Return(Took(x)))
      \/ HasRecord(x) /\ Record(x)[1] = "data" /\ Becomes(e, d)
      \/ HasRecord(x) /\ Record(x)[1] = "close" /\ Becomes(e, Return(AfterEof(n)))
      \/ Becomes(e, Return(Destroy(x)))
  BY DEF Pump
<1>5. Steps(x, x, y) /\ Holds(x, x)
  BY DEF Steps, Holds
<1>6. CASE x.notified /\ Becomes(e, Return(AfterEof(x)))
  <2> HIDE DEF x, y
  <2> DEFINE v == EmitEnd(x)
  <2>1. x.ended
    BY <1>3, <1>6 DEF Good, Linked
  <2>2. /\ v.ended /\ Plain(v, x) /\ v.part = x.part /\ v.ring = x.ring /\ v.chunk = x.chunk
        /\ v.got = x.got /\ v.notified = x.notified /\ v.task = x.task /\ v.last = x.last
    BY <1>2, EmitEndIs
  <2> HIDE DEF v
  <2>3. /\ v.part \in Seq(Records) /\ v.ring \in Seq(Records) /\ v.chunk \in Seq(Records) /\ v.got \in Seq(Records)
        /\ Len(v.part) <= 1 /\ Len(v.ring) <= Ring
    BY <1>3, <2>2 DEF Typed
  <2>4. Good(v) /\ Flow(v, y) /\ Steps(v, x, y)
    BY <1>3, <2>2, <2>3, PlainGood
  <2>5. ReadsAs(v, x) /\ Holds(v, x)
    BY <2>1, <2>2 DEF ReadsAs, Plain, Holds
  <2>6. Flow(y, v)
    BY <1>3, <2>5, ReaderSame
  <2>7. Pair(v, y)
    BY <1>3, <2>4, <2>6 DEF Pair
  <2> QED
    BY <1>1, <1>2, <1>6, <2>2, <2>4, <2>5, <2>7, EofWent DEF x, y, v
<1>7. CASE ~HasRecord(x) /\ Becomes(e, Return(Took(x)))
  BY <1>1, <1>2, <1>7, WaitsWent
<1>8. CASE Becomes(e, Return(Destroy(x)))
  <2> HIDE DEF x, y
  <2> QED
    BY <1>1, <1>2, <1>3, <1>5, <1>8, AbortWent DEF x, y
<1>9. ASSUME HasRecord(x)
      PROVE  /\ DOMAIN t = Fields /\ Plain(t, x) /\ Takes(t, x) /\ Holds(t, x)
             /\ t.got = x.got /\ t.ended = x.ended /\ t.notified = x.notified
             /\ t.part \in Seq(Records) /\ t.ring \in Seq(Records) /\ t.chunk \in Seq(Records) /\ t.got \in Seq(Records)
             /\ Len(t.part) <= 1 /\ Len(t.ring) <= Ring /\ Typed(t) /\ (t.notified => t.ended)
  <2> HIDE DEF x
  <2> QED
    BY <1>3, <1>9, TookSome
<1>10. CASE HasRecord(x) /\ Record(x)[1] = "data" /\ Becomes(e, d)
  <2> HIDE DEF x, y, t
  <2>1. /\ DOMAIN t = Fields /\ Plain(t, x) /\ Takes(t, x) /\ Holds(t, x)
        /\ t.got = x.got /\ t.ended = x.ended /\ t.notified = x.notified
        /\ t.part \in Seq(Records) /\ t.ring \in Seq(Records) /\ t.chunk \in Seq(Records) /\ t.got \in Seq(Records)
        /\ Len(t.part) <= 1 /\ Len(t.ring) <= Ring /\ Typed(t) /\ (t.notified => t.ended)
    BY <1>9, <1>10
  <2>2. Record(x) \in Records
    BY <1>3, <2>1, WayTakes
  <2>3. g \in Seq(Records) /\ Len(g) > Len(x.got) /\ g = Append(x.got, Record(x))
    <3>1. g \in Seq(Records) /\ Len(g) = Len(t.got) + 1 /\ Len(t.got) \in Nat
      BY <2>1, <2>2, AppendProperties, LenProperties
    <3> HIDE DEF g
    <3>2. Len(g) > Len(x.got)
      BY <2>1, <3>1
    <3>3. g = Append(x.got, Record(x))
      BY <2>1 DEF g
    <3> QED
      BY <3>1, <3>2, <3>3
  <2> HIDE DEF g
  <2>4. /\ d.part = t.part /\ d.ring = t.ring /\ d.chunk = t.chunk /\ d.got = g
        /\ Plain(d, t) /\ d.task = "told" /\ d.last = t.last /\ d.queue = t.queue /\ d.open = t.open
        /\ d.ended = t.ended /\ d.notified = t.notified
    BY <2>1 DEF Plain, Fields
  <2> HIDE DEF d
  <2>5. Plain(d, x) /\ Takes(d, x) /\ d.ended = x.ended
    BY <2>1, <2>4 DEF Plain, Takes
  <2>6. Typed(d)
    BY <2>1, <2>3, <2>4 DEF Typed, Plain
  <2>7. Flow(y, d)
    BY <1>3, <1>10, <2>3, <2>4, <2>5, <2>6, ReaderData
  <2>8. Working(d)
    BY <1>1, <1>2, <2>1, <2>4 DEF Working, Holds
  <2>9. /\ d.part \in Seq(Records) /\ d.ring \in Seq(Records) /\ d.chunk \in Seq(Records) /\ d.got \in Seq(Records)
        /\ Len(d.part) <= 1 /\ Len(d.ring) <= Ring /\ Len(d.got) > Len(x.got) /\ (d.notified => d.ended)
    BY <2>1, <2>3, <2>4
  <2> QED
    BY <1>2, <1>10, <2>5, <2>7, <2>8, <2>9, PlainWent DEF x, y
<1>11. CASE HasRecord(x) /\ Record(x)[1] = "close" /\ Becomes(e, Return(AfterEof(n)))
  <2> HIDE DEF x, y, t
  <2> DEFINE v == EmitEnd(n)
  <2>1. /\ DOMAIN t = Fields /\ Plain(t, x) /\ Takes(t, x) /\ Holds(t, x)
        /\ t.got = x.got /\ t.ended = x.ended /\ t.notified = x.notified
        /\ t.part \in Seq(Records) /\ t.ring \in Seq(Records) /\ t.chunk \in Seq(Records) /\ t.got \in Seq(Records)
        /\ Len(t.part) <= 1 /\ Len(t.ring) <= Ring /\ Typed(t) /\ (t.notified => t.ended)
    BY <1>9, <1>11
  <2>2. /\ n.part = t.part /\ n.ring = t.ring /\ n.chunk = t.chunk /\ n.got = t.got
        /\ Plain(n, t) /\ Holds(n, t) /\ n.notified /\ DOMAIN n = Fields
    BY <2>1 DEF Plain, Fields, Holds
  <2> HIDE DEF n
  <2>3. /\ v.ended /\ Plain(v, n) /\ v.part = n.part /\ v.ring = n.ring /\ v.chunk = n.chunk
        /\ v.got = n.got /\ v.notified = n.notified /\ v.task = n.task /\ v.last = n.last
    BY <2>2, EmitEndIs
  <2> HIDE DEF v
  <2>4. Plain(v, x) /\ Takes(v, x) /\ Holds(v, x) /\ v.got = x.got /\ v.ended /\ v.notified
    BY <2>1, <2>2, <2>3 DEF Plain, Takes, Holds
  <2>5. /\ v.part \in Seq(Records) /\ v.ring \in Seq(Records) /\ v.chunk \in Seq(Records) /\ v.got \in Seq(Records)
        /\ Len(v.part) <= 1 /\ Len(v.ring) <= Ring
    BY <2>1, <2>2, <2>3
  <2>6. Typed(v)
    BY <2>1, <2>2, <2>3, <2>5 DEF Typed, Plain
  <2>7. y.closing => y.queue = << >>
    BY <1>2, <1>3, ClosedIs
  <2>8. Flow(y, v)
    BY <1>3, <1>11, <2>4, <2>6, <2>7, ReaderClose
  <2>9. Good(v) /\ Flow(v, y) /\ Steps(v, x, y)
    BY <1>3, <2>4, <2>5, PlainGood
  <2>10. Pair(v, y)
    BY <1>3, <2>8, <2>9 DEF Pair
  <2> QED
    BY <1>1, <1>2, <1>11, <2>2, <2>4, <2>9, <2>10, EofWent DEF x, y, v
<1> QED
  BY <1>4, <1>6, <1>7, <1>8, <1>10, <1>11

----------------------------------------------------------------------------
(* Every step is one of both channels *)
LEMMA NumberedPrefix ==
  ASSUME NEW p \in Nat, NEW n \in Nat, p <= n
  PROVE  IsPrefix(Numbered(0, p), Numbered(0, n))
<1> DEFINE s == Numbered(0, p)
           t == Numbered(0, n)
<1>1. /\ s \in Seq(Records) /\ Len(s) = p /\ \A j \in 1..p : s[j] = <<"data", 0 + j>>
      /\ t \in Seq(Records) /\ Len(t) = n /\ \A j \in 1..n : t[j] = <<"data", 0 + j>>
  BY NumberedIs
<1> HIDE DEF s, t
<1>2. ASSUME NEW j \in 1..Len(s) PROVE s[j] = t[j]
  <2>1. j \in 1..p /\ j \in 1..n
    BY <1>1
  <2>2. s[j] = <<"data", 0 + j>> /\ t[j] = <<"data", 0 + j>>
    BY <1>1, <2>1
  <2> QED
    BY <2>2
<1>3. Len(s) <= Len(t)
  BY <1>1
<1>4. SubSeq(s, 1, Len(s)) = SubSeq(t, 1, Len(s))
  BY <1>1, <1>2, <1>3
<1>5. IsPrefix(s, t)
  BY <1>3, <1>4 DEF IsPrefix
<1> QED
  BY <1>5 DEF s, t

\* What a step of e does to the channel that e writes, and to the one that e reads.
WritesOn(e) ==
  LET f == Other(e)
  IN  /\ side'[f].got = side[f].got /\ EndedFrom(e)' = EndedFrom(e)
      /\ ClosedBy(e)' \in BOOLEAN /\ ClosedBy(e) \in BOOLEAN /\ (ClosedBy(e) => ClosedBy(e)')
      /\ \/ side'[e].put = side[e].put
         \/ /\ ~ClosedBy(e) /\ side'[e].put # side[e].put
            /\ IsPrefix(side[e].put, side'[e].put)
ReadsOn(e) ==
  LET f == Other(e)
  IN  /\ side'[f].put = side[f].put /\ ClosedBy(f)' = ClosedBy(f)
      /\ EndedFrom(f)' \in BOOLEAN /\ EndedFrom(f) \in BOOLEAN
      /\ (EndedFrom(f) => EndedFrom(f)')
      /\ (EndedFrom(f)' => ClosedBy(f) /\ side'[e].got = side[f].put)
      /\ \/ side'[e].got = side[e].got
         \/ /\ side'[e].got # side[e].got /\ ~EndedFrom(f)
            /\ IsPrefix(side[e].got, side'[e].got) /\ IsPrefix(side'[e].got, side[f].put)

LEMMA WentSends ==
  ASSUME FlowsInv, NEW e \in Ends, Went(e)
  PROVE  WritesOn(e) /\ ReadsOn(e)
<1> DEFINE f == Other(e)
           x == side[e]
           y == side[f]
           z == side'[e]
           w == side'[f]
<1>1. Pair(x, y) /\ Other(f) = e
  BY PairIs
<1>2. Pair(z, w) /\ Steps(z, x, y) /\ Stays(w, y)
  BY DEF Went
<1>3. /\ EndedFrom(e) = (y.ended /\ ~x.cut) /\ EndedFrom(e)' = (w.ended /\ ~z.cut)
      /\ EndedFrom(f) = (x.ended /\ ~y.cut) /\ EndedFrom(f)' = (z.ended /\ ~w.cut)
      /\ ClosedBy(e) = (x.closing \/ x.destroyed) /\ ClosedBy(e)' = (z.closing \/ z.destroyed)
      /\ ClosedBy(f) = (y.closing \/ y.destroyed) /\ ClosedBy(f)' = (w.closing \/ w.destroyed)
  BY <1>1 DEF EndedFrom, ClosedBy
<1> HIDE DEF f, x, y, z, w
<1>4. FlowHead(x, y) /\ FlowHead(y, x) /\ FlowHead(z, w) /\ FlowHead(w, z)
  BY <1>1, <1>2, FlowHas DEF Pair
<1>5. /\ Len(x.put) \in Nat /\ Len(x.got) \in Nat /\ Len(y.put) \in Nat
      /\ Len(z.put) \in Nat /\ Len(z.got) \in Nat
  BY <1>1, <1>2, LengthsAre DEF Pair
<1>6. /\ w.got = y.got /\ w.put = y.put /\ w.cut = y.cut /\ w.closing = y.closing /\ w.destroyed = y.destroyed
      /\ w.ended = y.ended
  BY <1>2 DEF Stays
<1>7. z.put = x.put \/ (~x.closing /\ ~x.destroyed /\ z.put # x.put /\ IsPrefix(x.put, z.put))
  <2>1. CASE z.put = x.put
    BY <2>1
  <2>2. CASE z.put # x.put
    <3>1. ~x.closing /\ ~x.destroyed /\ Len(z.put) > Len(x.put)
      BY <1>2, <2>2 DEF Steps
    <3>2. x.put = Numbered(0, Len(x.put)) /\ z.put = Numbered(0, Len(z.put))
      BY <1>4 DEF FlowHead
    <3>3. IsPrefix(Numbered(0, Len(x.put)), Numbered(0, Len(z.put)))
      BY <1>5, <3>1, NumberedPrefix
    <3> QED
      BY <2>2, <3>1, <3>2, <3>3
  <2> QED
    BY <2>1, <2>2
<1>8. z.ended /\ ~w.cut => (y.closing \/ y.destroyed) /\ z.got = y.put
  BY <1>4, <1>6 DEF FlowHead
<1>9. \/ z.got = x.got
      \/ /\ z.got # x.got /\ ~(x.ended /\ ~y.cut)
         /\ IsPrefix(x.got, z.got) /\ IsPrefix(z.got, y.put)
  <2>1. CASE z.got = x.got
    BY <2>1
  <2>2. CASE z.got # x.got
    <3>1. Len(z.got) > Len(x.got)
      BY <1>2, <2>2 DEF Steps
    <3>2. x.got = Numbered(0, Len(x.got)) /\ z.got = Numbered(0, Len(z.got)) /\ y.put = Numbered(0, Len(y.put))
          /\ Len(z.got) <= Len(y.put)
      BY <1>4, <1>6 DEF FlowHead
    <3>3. IsPrefix(Numbered(0, Len(x.got)), Numbered(0, Len(z.got)))
      BY <1>5, <3>1, NumberedPrefix
    <3>4. IsPrefix(Numbered(0, Len(z.got)), Numbered(0, Len(y.put)))
      BY <1>5, <3>2, NumberedPrefix
    <3>5. x.ended /\ ~y.cut => Len(x.got) = Len(y.put)
      BY <1>4 DEF FlowHead
    <3>6. ~(x.ended /\ ~y.cut)
      BY <1>5, <3>1, <3>2, <3>5
    <3> QED
      BY <2>2, <3>2, <3>3, <3>4, <3>6
  <2> QED
    BY <2>1, <2>2
<1>10. /\ (x.closing => z.closing) /\ (x.destroyed => z.destroyed)
       /\ y.ended => (z.cut <=> x.cut)
       /\ x.ended => z.ended
  BY <1>2 DEF Steps
<1>11. WritesOn(e)
  BY <1>3, <1>6, <1>7, <1>10 DEF WritesOn, f, x, y, z, w
<1>12. ReadsOn(e)
  BY <1>3, <1>6, <1>8, <1>9, <1>10 DEF ReadsOn, f, x, y, z, w
<1> QED
  BY <1>11, <1>12

LEMMA PrefixIs ==
  ASSUME NEW a, NEW b, IsPrefix(a, b)
  PROVE  ToServer!IsPrefix(a, b) /\ ToClient!IsPrefix(a, b)
BY DEF IsPrefix, ToServer!IsPrefix, ToClient!IsPrefix

----------------------------------------------------------------------------
LEMMA FlowStarts == Init => FlowsInv /\ ToServer!ChannelInit /\ ToClient!ChannelInit
<1> SUFFICES ASSUME Init PROVE FlowsInv /\ ToServer!ChannelInit /\ ToClient!ChannelInit
  OBVIOUS
<1>1. side = [e \in Ends |-> Side(e = "client")]
  BY DEF Init
<1>2. ASSUME NEW b \in BOOLEAN PROVE Typed(Side(b)) /\ Linked(Side(b)) /\ Working(Side(b))
  <2> DEFINE x == Side(b)
  <2>1. /\ x.part = << >> /\ x.ring = << >> /\ x.chunk = << >> /\ x.sendq = << >> /\ x.put = << >>
        /\ x.got = << >> /\ x.out = << >> /\ x.queue = << >> /\ x.task = "idle" /\ x.last /\ x.raw = "new"
        /\ ~x.stuck /\ ~x.writable /\ ~x.closing /\ ~x.draining /\ ~x.finTimer /\ ~x.finned /\ ~x.cut
        /\ ~x.destroyed /\ ~x.notified /\ ~x.open /\ ~x.rawWritable
    BY DEF Side
  <2> HIDE DEF x
  <2>2. /\ << >> \in Seq(Records) /\ << >> \in Seq(Records \cup {Fin}) /\ << >> \in Seq(Seq(Records))
        /\ DOMAIN << >> = {} /\ Len(<< >>) = 0 /\ Ring \in Nat
    BY EmptySeq, TlsAssumption
  <2>3. Typed(x)
    BY <2>1, <2>2 DEF Typed
  <2>4. Linked(x)
    BY <2>1, <2>2 DEF Linked
  <2>5. ~HasRecord(x)
    <3>1. Input(x) = << >>
      BY <2>1, <2>2, WholeEmpty DEF Input
    <3> QED
      BY <2>2, <3>1 DEF HasRecord
  <2>6. Working(x)
    BY <2>1, <2>5 DEF Working
  <2> QED
    BY <2>3, <2>4, <2>6 DEF x
<1>3. ASSUME NEW b \in BOOLEAN, NEW c \in BOOLEAN PROVE Flow(Side(b), Side(c))
  <2> DEFINE x == Side(b)
             y == Side(c)
  <2>1. /\ x.put = << >> /\ y.got = << >> /\ ~y.ended /\ x.queue = << >> /\ x.sendq = << >> /\ x.out = << >>
        /\ y.part = << >> /\ y.ring = << >> /\ y.chunk = << >> /\ ~x.open
    BY DEF Side
  <2> HIDE DEF x, y
  <2>2. << >> \in Seq(Records) /\ Len(<< >>) = 0 /\ << >> \o << >> = << >> /\ Numbered(0, 0) = << >>
    BY EmptySeq, WholeEmpty DEF Numbered
  <2>3. Way(x, y) = << >>
    BY <2>1, <2>2 DEF Way, Bare
  <2>4. FlowHead(x, y)
    BY <2>1, <2>2 DEF FlowHead
  <2>5. Carries(x, y, 0, 0, 0)
    <3>1. Carried(<< >>, 0, 0, 0, 0)
      BY <2>2 DEF Carried
    <3>2. Waits(<< >>, 0, 0)
      BY WaitsNone
    <3> QED
      BY <2>1, <2>2, <2>3, <3>1, <3>2 DEF Carries
  <2> QED
    BY <2>1, <2>2, <2>3, <2>4, <2>5, FlowWith DEF x, y
<1>4. \A e \in Ends : side[e] \in {Side(TRUE), Side(FALSE)} /\ side[Other(e)] \in {Side(TRUE), Side(FALSE)}
  BY <1>1 DEF Ends, Other
<1>5. \A e \in Ends : /\ Typed(side[e]) /\ Linked(side[e]) /\ Working(side[e])
                      /\ Flow(side[e], side[Other(e)])
  BY <1>2, <1>3, <1>4
<1>6. ~side["server"].conn /\ side["server"].queue = << >>
  BY <1>1 DEF Ends, Side
<1>7. FlowInv
  BY <1>5, <1>6 DEF FlowInv
<1>8. /\ \A e \in Ends : side[e].put = << >> /\ side[e].got = << >> /\ ~ClosedBy(e) /\ ~EndedFrom(e)
  BY <1>1 DEF Ends, Side, ClosedBy, EndedFrom, Other
<1>9. ToServer!ChannelInit /\ ToClient!ChannelInit
  BY <1>8 DEF Ends, ToServer!ChannelInit, ToClient!ChannelInit
<1> QED
  BY <1>7, <1>9, TlsInit DEF FlowsInv

LEMMA FlowSteps ==
  ASSUME FitsRing, FlowsInv, [Next]_vars
  PROVE  side' = side \/ \E e \in Ends : Went(e)
<1>0. "client" \in Ends /\ "server" \in Ends
  BY DEF Ends
<1>1. CASE Listen \/ UNCHANGED vars
  BY <1>1 DEF Listen, vars
<1>2. CASE Connect \/ ConnectOver \/ Accept \/ CloseServer
  BY <1>0, <1>2, ConnectWent, ConnectOverWent, AcceptWent, CloseServerWent
<1>3. ASSUME NEW e \in Ends, User(e) PROVE Went(e)
  BY <1>3, WriteWent, EndWent, UserDestroysWent DEF User
<1>4. ASSUME NEW e \in Ends, Loop(e) PROVE Went(e)
  BY <1>4, RawDataWent, RawEofWent, RawResetWent, RawWritableWent, RawShutdownWent DEF Loop
<1>5. ASSUME NEW e \in Ends, Callback(e) PROVE Went(e)
  BY <1>5, FeedWent, DriveWent, PendingWent, ToldWent, PumpWent DEF Callback
<1> QED
  BY <1>1, <1>2, <1>3, <1>4, <1>5 DEF Next

\* If every write fits into the ring and end() waits for the handshake, what is written
\* to a TLSSocket (globals.cpp, tls.cpp) comes out at the other end in order and once,
\* through the queue before the handshake, SSL, the ring, the raw socket's queue and the
\* kernel; 'end' comes after all of it, or after destroy() dropped some.
THEOREM DirectionsKeepOrder == ASSUME FitsRing PROVE Spec => DirectionsAreChannels
<1> DEFINE svars == <<side["client"].put, side["server"].got, ClosedBy("client"), EndedFrom("client")>>
           cvars == <<side["server"].put, side["client"].got, ClosedBy("server"), EndedFrom("server")>>
           SNext == ToServer!Put \/ ToServer!Close \/ ToServer!Deliver \/ ToServer!End
           CNext == ToClient!Put \/ ToClient!Close \/ ToClient!Deliver \/ ToClient!End
<1>1. FlowsInv /\ [Next]_vars => FlowsInv' /\ [SNext]_svars /\ [CNext]_cvars
  <2> SUFFICES ASSUME FlowsInv, [Next]_vars PROVE FlowsInv' /\ [SNext]_svars /\ [CNext]_cvars
    OBVIOUS
  <2>1. TlsInv'
    BY TlsStep DEF FlowsInv
  <2>2. CASE side' = side
    <3>1. FlowInv'
      BY <2>2 DEF FlowsInv, FlowInv
    <3>2. UNCHANGED svars /\ UNCHANGED cvars
      BY <2>2 DEF ClosedBy, EndedFrom
    <3> QED
      BY <2>1, <3>1, <3>2 DEF FlowsInv
  <2>3. ASSUME NEW e \in Ends, Went(e) PROVE FlowInv' /\ WritesOn(e) /\ ReadsOn(e)
    BY <2>3, WentKeeps, WentSends
  <2>4. CASE Went("client")
    <3>1. FlowInv' /\ WritesOn("client") /\ ReadsOn("client") /\ Other("client") = "server"
      BY <2>3, <2>4 DEF Ends, Other
    <3>2. [SNext]_svars
      <4>1. /\ side'["server"].got = side["server"].got /\ EndedFrom("client")' = EndedFrom("client")
            /\ ClosedBy("client")' \in BOOLEAN /\ ClosedBy("client") \in BOOLEAN
            /\ ClosedBy("client") => ClosedBy("client")'
        BY <3>1 DEF WritesOn
      <4>2. CASE side'["client"].put = side["client"].put
        BY <4>1, <4>2 DEF ToServer!Close
      <4>3. CASE side'["client"].put # side["client"].put
        <5>1. ~ClosedBy("client") /\ ToServer!IsPrefix(side["client"].put, side'["client"].put)
          BY <3>1, <4>3, PrefixIs DEF WritesOn
        <5> QED
          BY <4>1, <4>3, <5>1 DEF ToServer!Put
      <4> QED
        BY <4>2, <4>3
    <3>3. [CNext]_cvars
      <4>1. /\ side'["server"].put = side["server"].put /\ ClosedBy("server")' = ClosedBy("server")
            /\ EndedFrom("server")' \in BOOLEAN /\ EndedFrom("server") \in BOOLEAN
            /\ EndedFrom("server") => EndedFrom("server")'
            /\ EndedFrom("server")' => ClosedBy("server") /\ side'["client"].got = side["server"].put
        BY <3>1 DEF ReadsOn
      <4>2. CASE side'["client"].got = side["client"].got
        BY <4>1, <4>2 DEF ToClient!End
      <4>3. CASE side'["client"].got # side["client"].got
        <5>1. /\ ~EndedFrom("server") /\ ToClient!IsPrefix(side["client"].got, side'["client"].got)
              /\ ToClient!IsPrefix(side'["client"].got, side["server"].put)
          BY <3>1, <4>3, PrefixIs DEF ReadsOn
        <5> QED
          BY <4>1, <4>3, <5>1 DEF ToClient!Deliver
      <4> QED
        BY <4>2, <4>3
    <3> QED
      BY <2>1, <3>1, <3>2, <3>3 DEF FlowsInv
  <2>5. CASE Went("server")
    <3>1. FlowInv' /\ WritesOn("server") /\ ReadsOn("server") /\ Other("server") = "client"
      BY <2>3, <2>5 DEF Ends, Other
    <3>2. [CNext]_cvars
      <4>1. /\ side'["client"].got = side["client"].got /\ EndedFrom("server")' = EndedFrom("server")
            /\ ClosedBy("server")' \in BOOLEAN /\ ClosedBy("server") \in BOOLEAN
            /\ ClosedBy("server") => ClosedBy("server")'
        BY <3>1 DEF WritesOn
      <4>2. CASE side'["server"].put = side["server"].put
        BY <4>1, <4>2 DEF ToClient!Close
      <4>3. CASE side'["server"].put # side["server"].put
        <5>1. ~ClosedBy("server") /\ ToClient!IsPrefix(side["server"].put, side'["server"].put)
          BY <3>1, <4>3, PrefixIs DEF WritesOn
        <5> QED
          BY <4>1, <4>3, <5>1 DEF ToClient!Put
      <4> QED
        BY <4>2, <4>3
    <3>3. [SNext]_svars
      <4>1. /\ side'["client"].put = side["client"].put /\ ClosedBy("client")' = ClosedBy("client")
            /\ EndedFrom("client")' \in BOOLEAN /\ EndedFrom("client") \in BOOLEAN
            /\ EndedFrom("client") => EndedFrom("client")'
            /\ EndedFrom("client")' => ClosedBy("client") /\ side'["server"].got = side["client"].put
        BY <3>1 DEF ReadsOn
      <4>2. CASE side'["server"].got = side["server"].got
        BY <4>1, <4>2 DEF ToServer!End
      <4>3. CASE side'["server"].got # side["server"].got
        <5>1. /\ ~EndedFrom("client") /\ ToServer!IsPrefix(side["server"].got, side'["server"].got)
              /\ ToServer!IsPrefix(side'["server"].got, side["client"].put)
          BY <3>1, <4>3, PrefixIs DEF ReadsOn
        <5> QED
          BY <4>1, <4>3, <5>1 DEF ToServer!Deliver
      <4> QED
        BY <4>2, <4>3
    <3> QED
      BY <2>1, <3>1, <3>2, <3>3 DEF FlowsInv
  <2> QED
    BY <2>2, <2>4, <2>5, FlowSteps DEF Ends
<1> QED
  BY <1>1, FlowStarts, PTL DEF Spec, DirectionsAreChannels, ToServer!ChannelSpec, ToClient!ChannelSpec
=============================================================================
