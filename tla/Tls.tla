--------------------------------- MODULE Tls ---------------------------------
(***************************************************************************)
(* tls.TLSSocket (globals.cpp) over OpenSSL (tls.cpp) over net.Socket: a   *)
(* client and the socket a tls server makes of an accepted connection,     *)
(* with the handshake, the ring of fixed size between the network and      *)
(* SSL, the write queue, close_notify, half-close and destroy.             *)
(*                                                                         *)
(* A record is <<kind, n>> and takes two bytes, so that a read may cut it  *)
(* and the ring may fill in the middle of one.  Both ends live on one      *)
(* event loop: a callback runs in several steps, between which only the    *)
(* listeners it calls act.  SIGPIPE is ignored, as in Socket.              *)
(***************************************************************************)
EXTENDS Naturals, Sequences, FiniteSets, SequencesExt

CONSTANTS
  Ring,        \* bytes between the network and SSL, each way (32 KB)
  ReadSize,    \* most bytes one read of the raw socket returns (64 KB)
  KernelSize,  \* bytes the kernel holds for the peer
  WriteSizes,  \* lengths of the chunks that are written, in records
  MaxWrites,   \* bound: writes of each end
  MaxDestroys, \* bound: destroy() calls
  EndsEarly    \* whether scripts call end() before the handshake is done

ASSUME TlsAssumption ==
  /\ {Ring, ReadSize, KernelSize} \subseteq Nat \ {0} /\ Ring >= 2
  /\ WriteSizes \subseteq Nat \ {0} /\ {MaxWrites, MaxDestroys} \subseteq Nat
  /\ EndsEarly \in BOOLEAN

VARIABLES
  side,     \* the state of each end, down to what its kernel holds for the other
  version,  \* the protocol that is negotiated
  accepts,  \* the client accepts the server's certificate (or does not ask)
  backlog,  \* the connection waits for accept()
  listener, \* the server's listening descriptor
  destroys

vars == <<side, version, accepts, backlog, listener, destroys>>

Ends == {"client", "server"}
Other(e) == IF e = "client" THEN "server" ELSE "client"
Fin == <<"fin", 0>>
Bytes(records) == [i \in 1..2 * Len(records) |-> records[(i + 1) \div 2]]

Side(conn) ==
  [conn |-> conn,         \* _connId: the SSL object and its rings exist
   open |-> FALSE,        \* _handshakeDone
   writable |-> FALSE, destroyed |-> FALSE, closing |-> FALSE,
   ended |-> FALSE,       \* _endEmitted
   queue |-> << >>,       \* _writeQueue
   task |-> "idle", chunk |-> << >>, last |-> TRUE,  \* the callback that runs
   stage |-> "start", part |-> << >>, ring |-> << >>, \* SSL: handshake, partial record, input
   notified |-> FALSE,    \* SSL has seen close_notify
   stuck |-> FALSE,       \* SSL holds the rest of a record that did not fit
   raw |-> "new",         \* the net.Socket: "new", "connecting", "up", "destroyed"
   rawReadable |-> FALSE, rawWritable |-> FALSE,
   sendq |-> << >>,       \* its _writeQueue
   draining |-> FALSE,    \* end() waits for the queue
   finTimer |-> FALSE, finned |-> FALSE,
   out |-> << >>,         \* bytes in the kernel, for the other end
   put |-> << >>, got |-> << >>, \* history: data written, and emitted
   cut |-> FALSE]         \* history: data was dropped by destroy()

----------------------------------------------------------------------------
(* The raw socket *)
Smaller(a, b) == IF a < b THEN a ELSE b
\* net.Socket.end(), once its queue is empty.
Finish(x) == IF x.draining /\ x.sendq = << >>
             THEN [x EXCEPT !.draining = FALSE, !.rawWritable = FALSE, !.finTimer = TRUE] ELSE x
\* What the kernel has room for goes, the rest is queued.
Sends(x) == LET n == Smaller(Len(x.sendq), KernelSize - Smaller(Len(x.out), KernelSize))
            IN  Finish([x EXCEPT !.out = @ \o SubSeq(x.sendq, 1, n),
                                 !.sendq = SubSeq(@, n + 1, Len(@))])
RawWrite(x, bytes) == IF ~x.rawWritable THEN x ELSE Sends([x EXCEPT !.sendq = @ \o bytes])
RawEnd(x) == IF x.raw = "destroyed" THEN x ELSE Finish([x EXCEPT !.draining = TRUE])
RawFin(x) == IF x.finned THEN x ELSE [x EXCEPT !.finned = TRUE, !.out = Append(@, Fin)]
RawDestroy(x) ==
  IF x.raw = "destroyed" THEN x
  ELSE LET y == [x EXCEPT !.raw = "destroyed", !.rawReadable = FALSE, !.rawWritable = FALSE,
                          !.cut = @ \/ x.sendq # << >> \/ x.queue # << >>, !.sendq = << >>,
                          !.draining = FALSE, !.finTimer = FALSE]
       IN  IF x.raw \in {"connecting", "up"} THEN RawFin(y) ELSE y

(* The TLS socket *)
FreeConn(x) == [x EXCEPT !.conn = FALSE, !.part = << >>, !.ring = << >>]
\* destroy(), which the raw socket's 'close' also calls.
Destroy(x) ==
  IF x.destroyed THEN x
  ELSE RawDestroy(FreeConn([x EXCEPT !.destroyed = TRUE, !.writable = FALSE]))
EmitEnd(x) == [x EXCEPT !.ended = TRUE]
AfterEof(x) == IF ~x.writable THEN Destroy(EmitEnd(x)) ELSE EmitEnd(x)

\* SSL_write and the flush: what does not fit into the ring stays in SSL,
\* _sslWriteAll gives up, and the next SSL_write fails.
SslWriteAll(x, records) ==
  LET bytes == Bytes(records)
  IN  IF ~x.conn THEN x
      ELSE IF x.stuck THEN Destroy(x)
      ELSE IF Len(bytes) <= Ring THEN RawWrite(x, bytes)
      ELSE RawWrite([x EXCEPT !.stuck = TRUE], SubSeq(bytes, 1, Ring))
Flush(x, kind) == RawWrite(x, Bytes(<<<<kind, 0>>>>))

Idle(x) == x.task = "idle"
\* The listeners of e may act: nothing runs, or e has just emitted to them.
\* A server has its TLSSocket from 'secureConnection' only.
Acts(e) == /\ Idle(side[Other(e)]) /\ side[e].task \in {"idle", "told"}
           /\ e = "server" => side[e].open
Becomes(e, x) == side' = [side EXCEPT ![e] = x]

\* write(): before the handshake is done it queues.
Queues(x) == ~x.open
Write(e) ==
  /\ Acts(e) /\ side[e].conn /\ Len(side[e].put) < MaxWrites
  /\ \E k \in WriteSizes :
       LET x == side[e]
           data == [i \in 1..k |-> <<"data", Len(x.put) + i>>]
           y == [x EXCEPT !.put = @ \o data]
       IN  /\ x.open => x.writable
           /\ Becomes(e, IF Queues(x) THEN [y EXCEPT !.queue = Append(@, data)]
                         ELSE IF x.writable THEN SslWriteAll(y, data) ELSE y)
  /\ UNCHANGED <<version, accepts, backlog, listener, destroys>>

\* end(): close_notify, and the end of the raw socket.
End(e) ==
  /\ Acts(e) /\ side[e].raw = "up" /\ ~side[e].closing
  /\ side[e].open \/ EndsEarly
  /\ LET x == side[e]
         y == IF x.conn /\ x.open THEN [IF x.stuck THEN x ELSE Flush(x, "close") EXCEPT !.closing = TRUE] ELSE x
     IN  Becomes(e, RawEnd([y EXCEPT !.writable = FALSE]))
  /\ UNCHANGED <<version, accepts, backlog, listener, destroys>>
UserDestroys(e) ==
  /\ Acts(e) /\ (side[e].conn \/ side[e].raw = "connecting") /\ destroys < MaxDestroys
  /\ Becomes(e, Destroy(side[e])) /\ destroys' = destroys + 1
  /\ UNCHANGED <<version, accepts, backlog, listener>>

----------------------------------------------------------------------------
(* The server listens, the client connects *)
Quiet == \A e \in Ends : Idle(side[e])

\* The natives leave the descriptor in one of these states; bind() and listen()
\* throw when they fail, and nobody closes it.
SocketCreate == "made"
Bind(fd) == {fd, "bound"}
NativeListen(fd) == {fd, "listening"}
\* A certificate or a key that cannot be used, or that do not fit: tls.createServer throws.
CreateServerCtx(certificate, key, fit) == certificate /\ key /\ fit

Listen ==
  /\ Quiet /\ listener = "none"
  /\ \E certificate, key, fit \in BOOLEAN :
       IF CreateServerCtx(certificate, key, fit)
       THEN \E fd \in Bind(SocketCreate) :
              listener' \in IF fd = "bound" THEN NativeListen(fd) ELSE {fd}
       ELSE listener' = "none"
  /\ UNCHANGED <<side, version, accepts, backlog, destroys>>

RawUp(x) == [x EXCEPT !.raw = "up", !.rawReadable = TRUE, !.rawWritable = TRUE]
CreateConn(x) == [x EXCEPT !.conn = TRUE]
Up(x) == [CreateConn(RawUp(x)) EXCEPT !.task = "drive"]
NativeConnect == {"wouldBlock", "errno"} \cup IF listener = "listening" THEN {"done"} ELSE {}
\* The connection is made and waits in the backlog, is on its way, or is refused.
Connect ==
  /\ Quiet /\ side["client"].raw = "new"
  /\ \E r \in NativeConnect :
       /\ \/ r = "done" /\ Becomes("client", Up(side["client"]))
          \/ r = "wouldBlock" /\ Becomes("client", [side["client"] EXCEPT !.raw = "connecting"])
          \/ r = "errno" /\ Becomes("client", Destroy(side["client"]))
       /\ backlog' = (r # "errno" /\ listener = "listening")
  /\ UNCHANGED <<version, accepts, listener, destroys>>
\* The descriptor is writable: SO_ERROR tells whether the connection was made.
GetError == IF backlog \/ side["server"].raw # "new" THEN 0 ELSE 61
ConnectOver ==
  /\ Quiet /\ side["client"].raw = "connecting"
  /\ Becomes("client", IF GetError = 0 THEN Up(side["client"]) ELSE Destroy(side["client"]))
  /\ UNCHANGED <<version, accepts, backlog, listener, destroys>>
\* net.Server accepts until there is none, and the tls server wraps each socket.
NativeAccept == listener = "listening" /\ backlog
Accept ==
  /\ Quiet /\ NativeAccept /\ backlog' = FALSE
  /\ Becomes("server", Up(side["server"]))
  /\ UNCHANGED <<version, accepts, listener, destroys>>
\* close() of the server: the kernel resets what was not accepted.  (There is one
\* connection: closing after it was accepted has no effect on it and is left out.)
CloseServer ==
  /\ Quiet /\ listener = "listening" /\ side["server"].raw = "new"
  /\ listener' = "closed" /\ backlog' = FALSE
  /\ side' = IF backlog THEN [side EXCEPT !["server"].raw = "destroyed", !["server"].destroyed = TRUE]
             ELSE side
  /\ UNCHANGED <<version, accepts, destroys>>

----------------------------------------------------------------------------
(* The raw socket's events *)
Arrived(e) == side[Other(e)].out
Reads(e, n) == [side EXCEPT ![Other(e)].out = SubSeq(@, n + 1, Len(@))]

RawData(e) ==
  /\ Quiet /\ side[e].rawReadable
  /\ \E n \in 1..Smaller(ReadSize, Len(Arrived(e))) :
       /\ Arrived(e)[n] # Fin
       /\ side' = [Reads(e, n) EXCEPT ![e].task = "feed", ![e].chunk = SubSeq(Arrived(e), 1, n)]
  /\ UNCHANGED <<version, accepts, backlog, listener, destroys>>
\* 'end' of the raw socket: it is the end here, with close_notify or without.
RawEof(e) ==
  /\ Quiet /\ side[e].rawReadable /\ Arrived(e) # << >> /\ Head(Arrived(e)) = Fin
  /\ LET y == AfterEof([side[e] EXCEPT !.rawReadable = FALSE])
     IN  side' = [Reads(e, 1) EXCEPT ![e] = IF ~y.rawWritable THEN Destroy(RawDestroy(y)) ELSE y]
  /\ UNCHANGED <<version, accepts, backlog, listener, destroys>>
\* What e sent came after the peer closed: the connection is reset.
RawReset(e) ==
  /\ Quiet /\ side[e].raw = "up" /\ side[Other(e)].raw = "destroyed"
  /\ side[e].rawReadable \/ side[e].sendq # << >>     \* a watcher sees it
  /\ \E i \in DOMAIN side[e].out : side[e].out[i] # Fin
  /\ Becomes(e, Destroy(side[e]))
  /\ UNCHANGED <<version, accepts, backlog, listener, destroys>>
RawWritable(e) ==
  /\ Quiet /\ side[e].sendq # << >> /\ Len(side[e].out) < KernelSize
  /\ Becomes(e, Sends(side[e]))
  /\ UNCHANGED <<version, accepts, backlog, listener, destroys>>
\* The timer that end() of the raw socket has set.
BothShut_Half(x) == x   \* Mutant: the descriptor stays when both directions are shut
BothShut(x) == IF ~x.rawReadable THEN Destroy(RawDestroy(x)) ELSE x
RawShutdown(e) ==
  /\ Quiet /\ side[e].finTimer
  /\ Becomes(e, BothShut(RawFin([side[e] EXCEPT !.finTimer = FALSE])))
  /\ UNCHANGED <<version, accepts, backlog, listener, destroys>>

----------------------------------------------------------------------------
(* _onRawData *)
Runs(e, task) == side[e].task = task
\* A handshake() or pump that has to wait: on with the chunk, unless it was the last.
Return(x) == [x EXCEPT !.task = IF @ = "idle" \/ x.last \/ x.destroyed THEN "idle" ELSE "feed",
                       !.last = TRUE, !.chunk = IF x.last \/ x.destroyed THEN << >> ELSE @]

\* Into the ring as much as it has room for; when it is full SSL makes room.
Fed_All(x) == Len(x.chunk)   \* Mutant: what bioWrite did not take is lost
Fed(x) == Smaller(Len(x.chunk), Ring - Len(x.ring))
Feed(e) ==
  /\ Runs(e, "feed")
  /\ LET x == side[e]
         n == Smaller(Len(x.chunk), Ring - Len(x.ring))
     IN  Becomes(e, IF x.chunk # << >> /\ n > 0
                    THEN [x EXCEPT !.ring = @ \o SubSeq(x.chunk, 1, n),
                                   !.chunk = SubSeq(@, Fed(x) + 1, Len(@))]
                    ELSE [x EXCEPT !.task = IF x.open THEN "pump" ELSE "drive", !.last = (x.chunk = << >>)])
  /\ UNCHANGED <<version, accepts, backlog, listener, destroys>>

\* SSL takes bytes from the ring until it has a record.
Input(x) == x.part \o x.ring
HasRecord(x) == Len(Input(x)) >= 2
Record(x) == Input(x)[1]
Took(x) == IF HasRecord(x) THEN [x EXCEPT !.part = << >>, !.ring = SubSeq(Input(x), 3, Len(Input(x)))]
           ELSE [x EXCEPT !.part = Input(x), !.ring = << >>]

\* handshake() has succeeded: the queue is written, one write at a time, and then
\* the listeners are told.
Connected(x) == [x EXCEPT !.open = TRUE, !.writable = TRUE, !.stage = "done", !.task = "pending"]
Pending(e) ==
  /\ Runs(e, "pending")
  /\ LET x == side[e]
     IN  Becomes(e, IF x.queue = << >> THEN [x EXCEPT !.task = "told"]
                    ELSE SslWriteAll([x EXCEPT !.queue = Tail(@)], Head(x.queue)))
  /\ UNCHANGED <<version, accepts, backlog, listener, destroys>>

\* What SSL_do_handshake makes of a record.
Handshake(e, x, kind) ==
  IF <<e, x.stage, kind>> = <<"server", "start", "hello">>
  THEN [Flush(x, "flight") EXCEPT !.stage = "flight"]
  ELSE IF <<e, x.stage, kind>> = <<"client", "hello", "flight">>
  THEN IF ~accepts THEN Return(Destroy(Flush(x, "alert")))
       ELSE IF version = "1.3" THEN Connected(Flush(x, "finished"))
       ELSE [Flush(x, "finished") EXCEPT !.stage = "finished"]
  ELSE IF <<e, x.stage, kind>> = <<"server", "flight", "finished">>
  THEN Connected(IF version = "1.2" THEN Flush(x, "confirm") ELSE x)
  ELSE IF <<e, x.stage, kind>> = <<"client", "finished", "confirm">> THEN Connected(x)
  ELSE Return(Destroy(x))
\* _driveHandshake, one record at a time.
Drive(e) ==
  /\ Runs(e, "drive")
  /\ LET x == side[e]
     IN  Becomes(e, IF ~x.conn THEN Return(x)
                    ELSE IF e = "client" /\ x.stage = "start" THEN [Flush(x, "hello") EXCEPT !.stage = "hello"]
                    ELSE IF ~HasRecord(x) THEN Return(Took(x))
                    ELSE Handshake(e, Took(x), Record(x)[1]))
  /\ UNCHANGED <<version, accepts, backlog, listener, destroys>>

\* Whether the loop goes on after the listeners.
Live_Unchecked(x) == TRUE   \* Mutant: a listener that destroyed the socket is not noticed
Live(x) == ~x.destroyed /\ x.conn
Told(e) ==
  /\ Runs(e, "told") /\ Idle(side[Other(e)])
  /\ Becomes(e, IF Live(side[e]) THEN [side[e] EXCEPT !.task = "pump"] ELSE Return(side[e]))
  /\ UNCHANGED <<version, accepts, backlog, listener, destroys>>
\* _pumpRead, one sslRead at a time.
Pump(e) ==
  /\ Runs(e, "pump")
  /\ LET x == side[e]
     IN  Becomes(e, IF x.notified THEN Return(AfterEof(x))
                    ELSE IF ~HasRecord(x) THEN Return(Took(x))
                    ELSE IF Record(x)[1] = "data"
                    THEN [Took(x) EXCEPT !.got = Append(@, Record(x)), !.task = "told"]
                    ELSE IF Record(x)[1] = "close"
                    THEN Return(AfterEof([Took(x) EXCEPT !.notified = TRUE]))
                    ELSE Return(Destroy(x)))
  /\ UNCHANGED <<version, accepts, backlog, listener, destroys>>

----------------------------------------------------------------------------
\* createClientCtx() and setServername(): whether the peer is verified, by a CA that
\* the client has, and whether its certificate is for the host that was asked for.
ClientCtx == [verifies : BOOLEAN, trusts : BOOLEAN]
Accepts(ctx, host) == ctx.verifies => ctx.trusts /\ host

Init ==
  /\ side = [e \in Ends |-> Side(e = "client")]
  /\ version \in {"1.2", "1.3"}
  /\ accepts \in {Accepts(ctx, host) : ctx \in ClientCtx, host \in BOOLEAN}
  /\ backlog = FALSE /\ listener = "none" /\ destroys = 0

User(e) == Write(e) \/ End(e) \/ UserDestroys(e)
Loop(e) == RawData(e) \/ RawEof(e) \/ RawReset(e) \/ RawWritable(e) \/ RawShutdown(e)
Callback(e) == Feed(e) \/ Drive(e) \/ Pending(e) \/ Told(e) \/ Pump(e)
Next ==
  \/ Listen \/ Connect \/ ConnectOver \/ Accept \/ CloseServer
  \/ \E e \in Ends : User(e) \/ Loop(e) \/ Callback(e)

\* The loop serves every event, and callbacks return.
Fairness ==
  /\ WF_vars(Connect) /\ WF_vars(ConnectOver) /\ WF_vars(Accept)
  /\ \A e \in Ends : WF_vars(Callback(e)) /\ WF_vars(RawData(e)) /\ WF_vars(RawEof(e))
                     /\ WF_vars(RawReset(e)) /\ WF_vars(RawWritable(e)) /\ WF_vars(RawShutdown(e))
Spec == Init /\ [][Next]_vars /\ Fairness

----------------------------------------------------------------------------
(* Properties *)
\* Each direction is a channel: data is emitted as it was written, in order and
\* once, through rings that fill, records that are cut and writes before the
\* handshake; and 'end' comes after all of it, unless the writer's destroy()
\* dropped data that the kernel had not taken.
ClosedBy(e) == side[e].closing \/ side[e].destroyed
EndedFrom(e) == side[Other(e)].ended /\ ~side[e].cut
ToServer == INSTANCE Channel WITH put <- side["client"].put, got <- side["server"].got,
                                  closed <- ClosedBy("client"), ended <- EndedFrom("client")
ToClient == INSTANCE Channel WITH put <- side["server"].put, got <- side["client"].got,
                                  closed <- ClosedBy("server"), ended <- EndedFrom("server")
DirectionsAreChannels == ToServer!ChannelSpec /\ ToClient!ChannelSpec

\* SSL is only called while its object exists, whatever listeners destroy.
NoCallAfterFree ==
  \A e \in Ends : side[e].task \in {"feed", "drive", "pump"} \/ side[e].rawReadable => side[e].conn

\* When both ends are done, by end() or destroyed, both are destroyed in the end,
\* and with them the SSL objects and descriptors; so is a client whose connection
\* the server closed on before it accepted.
NeverAccepted == side["server"].destroyed /\ ~side["server"].finned
BothEndsClose ==
  /\ NeverAccepted ~> side["client"].destroyed
  /\ \A e \in Ends : side[e].closing /\ (side[Other(e)].closing \/ side[Other(e)].destroyed)
                     ~> side[e].destroyed

----------------------------------------------------------------------------
(* What makes NoCallAfterFree inductive. *)
\* A raw socket that is up has its SSL object, and only such a one reads or runs a
\* callback that calls SSL; the two are destroyed together.
SideInv(x) ==
  /\ x.raw \in {"new", "connecting", "up", "destroyed"}
  /\ x.raw = "destroyed" <=> x.destroyed
  /\ x.raw = "up" => x.conn
  /\ x.raw # "up" => ~x.rawReadable /\ ~x.rawWritable /\ ~x.finTimer /\ x.sendq = << >>
                     /\ x.task \in {"idle", "pending", "told"}
  /\ x.raw \in {"new", "connecting"} => x.task = "idle" /\ ~x.open
AliveInv ==
  /\ \A e \in Ends : SideInv(side[e])
  /\ backlog => side["client"].raw # "new" /\ side["server"].raw = "new"
  /\ side["client"].raw = "new" => side["server"].raw = "new"

----------------------------------------------------------------------------
(* What makes DirectionsAreChannels inductive, if every write fits into the ring and
   end() waits for the handshake. *)
FitsRing == ~EndsEarly /\ \A k \in WriteSizes : 2 * k <= Ring

Records == {"hello", "flight", "finished", "confirm", "alert", "close", "data"} \X Nat
Numbered(a, n) == [i \in 1..n |-> <<"data", a + i>>]

\* What an end agrees on with its raw socket, in the middle of a callback as well.
Typed(x) ==
  /\ {x.part, x.ring, x.chunk, x.sendq, x.put, x.got} \subseteq Seq(Records)
  /\ x.out \in Seq(Records \cup {Fin})
  /\ x.queue \in Seq(Seq(Records))
  /\ \A j \in DOMAIN x.queue : 2 * Len(x.queue[j]) <= Ring
  /\ Len(x.part) <= 1 /\ Len(x.ring) <= Ring
Linked(x) ==
  /\ ~x.stuck
  /\ x.writable => x.open /\ x.raw = "up"
  /\ x.closing => x.open /\ ~x.writable
  /\ x.raw = "up" /\ ~x.closing => x.rawWritable
  /\ x.draining => x.closing
  /\ ~x.rawWritable => x.sendq = << >>
  /\ x.finTimer \/ x.finned => ~x.rawWritable
  /\ x.finned => x.raw \in {"up", "destroyed"}
  /\ \A i \in DOMAIN x.out : x.out[i] = Fin => i = Len(x.out) /\ x.finned
  /\ x.cut => x.destroyed
  /\ x.destroyed => ~x.conn
  /\ x.destroyed /\ ~x.cut => x.queue = << >>
  /\ x.notified => x.ended

\* What the callback that runs may rely on.
Working(x) ==
  /\ x.task = "idle" \/ (x.last /\ x.task # "feed") => x.chunk = << >>
  /\ x.task = "idle" /\ x.conn /\ ~x.notified => ~HasRecord(x)
  /\ x.task = "pending" => x.writable
  /\ x.open => x.task # "drive" /\ (x.task # "pending" => x.queue = << >>)

\* The bytes on their way from x to the SSL of y, without the FIN.
Bare(q) == IF q # << >> /\ q[Len(q)] = Fin THEN SubSeq(q, 1, Len(q) - 1) ELSE q
Way(x, y) == y.part \o (y.ring \o (y.chunk \o (Bare(x.out) \o x.sendq)))

\* h records of the handshake, the data after m up to k, and c times close_notify: what
\* is on its way is the bytes of these, or their beginning.
Carried(w, m, k, h, c) ==
  /\ Len(w) <= 2 * (h + (k - m) + c)
  /\ \A j \in 1..Len(w) : 2 * j - 1 <= Len(w) =>
       LET r == w[2 * j - 1]
       IN  /\ j <= h => r[1] \notin {"data", "close"}
           /\ j > h /\ j <= h + (k - m) => r = <<"data", m + (j - h)>>
           /\ j > h + (k - m) => r[1] = "close"
\* The chunks that wait for the handshake are the data after k.
Waits(q, k, p) ==
  /\ q = << >> => k = p
  /\ \A j \in DOMAIN q : /\ q[j] # << >> /\ q[j] = Numbered(q[j][1][2] - 1, Len(q[j]))
                          /\ q[j][1][2] - 1 + Len(q[j]) <= p
  /\ q # << >> => q[1][1][2] = k + 1 /\ q[Len(q)][1][2] - 1 + Len(q[Len(q)]) = p
  /\ \A j \in 1..(Len(q) - 1) : q[j + 1][1][2] = q[j][1][2] + Len(q[j])

Flow(x, y) ==
  /\ x.put = Numbered(0, Len(x.put))
  /\ Len(y.got) <= Len(x.put) /\ y.got = Numbered(0, Len(y.got))
  /\ y.ended /\ ~x.cut => /\ x.closing \/ x.destroyed
                          /\ x.sendq = << >> /\ x.queue = << >> /\ Len(y.got) = Len(x.put)
  /\ ~y.destroyed => \E k \in Len(y.got)..Len(x.put), c \in {0, 1} :
       \E h \in 0..Len(Way(x, y)) :
         /\ Carried(Way(x, y), Len(y.got), k, h, c)
         /\ ~x.open => k = 0
         /\ c = 1 => x.closing
         /\ ~x.cut => Len(Way(x, y)) = 2 * (h + (k - Len(y.got)) + c) /\ Waits(x.queue, k, Len(x.put))

FlowInv ==
  /\ \A e \in Ends : /\ Typed(side[e]) /\ Linked(side[e]) /\ Working(side[e])
                     /\ Flow(side[e], side[Other(e)])
  /\ side["server"].raw = "new" => ~side["server"].conn /\ side["server"].queue = << >>
=============================================================================
