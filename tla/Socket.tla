-------------------------------- MODULE Socket --------------------------------
(***************************************************************************)
(* net.Socket (globals.cpp) on the loop of EventLoop: connect, the write   *)
(* queue, half-close by end(), and destroy, against a peer and a kernel    *)
(* that may refuse, stall, half-close and reset the connection.            *)
(*                                                                         *)
(* Events are emitted to listeners synchronously, and a listener may call  *)
(* the socket again.  The JavaScript call stack is therefore a variable: a *)
(* sequence of frames, innermost first, each the rest of a library         *)
(* function, or code of the script.                                        *)
(*                                                                         *)
(* A script connects a socket once.  Listeners do not throw, 'error' has   *)
(* one, and SIGPIPE is ignored (DoSpawn ignores it, net.cpp does not).     *)
(***************************************************************************)
EXTENDS EventLoop

CONSTANTS
  SendBuffer,  \* bytes the kernel buffers for the peer
  WriteSizes,  \* lengths of the chunks scripts write
  MaxCalls,    \* bound: write(), end() and setTimeout() calls of the script
  MaxFromPeer  \* bound: chunks the peer sends

ASSUME SocketAssumption ==
  /\ SendBuffer \in Nat \ {0}
  /\ WriteSizes \subseteq Nat \ {0}
  /\ MaxCalls \in Nat
  /\ MaxFromPeer \in Nat

VARIABLES
  stack,      \* what runs now, and whom it returns to
  sock,       \* the fields of the socket
  queue,      \* _writeQueue; the bytes of an item are from .. to
  finishers,  \* end() calls whose finish() waits for 'drain', in that order
  shutTimers, \* timers that finish() has set
  calls,      \* calls the script has made
  accepted,   \* history: bytes write() has queued
  sent,       \* history: bytes the kernel has taken
  endedAt,    \* history: accepted when end() was first called
  unselected, \* history: the kernel holds bytes and select() was not called since
  tcp,        \* the connection in the kernel
  fromPeer    \* chunks the peer has sent

history == <<accepted, sent, endedAt, unselected>>
socketVars == <<stack, sock, queue, finishers, shutTimers, calls, history>>
tcpVars == <<tcp, fromPeer>>
sockAll == <<vars, socketVars, tcpVars>>

-----------------------------------------------------------------------------
NoFd == -1
NoWatch == 0
NotEnded == -1
EndedEarly == -2 \* end() came before the connection was up

Frame(what) == [what |-> what, call |-> 0]
Finish(k) == [what |-> "finish", call |-> k]
User == Frame("user")

Frames == [what : {"user", "read", "ended", "failed", "connected", "writable", "flush",
                   "finish", "shutdown", "finished"},
           call : Nat]

SocketInit ==
  /\ Init
  /\ stack = <<User>>
  /\ sock = [fd |-> NoFd, readWatch |-> NoWatch, writeWatch |-> NoWatch,
             connecting |-> FALSE, destroyed |-> FALSE,
             readable |-> FALSE, writable |-> FALSE]
  /\ queue = << >> /\ finishers = << >> /\ shutTimers = {}
  /\ calls = 0
  /\ accepted = 0 /\ sent = 0 /\ endedAt = NotEnded /\ unselected = FALSE
  /\ tcp = [state |-> "none", buffered |-> 0, inbox |-> 0, peerFin |-> FALSE,
            finSent |-> FALSE]
  /\ fromPeer = 0

Running(what) == js # "idle" /\ stack # << >> /\ Head(stack).what = what

\* The frame that runs ends and these come in its place.  Two frames of the script
\* in a row are one.
Then(frames) ==
  LET rest == Tail(stack)
  IN stack' = IF /\ frames # << >> /\ Last(frames) = User
                 /\ rest # << >> /\ Head(rest) = User
              THEN Front(frames) \o rest
              ELSE frames \o rest

\* What select() would find for the socket.
Readiness(fd, t) ==
  {<<fd, e>> : e \in
     (IF t.inbox > 0 \/ t.peerFin \/ t.state \in {"refused", "reset"} THEN {"r"} ELSE {})
     \cup
     (IF t.state \in {"refused", "reset"} \/ (t.state = "up" /\ t.buffered < SendBuffer)
      THEN {"w"} ELSE {})}

TcpBecomes(t) ==
  /\ tcp' = t
  /\ ready' = IF sock.fd \in open THEN Readiness(sock.fd, t) ELSE {}

\* ioUnwatch(the ids), then ioWatch for these events on fd.
Rewatches(ids, fd, masks) ==
  /\ watchers' = {IF w.id \in ids THEN [w EXCEPT !.alive = FALSE] ELSE w : w \in watchers}
       \cup {[id |-> nextWatcherId, fd |-> fd, events |-> m, alive |-> TRUE] : m \in masks}
  /\ watcherCbs' = (watcherCbs \ ids) \cup {nextWatcherId : m \in masks}
  /\ nextWatcherId' = IF masks = {} THEN nextWatcherId ELSE nextWatcherId + 1

\* All of EventLoop but the watchers, their callbacks and the descriptors.
LoopRest == <<control, children, sigchldSeen, handler, iteration, childCbs, micro, processes>>
Watching == <<watchers, watcherCbs, nextWatcherId>>

-----------------------------------------------------------------------------
(* connect() *)

OnConnected ==
  [sock EXCEPT !.connecting = FALSE, !.readable = TRUE, !.writable = TRUE,
               !.readWatch = nextWatcherId, !.writeWatch = NoWatch]

\* connect(), or the constructor with the descriptor of an accepted connection,
\* which emits nothing and flushes an empty queue.
Connect ==
  /\ Running("user") /\ tcp.state = "none" /\ ~sock.destroyed
  /\ \E fd \in Fds \ open :
       /\ open' = open \cup {fd}
       /\ \E outcome \in {"up", "connecting", "refused"} :
            tcp' = [tcp EXCEPT !.state = outcome]
       /\ ready' = Readiness(fd, tcp')
       /\ CASE tcp'.state = "up" ->
                 /\ sock' = [OnConnected EXCEPT !.fd = fd]
                 /\ Rewatches({}, fd, {{"r"}})
                 /\ stack' = <<Frame("flush"), User>> \o Tail(stack)
            [] tcp'.state = "connecting" ->
                 /\ sock' = [sock EXCEPT !.fd = fd, !.connecting = TRUE,
                                         !.writeWatch = nextWatcherId]
                 /\ Rewatches({}, fd, {{"w"}})
                 /\ UNCHANGED stack
            [] tcp'.state = "refused" ->
                 /\ sock' = [sock EXCEPT !.fd = fd, !.connecting = TRUE]
                 /\ stack' = <<User, Frame("failed")>> \o stack
                 /\ UNCHANGED Watching
  /\ UNCHANGED <<timerVars, LoopRest, queue, finishers, shutTimers, calls, history,
                 fromPeer>>

\* The write watcher of connect(): SO_ERROR tells how it went.
Connected ==
  /\ Running("connected")
  /\ IF tcp.state = "up"
     THEN /\ sock' = OnConnected
          /\ Rewatches({sock.writeWatch}, sock.fd, {{"r"}})
          /\ Then(<<Frame("flush"), User>>)
     ELSE /\ sock' = [sock EXCEPT !.writeWatch = NoWatch]
          /\ Rewatches({sock.writeWatch}, sock.fd, {})
          /\ Then(<<User, Frame("failed")>>)
  /\ UNCHANGED <<timerVars, LoopRest, descriptors, queue, finishers, shutTimers, calls,
                 history, tcpVars>>

-----------------------------------------------------------------------------
(* write() and _flushWriteQueue *)

Write(n) ==
  /\ Running("user") /\ calls < MaxCalls /\ sock.writable
  /\ calls' = calls + 1
  /\ queue' = Append(queue, [from |-> accepted + 1, to |-> accepted + n])
  /\ accepted' = accepted + n
  /\ stack' = <<Frame("flush")>> \o stack
  /\ UNCHANGED <<vars, sock, finishers, shutTimers, sent, endedAt, unselected, tcpVars>>

Writes == Running("flush") /\ queue # << >> /\ sock.writable
Broken == tcp.state # "up" \/ tcp.finSent
Room == SendBuffer - tcp.buffered

Taken(len) == IF len <= Room THEN len ELSE Room

Left_Whole(item, k) == item \* Mutant: the rest is not sliced off
Left(item, k) == [item EXCEPT !.from = @ + k]

\* A full write takes the item off the queue and calls its callback; after a
\* partial one the loop tries again with the rest.
FlushSome ==
  /\ Writes /\ ~Broken /\ Room > 0
  /\ LET item == Head(queue)
         len == item.to - item.from + 1
         k == Taken(len)
     IN /\ sent' = sent + k
        /\ TcpBecomes([tcp EXCEPT !.buffered = @ + k])
        /\ IF k = len
           THEN queue' = Tail(queue) /\ stack' = <<User>> \o stack
           ELSE queue' = <<Left(item, k)>> \o Tail(queue) /\ UNCHANGED stack
  /\ unselected' = TRUE
  /\ UNCHANGED <<timerVars, control, native, iteration, tables, micro, processes, open,
                 sock, finishers, shutTimers, calls, accepted, endedAt, fromPeer>>

NeedsWatch_Always == TRUE \* Mutant: a second watcher
NeedsWatch == sock.writeWatch = NoWatch

FlushBlocks ==
  /\ Writes /\ ~Broken /\ Room = 0
  /\ IF NeedsWatch
     THEN /\ sock' = [sock EXCEPT !.writeWatch = nextWatcherId]
          /\ Rewatches({}, sock.fd, {{"w"}})
     ELSE UNCHANGED <<sock, Watching>>
  /\ Then(<< >>)
  /\ UNCHANGED <<timerVars, LoopRest, descriptors, queue, finishers, shutTimers, calls,
                 history, tcpVars>>

\* EPIPE or ECONNRESET: emit 'error', destroy.
FlushFails ==
  /\ Writes /\ Broken
  /\ Then(<<User, Frame("failed")>>)
  /\ UNCHANGED <<vars, sock, queue, finishers, shutTimers, calls, history, tcpVars>>

\* emit('drain') calls a copy of the listeners: those of the script, wherever it
\* registered them, and the finish() of each waiting end().
DrainListeners ==
  [i \in 1 .. 2 * Len(finishers) + 1 |->
     IF i % 2 = 1 THEN User ELSE Finish(finishers[i \div 2])]

FlushDone ==
  /\ Running("flush") /\ ~Writes
  /\ Then(IF queue = << >> THEN DrainListeners ELSE << >>)
  /\ UNCHANGED <<vars, sock, queue, finishers, shutTimers, calls, history, tcpVars>>

\* The write watcher of _flushWriteQueue.
Writable ==
  /\ Running("writable")
  /\ sock' = [sock EXCEPT !.writeWatch = NoWatch]
  /\ Rewatches({sock.writeWatch}, sock.fd, {})
  /\ Then(<<Frame("flush")>>)
  /\ UNCHANGED <<timerVars, LoopRest, descriptors, queue, finishers, shutTimers, calls,
                 history, tcpVars>>

-----------------------------------------------------------------------------
(* end() *)

\* finish(): setTimeout(shutdown, 0)
SetsShutdown ==
  /\ sock' = [sock EXCEPT !.writable = FALSE]
  /\ TimerEnqueue(0, FALSE)
  /\ shutTimers' = shutTimers \cup {nextTimerId}

MustDrain_Never == FALSE \* Mutant: end() does not look at the queue
MustDrain == queue # << >>

\* end(), without data; with data it is write() before.
End ==
  /\ Running("user") /\ calls < MaxCalls
  /\ calls' = calls + 1
  /\ endedAt' = IF endedAt # NotEnded THEN endedAt
                 ELSE IF sock.writable THEN accepted ELSE EndedEarly
  /\ IF MustDrain
     THEN finishers' = Append(finishers, calls) /\ UNCHANGED <<sock, timerVars, shutTimers>>
     ELSE SetsShutdown /\ UNCHANGED finishers
  /\ UNCHANGED <<loopVars, stack, queue, accepted, sent, unselected, tcpVars>>

\* once(): the wrapper removes itself, but runs again if an outer emit('drain')
\* has it in its copy of the list.
Finishes ==
  /\ Running("finish")
  /\ SetsShutdown
  /\ LET k == Head(stack).call
     IN finishers' = IF \E i \in DOMAIN finishers : finishers[i] = k
                     THEN RemoveAt(finishers, CHOOSE i \in DOMAIN finishers : finishers[i] = k)
                     ELSE finishers
  /\ Then(<< >>)
  /\ UNCHANGED <<loopVars, queue, calls, history, tcpVars>>

\* The timer callback: shutdown(SHUT_WR), which fails silently unless connected,
\* then emit('finish').
Shutdown ==
  /\ Running("shutdown")
  /\ tcp' = IF sock.fd # NoFd /\ tcp.state = "up" THEN [tcp EXCEPT !.finSent = TRUE] ELSE tcp
  /\ Then(<<User, Frame("finished")>>)
  /\ UNCHANGED <<vars, sock, queue, finishers, shutTimers, calls, history, fromPeer>>

-----------------------------------------------------------------------------
(* Reading and destroy() *)

\* The watcher's loop stops if a listener has destroyed the socket.
Reads == Running("read") /\ sock.fd # NoFd

ReadData ==
  /\ Reads /\ tcp.inbox > 0
  /\ TcpBecomes([tcp EXCEPT !.inbox = 0])
  /\ stack' = <<User>> \o stack
  /\ UNCHANGED <<timerVars, control, native, iteration, tables, micro, processes, open,
                 sock, queue, finishers, shutTimers, calls, history, fromPeer>>

ReadEnd ==
  /\ Reads /\ tcp.inbox = 0 /\ tcp.state = "up" /\ tcp.peerFin
  /\ sock' = [sock EXCEPT !.readable = FALSE, !.readWatch = NoWatch]
  /\ Rewatches({sock.readWatch} \ {NoWatch}, sock.fd, {})
  /\ Then(<<User, Frame("ended")>>)
  /\ UNCHANGED <<timerVars, LoopRest, descriptors, queue, finishers, shutTimers, calls,
                 history, tcpVars>>

ReadFails ==
  /\ Reads /\ tcp.inbox = 0 /\ tcp.state # "up"
  /\ Then(<<User, Frame("failed")>>)
  /\ UNCHANGED <<vars, sock, queue, finishers, shutTimers, calls, history, tcpVars>>

ReadReturns ==
  /\ Running("read")
  /\ sock.fd = NoFd \/ (tcp.inbox = 0 /\ tcp.state = "up" /\ ~tcp.peerFin)
  /\ Then(<< >>)
  /\ UNCHANGED <<vars, sock, queue, finishers, shutTimers, calls, history, tcpVars>>

WatchesOf == {sock.readWatch, sock.writeWatch} \ {NoWatch}

\* From here on the kernel is on its own; its buffers no longer matter.
Destroys ==
  /\ sock' = [sock EXCEPT !.fd = NoFd, !.readWatch = NoWatch, !.writeWatch = NoWatch,
                          !.destroyed = TRUE, !.readable = FALSE, !.writable = FALSE]
  /\ Rewatches(WatchesOf, sock.fd, {})
  /\ open' = open \ {sock.fd}
  /\ ready' = {}
  /\ tcp' = [tcp EXCEPT !.state = "closed", !.buffered = 0, !.inbox = 0]
  /\ UNCHANGED <<timerVars, LoopRest, queue, finishers, shutTimers, calls, history,
                 fromPeer>>

\* destroy() of the script, and its listener of 'close'.
Destroy == Running("user") /\ ~sock.destroyed /\ Destroys /\ UNCHANGED stack

ClosesNow_Ended == \* Mutant: only the peer's end closes
  Running("failed") \/ (Running("ended") /\ ~sock.writable)

\* After 'end', 'finish' or 'error': destroy() when nothing is left to do.
ClosesNow ==
  \/ Running("ended") /\ ~sock.writable
  \/ Running("finished") /\ ~sock.readable
  \/ Running("failed")

Closes ==
  /\ Running("ended") \/ Running("finished") \/ Running("failed")
  /\ IF ClosesNow /\ ~sock.destroyed
     THEN Destroys /\ Then(<<User>>)
     ELSE /\ Then(<< >>)
          /\ UNCHANGED <<vars, sock, queue, finishers, shutTimers, calls, history, tcpVars>>

-----------------------------------------------------------------------------
UserTimer ==
  /\ Running("user") /\ calls < MaxCalls
  /\ calls' = calls + 1
  /\ \E d \in Delays : TimerEnqueue(d, FALSE)
  /\ UNCHANGED <<loopVars, stack, sock, queue, finishers, shutTimers, history, tcpVars>>

UserReturns ==
  /\ Running("user") /\ Len(stack) > 1
  /\ Then(<< >>)
  /\ UNCHANGED <<vars, sock, queue, finishers, shutTimers, calls, history, tcpVars>>

CallbackReturns ==
  /\ stack \in {<< >>, <<User>>}
  /\ JsReturn
  /\ stack' = << >>
  /\ UNCHANGED <<sock, queue, finishers, shutTimers, calls, history, tcpVars>>

\* The closure that a watcher or a timer calls.
Callback ==
  CASE js' = "watcher" /\ current' = sock.readWatch -> Frame("read")
    [] js' = "watcher" /\ current' # sock.readWatch ->
         Frame(IF sock.connecting THEN "connected" ELSE "writable")
    [] js' = "timer" /\ firing'.id \in shutTimers -> Frame("shutdown")
    [] OTHER -> User

LoopSteps ==
  /\ LoopStep
  /\ stack' = IF js' = "idle" THEN << >> ELSE <<Callback>>
  /\ unselected' = (unselected /\ pc # "select")
  /\ UNCHANGED <<sock, queue, finishers, shutTimers, calls, accepted, sent, endedAt, tcpVars>>

Library ==
  \/ Connected \/ FlushSome \/ FlushBlocks \/ FlushFails \/ FlushDone \/ Writable
  \/ Finishes \/ Shutdown
  \/ ReadData \/ ReadEnd \/ ReadFails \/ ReadReturns \/ Closes
  \/ UserReturns \/ CallbackReturns
  \/ LoopSteps

-----------------------------------------------------------------------------
(* The kernel and the peer. *)

TcpStep(t) ==
  /\ pc # "exited"
  /\ TcpBecomes(t)
  /\ unselected' = (unselected /\ t.buffered > 0)
  /\ UNCHANGED <<timerVars, control, native, iteration, tables, micro, processes, open,
                 stack, sock, queue, finishers, shutTimers, calls, accepted, sent, endedAt>>

ConnectSettles ==
  /\ tcp.state = "connecting"
  /\ \E outcome \in {"up", "refused"} : TcpStep([tcp EXCEPT !.state = outcome])
  /\ UNCHANGED fromPeer

PeerTakes ==
  /\ tcp.state = "up" /\ tcp.buffered > 0
  /\ TcpStep([tcp EXCEPT !.buffered = 0])
  /\ UNCHANGED fromPeer

PeerSends ==
  /\ tcp.state = "up" /\ ~tcp.peerFin /\ fromPeer < MaxFromPeer
  /\ TcpStep([tcp EXCEPT !.inbox = @ + 1])
  /\ fromPeer' = fromPeer + 1

PeerEnds ==
  /\ tcp.state = "up" /\ ~tcp.peerFin
  /\ TcpStep([tcp EXCEPT !.peerFin = TRUE])
  /\ UNCHANGED fromPeer

PeerResets ==
  /\ tcp.state = "up"
  /\ TcpStep([tcp EXCEPT !.state = "reset"])
  /\ UNCHANGED fromPeer

SocketNext ==
  \/ Connect \/ End \/ Destroy \/ UserTimer
  \/ \E n \in WriteSizes : Write(n)
  \/ Library
  \/ ConnectSettles \/ PeerTakes \/ PeerSends \/ PeerEnds \/ PeerResets
  \/ Exited /\ UNCHANGED <<socketVars, tcpVars>>

\* The process runs and callbacks return.  Nothing is assumed of the peer.
SocketSpec == SocketInit /\ [][SocketNext]_sockAll /\ WF_sockAll(Library)

-----------------------------------------------------------------------------
Tcps == [state : {"none", "connecting", "up", "refused", "reset", "closed"},
         buffered : 0 .. SendBuffer, inbox : Nat, peerFin : BOOLEAN, finSent : BOOLEAN]

Socks == [fd : Fds \cup {NoFd}, readWatch : Nat, writeWatch : Nat,
          connecting : BOOLEAN, destroyed : BOOLEAN, readable : BOOLEAN,
          writable : BOOLEAN]

Items == [from : Nat, to : Nat]

\* The items hold the bytes s + 1 .. a, in order.
Holds(items, s, a) ==
  /\ s <= a
  /\ items = << >> => s = a
  /\ items # << >> => items[1].from = s + 1 /\ items[Len(items)].to = a
  /\ \A i \in 1 .. Len(items) : items[i].from <= items[i].to /\ items[i].to <= a
  /\ \A i \in 1 .. Len(items) - 1 : items[i + 1].from = items[i].to + 1

\* The kernel is given every byte that write() queued once and in order, through
\* partial writes, full buffers and writes from within listeners: the queue holds
\* exactly the bytes after those sent.
SentInOrder == Holds(queue, sent, accepted)

\* The FIN of end() follows all that was written before end(), however the queue
\* drained in between.  (Unless end() came before the connection was up.)
FinAfterData ==
  tcp.finSent /\ endedAt # EndedEarly => endedAt # NotEnded /\ sent >= endedAt

\* What keeps the loop alive on behalf of the socket is known to the socket: the
\* live watchers are the ones it will unwatch, each on its open descriptor, and a
\* destroyed socket has none.
NoOrphanWatcher ==
  /\ AliveIds = {sock.readWatch, sock.writeWatch} \ {NoWatch}
  /\ \A w \in Alive(watchers) : w.fd = sock.fd /\ w.fd \in open
  /\ sock.destroyed => Alive(watchers) = {} /\ open = {}

\* Once both sides have ended the connection the socket closes itself, whichever
\* side was first and whatever was still queued, as long as the peer keeps reading.
\* (Unless end() came before the connection was up.)
BothEndsClose ==
  []<>(tcp.buffered < SendBuffer) =>
    ((endedAt \in Nat /\ tcp.peerFin) ~> sock.destroyed)

-----------------------------------------------------------------------------
(* What makes SentInOrder, FinAfterData and NoOrphanWatcher inductive. *)

OnStack(what) == \E i \in DOMAIN stack : stack[i].what = what

OrderInv ==
  /\ queue \in Seq(Items)
  /\ accepted \in Nat /\ sent \in Nat
  /\ tcp \in Tcps
  /\ SentInOrder

\* What was written before the first end() has been sent.
Drained == endedAt = EndedEarly \/ (endedAt \in Nat /\ sent >= endedAt)

\* finish(), the timer it sets and the shutdown() of that timer come after the data.
FinInv ==
  /\ OrderInv
  /\ stack \in Seq(Frames)
  /\ calls \in Nat /\ finishers \in Seq(Nat)
  /\ endedAt \in Nat \cup {NotEnded, EndedEarly} /\ endedAt <= accepted
  /\ finishers # << >> => endedAt # NotEnded
  /\ shutTimers # {} \/ OnStack("finish") \/ OnStack("shutdown") \/ tcp.finSent
       => Drained

\* The descriptor is open until destroy() and the only one; both watchers are the
\* socket's own, and the watcher of connect() runs before anything else.
WatchInv ==
  /\ sock \in Socks
  /\ stack \in Seq(Frames)
  /\ nextWatcherId \in Nat \ {0}
  /\ watchers \subseteq Watcher
  /\ watcherCbs = AliveIds
  /\ AliveIds = {sock.readWatch, sock.writeWatch} \ {NoWatch}
  /\ sock.readWatch < nextWatcherId /\ sock.writeWatch < nextWatcherId
  /\ sock.readWatch = sock.writeWatch => sock.readWatch = NoWatch
  /\ \A w \in Alive(watchers) : w.fd = sock.fd
  /\ open = {sock.fd} \ {NoFd}
  /\ sock.fd = NoFd =>
       /\ Alive(watchers) = {} /\ ~sock.writable
       /\ sock.readWatch = NoWatch /\ sock.writeWatch = NoWatch
  /\ sock.destroyed => sock.fd = NoFd
  /\ tcp.state = "none" => sock.fd = NoFd
  /\ sock.connecting => sock.readWatch = NoWatch
  /\ OnStack("connected") => /\ stack = <<Frame("connected")>>
                             /\ sock.connecting /\ sock.fd # NoFd
=============================================================================
