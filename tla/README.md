# Formal model of ionpower-node

TLA+ modules that model the event loop of ionpower-node (a Node.js compatibility layer
over an embedded SpiderMonkey, built for 32-bit PowerPC Mac OS X) and the parts of its
library that keep state over several events; TLC configurations that check them on small
instances; and theorems that TLAPS proves for every instance.

All paths below are relative to the repository; `event_loop.cpp`, `globals.cpp` and the
like are in `src/node_compat/`. Most of the library is JavaScript embedded in
`globals.cpp` as C string literals, so a line of `globals.cpp` is often a line of
JavaScript.

## 1. The system

One process, one thread of JavaScript. The native side offers blocking calls and a
`select()` loop; everything with an event in it is written in JavaScript on top of three
registries the loop looks at: timers, descriptor watchers, children.

| Component | Source | State it keeps | What is hard | What makes it correct |
|---|---|---|---|---|
| Timer queue | globals.cpp 5326-5500, timers.cpp | `__timer_queue__`, `_timer_next_id` | callbacks change the queue a pass is scanning; intervals are out of the queue while they run; the clock is a wall clock | no timer runs after its clear; order; a pass ends |
| Event loop | event_loop.cpp, trampolines in globals.cpp | `g_watchers`, `g_children`, `g_sigchld_seen`, callback tables | signals at any instruction; results of `select()` used after callbacks ran; descriptors and pids reused | tables agree; nobody ready is forgotten; ends exactly when idle |
| Program phases | main.cpp 118-165 | where `RunMain` is | what a late phase schedules | nothing pending is dropped |
| `execSync`, `spawnSync` | child_process.cpp 40-200 | descriptors, buffers | two processes, three bounded pipes, blocking calls only | no deadlock within stated limits; complete output; no leak |
| `spawn`, `exec` | child_process.cpp 470-610, globals.cpp 1229-1318 | child streams, watchers | exit and output race; descriptor numbers are reused | a stream reads its own pipe, to the end |
| Promise, microtasks | globals.cpp 5112-5304 | state, reactions, `__microtask_queue__` | adoption of thenables, late handlers | reactions in order, no rejection unseen |
| Streams, EventEmitter | globals.cpp 623-712, 5847-6640 | buffers, flags, pipes | listeners that call the stream they are called from | order, one `end` after the data, `finish` after the last write |
| Web streams | globals.cpp 3860-4137 | queue, waiters, promise chains | concurrent reads and pulls; failures on either side of a pipe | each chunk to one reader; one sink call at a time; pipes settle |
| net | globals.cpp 8904-9116, net.cpp | socket flags, write queue | half-close, partial writes, re-entrant events | bytes in order, FIN last, closed in the end |
| HTTP | globals.cpp 8176-8660 | parser state, message buffers | cuts anywhere, framing, listeners that come late | each request whole and once; the body is a channel |
| TLS | globals.cpp 9142-9399, tls.cpp | handshake, rings, queue | bounded rings, records that are cut, destroy in a listener | each direction a channel; nothing used after it is freed |
| Synchronous HTTP | http.cpp | temporary files, a pipe | every step may fail | success means a whole answer |
| Module loader | require.cpp, globals.cpp 10390-10740, path.cpp | `__require_cache__`, translations in memory and on disk | cycles, exceptions, spelling of paths, edits | evaluated once; the code that runs is what was read |
| File system | fs.cpp, globals.cpp 150-510 | descriptors, pending callbacks | short writes, failures in the middle, other processes | success means all of it; no descriptor lost |
| zlib, crypto, Buffer, URL, util, ... | several | caches at most | pure functions and system calls | reference definitions |

Interaction. Scripts call the registries synchronously. The loop calls back through four
trampolines of `globals.cpp` (`__event_loop_fire_watcher__`,
`__event_loop_fire_child__`, `__fire_due_timers__`, `__drain_microtasks__`), each of
which catches exceptions. Components written in JavaScript (net, spawn, HTTP) register
watchers and children and otherwise talk through EventEmitter calls and `setImmediate`,
which is a timer of delay 0. `PROJECT.json` lists every component with its status, and
under `hazards` the places where the behaviour is hard to test.

## 2. Modules

| Module | Models | Uses |
|---|---|---|
| `TimerQueue` | the timer queue and its firing pass | |
| `EventLoop` | `RunEventLoop`, the registries, trampolines, microtask drains, `RunMain`, with the kernel as an actor | extends `TimerQueue`, and refines it |
| `SpawnSync` | `DoSpawn`/`DrainFd` against an arbitrary child | |
| `ChildProcess` | `_cp_spawn` over `spawnAsync`, with children that write and end | extends `EventLoop` |
| `Socket` | `net.Socket`, against a peer and the kernel's buffer | extends `EventLoop` |
| `Channel` | what a reader is promised: the abstract specification of every byte or chunk stream | |
| `Streams` | `Readable`, `Transform`, `Writable`, `pipe()` | refines `Channel` |
| `Http` | client, server, body framing, `IncomingMessage` | refines `Channel` |
| `Tls` | `TLSSocket`, `tls.Server` on `net.Server`, over OpenSSL's rings | refines `Channel`, both ways |
| `Promises` | `_IonPromise`, combinators, the microtask queue | |
| `WebStreams` | the WHATWG streams | extends `Promises` |
| `FileSystem` | `fs`: synchronous, asynchronous and promise calls, file streams | |
| `HttpSync` | `http.getSync`, `http.postSync` through curl | extends `FileSystem` |
| `Loader` | `require()`, vendor fallbacks, the translation cache, `path` | |
| `EventLoopProofs` | theorems about `TimerQueue`, `EventLoop` and `ChildProcess` | extends `ChildProcess` |
| `NetworkProofs` | theorems about `Socket` and `Http` | extends both |
| `SynchronousProofs` | theorems about `Loader` and `SpawnSync`, which hold the loop up | extends both |
| `FileSystemProofs`, `StreamsProofs`, `TlsProofs` | theorems about the module they are named after | extend it |
| `WebWorldProofs`, `WebStreamsProofs` | the invariant of `WebStreams` and what the library does to it; its theorems | the second extends the first |
| `MC...` | constants for TLC | the module they are named after |

### TimerQueue

`timerQueue` is `__timer_queue__` as a sequence of records, `passNow` the argument of
the pass that is running, `firing` the record that was taken out and whose callback
runs. `TimerEnqueue`, `TimerClear` are the two native entries; `BeginPass`, `FireTimer`,
`TimerReturn`, `EndPass` are the iterations of `__fire_due_timers__`; while `firing` is
set, the callback may enqueue and clear. A delay below 1 stands for everything
JavaScript passes that is not a positive finite number, because `EffectiveDelay` maps
all of it to 0. The clock advances by `Tick` and, since it is `gettimeofday`, may be set
back by `ClockSetBack`.

### EventLoop

`pc` walks through `RunMain` and `RunEventLoop`: `top` (compact, look for work, compute
the timeout), `select`, `polled` (look at the SIGCHLD flag), `reap`, `dispatch` (compute
the ids to fire), `fire`, `timers`, with `drain` as a subroutine that returns to `ret`.
`js` is the kind of JavaScript on the stack; while it is not `"idle"`, `JsStep` is
whatever a script may call: open, use and close descriptors, watch and unwatch, fork and
register, unregister, queue a microtask, set and clear timers. `JsReturn` gives control
back to the place that called. Between any two of these steps the kernel may make a
descriptor ready, end a child (raising SIGCHLD: flag set if the handler is installed,
`EINTR` only if `select()` sleeps), or move the clock. `Fork` and `ChildRegister` are
separate steps because the child may end between them. `toFire` and `polled` are the
snapshots the C++ code keeps in locals across callbacks.

### SpawnSync

`DoSpawn` with its failure paths: `pc` is the phase, `readEnds`/`writeEnds` the
descriptors the parent has open, `fill` the chunks in each pipe. The child commits to a
blocking call (`ChildCalls`) and later completes it, breaks on a closed pipe, closes an
end or exits: any program at all, within `MaxWritten`.

### ChildProcess

The actions of `EventLoop` that belong to the loop and the kernel are used as they are;
its open set of scripts is replaced by the library's own callbacks. `Spawn` is
`spawnAsync` with the two `ioWatch` calls, `ChildRegisters` the `childRegister` that
ends `_cp_spawn` (the child may end between them). `LoopSteps` is a step of the loop;
when it calls a watcher, `turn` is `"read"` and the loop of `onReady` goes through
`ReadData`/`DataSeen` until it meets the end (`ReadEnd`, `EndSeen`) or an empty pipe
(`CallbackReturns`); when it calls a child's callback, `ScheduleClose` follows. Wherever
the code emits an event, `turn` is `"user"`: the listener may spawn, end stdin, destroy
another stream or set a timer before it returns. `endOf` is what a descriptor number
refers to, so that reuse of numbers shows.

The clock stands still in this model (`MaxTime = 0`): a timer of the script is due in
the next pass (delay -1) or pending all the time (delay 1), which is all that `exit` and
`close` can notice of it. Scripts destroy a stream at most once, before its end and not
from its own listener, and listeners do not throw. The code enforces none of this, and
each breach closes a number twice or leaves it open (globals.cpp 1248-1265).

### Socket

Events are emitted synchronously and a listener may call the socket again, so the
JavaScript call stack is a variable: `stack` holds frames, innermost first, each the
rest of a library function (`"flush"`, `"read"`, `"finish"`, ...) or code of the script
(`"user"`). An action works on the first frame; `Then` replaces it by the frames that
come in its place. `Write`, `End`, `Destroy` and `UserTimer` are what a script may do
whenever a `"user"` frame is first, within a listener as well as outside. `sock` holds
the fields of the object, `queue` is `_writeQueue` with each chunk as the range of the
bytes it stands for; `FlushSome`, `FlushBlocks`, `FlushFails`, `FlushDone` are the
iterations of `_flushWriteQueue`. `tcp` is the connection in the kernel: how connecting
goes, up to `SendBuffer` bytes the peer has not taken, chunks and a FIN that have come
from the peer, a reset. `endedAt` is `EndedEarly` if `end()` was called before the
connection was up; the properties about `end()` leave that out (section 5).

A script connects a socket once, its listeners do not throw, `'error'` has one, and
SIGPIPE is ignored. The code enforces none of this. (Only `DoSpawn` ignores the signal,
child_process.cpp 154; in a process that never called it, writing to a reset connection
ends the process.)

### Channel

Four variables: what was `put` in, what the reader `got`, whether the writer has
`closed`, whether the reader was told of the end (`ended`). `Deliver` extends `got`
along `put`; `End` needs both `closed` and everything delivered. It is instantiated by
`Streams` (the source, read by events, `read()` or a pipe), by `Http` (the body of an
answer, from the handler's `write()` to the caller's `'data'`) and twice by `Tls`.

### Streams

A `Readable` "src", a `Transform` "mid", a `Writable` "dst". Like `Socket` it has the
call stack as a variable, because `push()`, `read()` and `resume()` emit `'data'` and
`'end'` from inside and a listener may call any of them again. `ticks` are the
`process.nextTick` callbacks in order, `later` the immediates and answers under way.
`rd[s]` has the fields of `_readableState` that steer the flow, `_flowing_now` and
`_readingMore` among them. `_read()` and `_transform()` answer at once or later, with a
chunk, an empty chunk, or the end with a chunk or alone. `emit` calls a copy of its
listener list; the order in which pipe and script attached theirs is left open.

### Http

A connection is a sequence of tokens that a read may cut anywhere: two for the head of a
message, one per byte of a body, three and more for a chunk. `TryParse` and
`AfterHandler` are the two halves of `tryParseRequest()`, between which the request
handler runs; `Feed` is `_http_feedBody()`; `NewMessage` and what follows it are
`_IncomingMessage`, whose events wait in a buffer until somebody listens and again when
it is paused. The client is the library's, a foreign one that keeps the connection, or
one that sends its requests at once. `Habits` holds two assumptions on handlers and
clients that the run does not make (section 5).

### Tls

Each end is one record of `side`: the TLS socket's flags and queue, what SSL holds
(stage of the handshake, a partial record, the input ring), and the raw socket with the
kernel behind it. A record is two bytes, so that reads and the ring cut it. Both ends
share one event loop; a callback is a `task` of several steps (`Feed`, `Drive`, `Told`,
`Pump`: the loops of `_onRawData`, `_driveHandshake`, `_pumpRead`), and when it has
emitted, the listeners may write, end or destroy before it goes on. The raw socket is
simpler than in `Socket`, whose own run and proofs stand for what is left out of it.
Writes made before the handshake wait in `_writeQueue`, which `Pending` flushes, one
write per step.
`Listen`, `Connect`, `Accept`, `CloseServer` are `net.Server` and the native calls, with
their errors.

### Promises and WebStreams

`Promises` has operators instead of actions: each takes and returns a world, a record
with the promises (`heap`), the microtask queue (`micro`) and whatever else the code
changes, so that a call inside a call is an application. Code given to `then()` is a
record `Code(do, s, n)`; `Own` code is the library's, the rest is what the extending
module says. `WebStreams` makes one action of each microtask and one of each answer of
the world outside (source, sink, transformer, script), which comes when the microtasks
are drained. `Plans` are the shapes a script builds: read, tee, pipe, pipe through a
transform, write; with sources that push or are pulled, at once or later.

### FileSystem and HttpSync

`os` is the kernel: names, bytes, descriptors. A native call of one system call is one
step; one of several (`readFileSync`, `writeFileSync`, `copyFileSync`, recursive
`mkdirSync`, `rmSync`, `cpSync`) puts frames on `stack` and is one step per system call,
between which another process changes names (`Meddle`), the disk fills, writes are
short. `_fsAsync` and the promises make the whole call at once and deliver later, as the
code does; read and write streams read or write everything in one immediate. `HttpSync`
adds `DoCurl` as one more call with frames: temporary files, pipe, fork, the status on
the pipe, `waitpid`, the headers of the last answer, the clean-up. A call in progress
remembers the files as they were when it began (`was`) and whether anybody changed them
since (`meddled`). `CallsAreWhole` compares with that what is there when it ends without an
error: after a write, an append, a copy or a recursive `mkdir`, called by the program or by
a stream, and after a request. `TreesAreWhole` says it of the calls that walk over a tree,
`cpSync` and `rmSync`.

### Loader

A path is a sequence of components. `ResolveModule` is a list of `Candidates`, of which
the first that exists is taken. Modules are evaluated in a `stack`, innermost last; each
requires, throws, catches, deletes entries of `require.cache`. `Read`, `Translate` and
`Save` are the steps of a load between which an editor changes files; a restart keeps
the disk. The functions of `path.cpp` are operators, compared with each other and with
`Canonical`, from the directory of each module that is read, on all paths of up to three
parts.

## 3. What the runs check

| Run | Question | Bounds |
|---|---|---|
| `TimerQueue` | Do the rules of the queue hold under every order of set, clear and fire, and does every pass end? | 3 timers: an interval, one that clears and one that is cleared; delays 0 and 1; clock 0..1, set back at most once, so that equal and overtaking deadlines occur and a pass spans a tick |
| `EventLoop_safety` | Do the tables agree; drains, sleep and exit conditions; refinement of `TimerQueue` | any 3 of 2 watchers, 2 children, 2 timers, 1 microtask; 1 descriptor that is closed and reused; clock set back |
| `EventLoop_live` | Are ready watchers, due timers and caught children served? | any 3 of 2 watchers, 2 children, whose pids may be reused, 1 timer of delay 1 |
| `SpawnSync` | Deadlock, completeness, what is left behind | pipes of 2 chunks, input 0..2 or none, 4 chunks of stdout, 2 of stderr; pipe, fork and memory faults; interrupted waits |
| `ChildProcess` | Do streams read their own pipes to the end, whatever is spawned, destroyed and reused; does `close` come? | 3 descriptor numbers, so that the second of 2 children reuses those of the first; children and script timers together at most 2; pipes of 1 chunk; 1 chunk of stdout, none of stderr; 1 destroyed stream |
| `Socket` | Do bytes go in order, FIN last; does a connection ended on both sides close; is no watcher left? | 3 calls of `write()`, `end()`, `setTimeout()`; chunks of 2 bytes into a buffer of 1, so that every write is partial; 1 chunk from the peer |
| `Streams` | Is the source a channel; does the sink have everything when it finishes; does an end travel through two pipes? | 2 chunks and the end; 3 calls of the script, each possibly inside an event; high-water mark 2 |
| `Http` | Is each request handed over once and whole; is the answer a channel? | 2 requests on one connection; bodies of 0..2 bytes; all three framings; 1 pause per message |
| `Tls` | Is each direction a channel; is SSL used only while it exists; do both ends close? | ring of 3 bytes and records of 2, so that a record straddles the ring; kernel buffer 4; 2 writes per end; TLS 1.2 and 1.3 |
| `WebStreams` | Order at every consumer, one sink call at a time, no unseen rejection, pipes that settle | 2 chunks, 1 failure, 80 plans |
| `FileSystem` | Does a call that succeeds do all of it, to a file and to a tree; is no descriptor lost? (`fs`, `getSync`, `postSync`) | 2 calls, 2 descriptors, 1 fault, 1 change by another process; a directory with a file, a file outside, 4 inodes |
| `Loader` | Evaluated once, translation current, normalizers equal | 3 requires per module, 2 processes, 2 versions of each edited file, 1 deletion |

Bounds. `MaxTimers`, `MaxWatchers`, `MaxForks`, `MaxMicrotasks` bound how many are ever
created, `MaxCreated` all of them together: every pair and triple of the kinds meets,
which is what the hazards need (one that runs, one that is affected, one that was
created by a callback). `MaxTime` freezes the clock at its last value; `select()` then
takes every timeout for elapsed, so that the loop does not hang on the bound. A firing
pass at the last value would never end if an interval of delay 0 is set, because time
does not move on; `PassEnds` leaves that value out and `EventLoop_live` uses delay 1.
Two chunks are enough for order, loss and duplication to show, and for an end that
overtakes the second; three calls are enough because the interesting orders are of one
call that waits, one that it waits for and one a listener makes in between. Short rings,
pipes and buffers matter more than long data: each is smaller than what is sent through
it.

Deadlock checking is off where the system may really stop: a lost SIGCHLD leaves
`select()` asleep for ever and a child may never end (`EventLoop`, `ChildProcess`), a
peer may stall (`Socket`, `Tls`, `Http`), a script may do nothing more (the others). It
is on in `TimerQueue` and `SpawnSync`.

Fairness.
* `EventLoop`: `LoopStep`, the thread of the process is scheduled; `JsReturn` and
  `ChildRegister`, callbacks return (a script that loops for ever stops node as well);
  `ClockTicks`, time passes. Nothing is assumed of descriptors, children or scripts.
  `CaughtSigchldReaps` has as a premise that `select()` returns again and again.
* `ChildSpec`, `SocketSpec`: the same of the library's steps. That the peer keeps
  reading is a premise of `BothEndsClose` in `Socket`.
* `SpawnSync`: both processes are scheduled; the child, finite by its bounds, takes a
  step if it can.
* `StreamsSpec`: library code runs on, ticks, immediates and deferred answers come. The
  script owes nothing: `PipelineFinishes` allows that it pauses, unpipes or listens
  away.
* `HttpSpec`: the network delivers and a caller who announced a body writes it. Its
  properties are safety properties; the fairness only keeps runs going.
* `Tls`: connection attempts settle, the loop serves every event, callbacks return.
* `WebStreams`: the microtask queue is empty, and nothing is owed by the world outside,
  infinitely often. It is said like this and not with `WF` because ENABLED of these
  actions is too costly to evaluate; since neither can be refilled without end within
  the bounds, it means that the loop drains and that source, sink and transformer
  answer.
* `FileSystem`, `HttpSync`, `Loader`: their properties are safety properties and need
  none.

## 4. What is proved

TLAPS proves, for every value of the constants that satisfies the named assumptions:

* `EventLoopProofs`, the queue: type correctness, `OneRecordPerTimer`,
  `CancelledStaysSilent`, for any clock. The inductive invariant is `TimerInv`: ids are
  below `nextTimerId`, records are unique, and every cancelled id that is still queued
  carries the mark (`CancelledAreMarked`) - without the last one the scan could pick a
  cancelled record. `FifoPerDelay`: `FifoInv` adds that timeouts wait in the order they
  were set in, and that this is the order of the times they were set at, as long as the
  clock has not been set back.
* `EventLoopProofs`, the loop: type correctness; the loop's steps are `TimerQueue` steps
  or stutter (`LoopImplementsTimerQueue`), so the theorems above hold inside it.
  `TablesAgree`: `WatcherTablesAgree` needs that ids stay below the counter,
  `ChildTablesAgree` needs `~PidReuse`. `SleepsDrained` needs that a drain always stands
  between a callback and the states it names (`DrainedInv`). `ExitsOnlyWhenIdle` needs
  `~CloseWatched` and `~PidReuse`, and that nothing becomes pending between the test at
  `top` and the end. `SleepEndsForTimers` needs that timers do not change while
  `select()` sleeps, even if the clock is set back. `UnwatchedStaysSilent` is an action
  property from `WatcherTablesAgree`.
* `SynchronousProofs`, `DoSpawn`: type correctness; `OutputComplete` and the release of descriptors
  (`SpawnInv` ties what was written to what is in the pipe plus what was collected, and
  the open descriptors to the phase); `NothingLeft`, which adds that a child was reaped
  unless memory ran out while a signal came; and `NoMutualWait` under `SmallEnough`:
  stderr fits into its pipe, and the input or stdout does.
* `EventLoopProofs`, children: `StreamsOwnTheirFds`, `EndIsComplete` and `OnlyStdinLeaks`.
  `StreamInv` adds that watcher ids are handed out once, and that the callback that is
  reading belongs to a watched stream until it has seen the end; with that, closing a
  descriptor touches one stream only. `LeakInv` adds that every open descriptor is a
  stdin or belongs to a watched stream, that `select()` watches nothing else, and so
  never fails with `EBADF` here.
* `NetworkProofs`, the socket: `SentInOrder`, `FinAfterData` and `NoOrphanWatcher`. `OrderInv` says
  that the queue holds exactly the bytes after those sent, and needs nothing else.
  `FinInv` adds that whatever leads to `shutdown()` - a timer that is set, a `finish` or
  `shutdown` frame on the stack, however deep - exists only once the bytes before the
  first `end()` are sent, and that a waiting `finish()` implies an `end()`. `WatchInv`
  adds that both watch ids are distinct, live and on the one open descriptor, and that
  the watcher of `connect()` runs on an otherwise empty stack, before anything could
  have destroyed the socket.
* `NetworkProofs`, HTTP: `RequestsArriveWhole`, under the premise `Habits = {}`: a client
  waits for the answer, and a handler reads the body before it answers (section 5 says
  what happens otherwise). `RequestInv` says where the tokens of each request are. Before
  its handler is called they are on the way, but for the first line, which the server may
  hold (`RequestComes`), or they are whole requests of a burst (`BurstComes`); while the
  handler runs for the first time the server's buffer has the first `k` bytes of the body
  and nothing else (`Handling`); after that `g` bytes were given to listeners, those up to
  `r` wait in the message, the reader still counts the rest, and the rest is on the way
  (`Given`). Wherever `ServerData` cuts what comes, it moves `k` or `r`.
* `SynchronousProofs`, the loader: all three properties of the run. `StackInv` is common to them: only the
  innermost module is being loaded, those around it run and wait.
  `EvaluatedOnce`: `OnceInv` adds that keys of the cache are canonical, that a file which
  was evaluated, and not deleted from the cache since, is in it, and that a module which
  is still being read is not. It needs an entry script that is named by its canonical
  path, because the entry is cached as it was spelled (section 5).
  `TranslationIsCurrent`, when no edit falls between the reading of a file and the look
  at its time (`RacyEdits`) and no process is killed in a save (`Kills`); with either, it
  is false. `CurrentInv` adds that what either cache holds under a time is the text the
  file had then, but for the translation that the innermost module is writing to the
  disk.
  `NormalizersAgree` compares `path.normalize`, `resolve`, `join` and `relative` with
  `CanonicalizePath` from the directory of every module. They are recursive functions
  over sequences, and `PathsAgree` says that they agree on all paths; since an induction
  theorem cannot be cited, the induction takes a shortest path on which they differ
  (there is one, because Nat is well-founded) and shows that a shorter one differs too.
* `FileSystemProofs`: `DescriptorsReturned`, of `fs` and of `getSync` and `postSync`.
  `FdInv` says that only the innermost frame of a native call has descriptors open,
  those that its record names, and that all others that are open are the program's;
  `StreamInv` that a write stream opens its file with a mode that exists. That `open`
  returns a descriptor that is free follows from the least element of a set of numbers.
  `CallsAreWhole`: as long as nobody else changed the files, `WholeInv` says how much of a
  call is done. Before the file is open nothing has changed (`Untouched`); while it is
  written, the bytes it holds and those still to write are the ones it must hold in the
  end, and its position is at its end (`WriteGoes`); a copy has what was read from the
  source but for the part in hand, and the source is as it was (`CopyGoes`). This needs
  that the tables of the kernel are sound (`IsDisk`), that a frame is one of its call
  (`CallInv`), and that a stream is there when a call is made for it (`StreamsInv`). For a
  request, `BridgeInv` says that a curl that ended well left both files whole, and
  `HttpFrameInv` that they are read only then, and with a descriptor to read them with;
  that `ParseHeaders` takes the last block of headers is shown for every answer of curl.
* `StreamsProofs`: `SourceIsChannel`, a refinement: the push of a chunk is `Put`, that of
  null `Close`, an emitted `'data'` or a `read()` is `Deliver`, `'end'` is `End`, all else
  stutters. `SourceInv` says that what went in is what came out and then what is in the
  buffer; that a chunk of the source is pushed before anything else runs, and null at
  most once, after nothing that pushes; and that whoever is about to emit `'end'`, on the
  stack or in a tick, knows that all was read.
  `FinishIsComplete`: `FinishInv` adds what a frame never runs above (`Stacked`: one loop
  and one chunk under way per stream), what each frame knows (`Sure`), that a writable
  end comes after the end of the stream that is piped into it (`WritesInv`), and where
  each chunk is that left a stream (`ChunksInv`: written, on its way down the pipe, or in
  the transform's answer). As the property, it leaves out late answers (`late`) and
  chunks that somebody took elsewhere (`intact`).
* `TlsProofs`: `NoCallAfterFree`. `AliveInv` says that a raw socket that is up has its SSL
  object, that the two are destroyed together, that only a raw socket that is up reads or
  runs a callback which calls SSL, and that a connection in the backlog has a socket on
  the server's side that nobody has touched yet.
  `DirectionsAreChannels`, under the premise `FitsRing`: every write fits into the ring,
  and no program calls `end()` before the handshake is over. They are the two losses of
  section 5, and without either the refinement fails. `FlowInv` says where each byte is.
  What is on its way (a record read in part, the ring, the chunk in hand, the kernel, the
  raw socket's queue) is the bytes of some records of the handshake, then of the data
  after what was emitted up to some `k`, then of at most one close_notify (`Carried`);
  the queue that waits for the handshake holds the data after `k` (`Waits`). After
  `destroy()` only a beginning of this is left. The counts are bound in `FlowInv`: a step
  is shown by saying how `h`, `k` and `c` change. A callback reads on one direction
  (`ReadsOn`) and writes on the other (`WritesOn`), and is proved piece by piece.

* `WebStreamsProofs`: `RejectionsAreSeen` and `SinkOneAtATime`, for every plan. The
  invariant `Good(w, e)` describes the world `w` of promises, reactions, microtasks and
  streams between two calls of the library. Every reaction and microtask names promises
  that exist; a promise that is rejected was listened to, was flagged, or its check by
  `_schedCheck()` still waits among the microtasks: with none left, that is
  `RejectionsAreSeen`. For the sink it needs a witness `e`, which is not in the state: the
  line of pending promises of the `_writing` chain, and what settles the first of them
  (`at`: the sink's `start()`, the microtask that calls the sink, the answer that the sink
  owes, the microtask that has the answer, or nothing). Each promise of the line has one
  reaction, which calls the sink for the next (`CallsSink`) or ends the chain, and nothing
  else in the heap, in a microtask or owed by the outside may settle one of them (`Free`).
  So the sink owes at most one answer, and is called when it owes none. `WebWorldProofs`
  shows for each function of the library that it takes a good world to a good one and
  moves `e` as the chain does; microtasks, sources, sinks and scripts follow from that.

The theorems rest on the `ASSUME`s of the modules, which say of what kind the constants
are, and on the premises named above. The type invariants, `OneRecordPerTimer`,
`OnlyStdinLeaks` and `StackInv` are theorems without a run of their own; TLC checked them
before they were proved, and likewise the inductive invariants named above.

Only model-checked: the liveness properties, which are beyond the prover;
`AnswerIsChannel` of `Http`, because what the chunk decoder returns for every input needs
an induction over its recursive function in three framings; `TreesAreWhole` of
`FileSystem`, which would need, of every directory that a walk has entered, what is left
to do in it; and `ConsumersInOrder` of `WebStreams`, which is about the values in the
promise heap, of which `Good` knows only the states.

## 5. Where the code and its documents disagree

Met while modelling. The models do what the code does; the properties state the
conditions under which the promise is kept. Each is a fact of the lines named.

Timers, loop, children:
* A callback that clears its own interval does not stop it: the record is out of the
  queue while it runs (globals.cpp 5470, 5348); timers.cpp 6 says cleared records are
  skipped. `CancelledStaysSilent` speaks of timers cleared while queued.
* SIGCHLD between the test of the flag and `select()`, or before the handler is
  installed, is lost (event_loop.cpp 321, 324), although line 88 wants `select()` to
  wake. With nothing else registered the loop sleeps for ever.
* A closed descriptor that is still watched ends the loop with `EBADF` (330-333)
  although main.cpp 136 says that it returns only when nothing is pending.
  `CloseWatched` is FALSE in the runs.
* `ReapChildren` marks the first record with the pid (236), which may be that of an
  ended child not yet compacted, if the pid is reused at once.
* Watchers created by a child callback are matched against `fd_set`s filled before they
  existed (339). Microtasks that exit handlers queue run only if the loop is entered
  again (main.cpp 158).
* A child that fills stderr while stdout stays open blocks `DoSpawn` and itself for ever
  (child_process.cpp 169 after 166). `SmallEnough` excludes it.
* `'close'` may come before the output was read to its end, if another timer is pending
  (globals.cpp 1297 against 1294), and `exec` then calls back with part of it.
* `destroy()` of a child stream after its end closes the descriptor number again (1264).

Sockets, TLS:
* The deferred `shutdown()` may run without a `select()` in between (9032 against 9028).
* `end()` while connecting emits `'finish'`, and the connection sets `writable` again
  (8970); a write while connecting is refused, although 8909 says that it is kept.
* TLS: `end()` before the handshake is over loses the queue (9310-9318; `EndsEarly`). A
  single write longer than the outgoing ring loses its tail (9287-9300, tls.cpp 543-562;
  `WriteSizes`). An end of the peer after `end()` destroys the raw socket with data
  unsent (9279-9281, 9325-9326). A FIN without close_notify is a clean `'end'`
  (9172-9175). A host that does not resolve throws from `connect()` and leaves the
  context behind (8950-8952, 9369-9376).
* `listen()` leaks the descriptor when `bind` or `listen` fails (9084-9087); closing the
  server in its `'connection'` listener makes the accept loop throw (9090-9097).

HTTP:
* A handler that answers before the end of a body, or a client that pipelines, gets
  requests that are cut wrongly: the parser's state is reset under the call that goes on
  to read it (8583, 8630). `Habits` is empty in the run.
* A response with Content-Length 0 has no `'end'` (8396-8397), on which 8431-8433 count.
* http.cpp: the result of `waitpid` is not looked at (314), so an interrupted wait
  passes for success; the request's temporary file stays when pipe or fork fails
  (280-289); a header that contains "HTTP/" hides those before it (98-103).

Streams:
* A `push('')` asks for more only if the stream does not flow (6126); 6120-6123 describe
  it for any. `EmptyPushes` leaves flowing streams out.
* An asynchronous `_transform` that answers after `end()`, and an asynchronous `_write`,
  are overtaken by `'end'` and `'finish'` (6508, 6058; `late`). A listener that throws
  leaves `_flowing_now` set (6238-6253).
* Web streams: two reads at once, or a `tee()`, stall because the end of a pull does not
  start the next (3921 against 3866-3868); `pipeThrough` drops the error of its pipe
  (3968); a pipe that fails leaves both locks (3959-3963); `abort()` does not stop
  writes that are queued (4059-4068); `writer.closed` never settles (4083-4087).
  `resolve(thenable)` does not lock the promise (5171).

Files and modules:
* The error of `renameSync` has no `.code` (fs.cpp 816 against README.md 214).
  `copyFileSync` onto itself empties the file (514), of a directory it empties the
  target first (514, 522). `mkdirSync` recursive succeeds on a file (392). `rmSync` goes
  through links (globals.cpp 256-276), `cpSync` into its own subdirectory does not end
  (289), a second `end()` of a write stream writes twice (486-503), `pause()` of a read
  stream has no effect (422), and `fs.watch` misses changes of the same size in the same
  second (836-839).
* `require`: the entry script is cached under the path as it was spelled (require.cpp
  921-938); a module that throws stays in the cache (747-748); any error of a bare
  require, not only a missing module, starts the vendor fallback (globals.cpp
  10477-10504); `require.resolve('fs')` throws (require.cpp 871-875); a package.json
  whose "main" is "." recurses without end (254); a module whose exports are undefined
  is evaluated again (444).

## 6. What is not modelled, and why

In the modelled components:
* Loop and timers: the 100000-iteration guards of passes and drains (far beyond any
  bound), `__drain_timers__` (no caller), `process.exit()` and exit codes, the 32-bit
  overflow of the `select()` timeout in microseconds (event_loop.cpp 299), descriptors
  beyond `FD_SETSIZE`. In `EventLoop` scripts may make any of the listed calls in any
  order; the contents of microtasks are the subject of `Promises`.
* `ChildProcess`: data written to stdin, errors of `read`, `kill`, the environment,
  descriptors that a later child inherits, grandchildren that keep a pipe open.
* `Socket`: addresses and options, connecting twice, the argument of `destroy()`.
* `Streams`: `_flush`, `_final`, encodings, what `write()` returns, async iteration,
  `once` and the other corners of EventEmitter.
* `Http`: header contents, agents, redirects, upgrades. `Tls`: the cryptography,
  sessions, several connections to one server, callbacks of writes (globals.cpp 9212: a
  `write()` from the callback of a queued write overtakes the rest of the queue).
* `WebStreams`: async iteration, text streams. `FileSystem`: `watch`, times and modes,
  stat fields. `Loader`: the text of the wrapper, JSON, and the limits of 256 parts and of
  the length of a path in `CanonicalizePath`.

Not modelled at all: WebSocket, dgram, readline (parsers over net.Socket, whose order is
checked there); fetch, AbortController, EventTarget (listener lists and one request);
worker_threads, AsyncLocalStorage, node:test (workers are child processes with framed
pipes); zlib, crypto, Buffer, URL, querystring, string_decoder (pure functions on bytes
and strings); process, os, console, util (queries and formatting).

## 7. Plan

Done: the loop with its timers and children, sockets, spawn, streams, HTTP, TLS,
promises and web streams, files, the loader; proofs for all of them.

Open, proofs: for `WebStreams`, `ConsumersInOrder`, for which `Good` would have to say which
values are under way to a reader; for `Http`, `AnswerIsChannel`, with the chunk decoder
proved by the well-founded argument that `PathsAgree` uses; for `FileSystem`,
`TreesAreWhole`; that `Channel` implies what its users rely on (`got` is a prefix of `put`,
the end is last). Models: worker frames over `ChildProcess` and the WebSocket close
handshake.
