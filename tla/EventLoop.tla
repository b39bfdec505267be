------------------------------- MODULE EventLoop -------------------------------
(***************************************************************************)
(* The select() loop of event_loop.cpp, the JavaScript trampolines it      *)
(* calls (globals.cpp) and the order in which main.cpp runs a program:     *)
(* entry script, microtasks, loop, exit handlers, loop.                    *)
(*                                                                         *)
(* Actors: the loop (one thread), the JavaScript it calls back, and the    *)
(* kernel, which makes descriptors ready and delivers SIGCHLD between any  *)
(* two steps of the other two.  Time and timers are those of TimerQueue.   *)
(***************************************************************************)
EXTENDS TimerQueue, FiniteSets

CONSTANTS
  Fds,            \* descriptor numbers; the kernel reuses a closed one
  EventMasks,     \* the non-empty sets of "r" and "w" scripts watch for
  Pids,           \* process ids
  PidReuse,       \* may the kernel hand out the pid of a reaped child again?
  CloseWatched,   \* may a script close a descriptor that is still watched?
  MaxWatchers,    \* bound: watchers ever created
  MaxForks,       \* bound: children ever forked
  MaxMicrotasks,  \* bound: microtasks ever queued
  MaxCreated      \* bound: all of these and timers together

ASSUME LoopAssumption ==
  /\ Fds \subseteq Nat
  /\ EventMasks \subseteq (SUBSET {"r", "w"}) \ {{}}
  /\ Pids \subseteq Nat \ {0}
  /\ {PidReuse, CloseWatched} \subseteq BOOLEAN
  /\ {MaxWatchers, MaxForks, MaxMicrotasks, MaxCreated} \subseteq Nat

VARIABLES
  \* control
  pc,             \* where RunMain, RunEventLoop or a drain is
  ret,            \* where a microtask drain returns to
  js,             \* kind of JavaScript that is running, "idle" for none
  current,        \* the watcher id or pid the running callback was called for
  loopRun,        \* 1 or 2: RunMain calls RunEventLoop twice
  \* event_loop.cpp
  watchers,       \* g_watchers; ids ascend in it, so a set of records will do
  nextWatcherId,  \* g_next_watcher_id
  children,       \* g_children; n counts the records pushed
  sigchldSeen,    \* g_sigchld_seen
  handler,        \* is SigchldHandler installed?
  \* locals of an iteration of RunEventLoop, reset after their last use
  anyTimer,       \* was a timer pending when the iteration began?
  timeout,        \* ms that select() may still sleep, or Never
  selected,       \* what select() returned: "ready", "timeout", "EINTR", "EBADF"
  polled,         \* the fd_sets select() left: pairs <<fd, event>>
  toFire,         \* ids still to fire
  \* globals.cpp
  watcherCbs,     \* keys of __event_loop_watcher_cbs__
  childCbs,       \* keys of __event_loop_child_cbs__
  microtasks,     \* length of __microtask_queue__
  microtasksEver, \* microtasks queued so far
  \* kernel
  proc,           \* state of each process
  forks,          \* children forked so far
  forking,        \* pid forked and not yet registered, or NoPid
  interrupted,    \* has a signal arrived while select() slept?
  open,           \* open descriptors
  ready           \* pairs <<fd, event>> that are ready now

control == <<pc, ret, js, current, loopRun>>
native == <<watchers, nextWatcherId, children, sigchldSeen, handler>>
iteration == <<anyTimer, timeout, selected, polled, toFire>>
tables == <<watcherCbs, childCbs>>
micro == <<microtasks, microtasksEver>>
processes == <<proc, forks, forking, interrupted>>
descriptors == <<open, ready>>

loopVars == <<control, native, iteration, tables, micro, processes, descriptors>>
vars == <<timerVars, loopVars>>

-----------------------------------------------------------------------------
NoPid == 0
Never == -1
Events == {"r", "w"}
WatcherIds == 1 .. MaxWatchers

Watcher == [id : Nat, fd : Fds, events : SUBSET Events, alive : BOOLEAN]
Child == [n : Nat, pid : Pids, alive : BOOLEAN]

Alive(records) == {x \in records : x.alive}
AliveIds == {w.id : w \in Alive(watchers)}
AlivePids == {c.pid : c \in Alive(children)}

ChildMarkedDead_None(p) == children \* Mutant: the record is not marked

\* The scan for a pid marks the first record that has it, dead or alive.
ChildMarkedDead(p) ==
  {IF c.pid = p /\ \A d \in children : d.pid = p => c.n <= d.n
   THEN [c EXCEPT !.alive = FALSE] ELSE c : c \in children}

ReadyWatched_Readable == \* Mutant: no write set
  {p \in ready \cap (Fds \X {"r"}) : \E w \in Alive(watchers) : w.fd = p[1]}

\* What select() finds for the descriptors it was given.
ReadyWatched ==
  {p \in ready : \E w \in Alive(watchers) : w.fd = p[1] /\ p[2] \in w.events}

BadFd == \E w \in Alive(watchers) : w.fd \notin open

Init ==
  /\ InitTimers
  /\ pc = "script" /\ ret = "top" /\ js = "script" /\ current = 0 /\ loopRun = 1
  /\ watchers = {} /\ nextWatcherId = 1 /\ children = {}
  /\ sigchldSeen = FALSE /\ handler = FALSE
  /\ anyTimer = FALSE /\ timeout = Never /\ selected = "timeout"
  /\ polled = {} /\ toFire = {}
  /\ watcherCbs = {} /\ childCbs = {}
  /\ microtasks = 0 /\ microtasksEver = 0
  /\ proc = [p \in Pids |-> "none"] /\ forks = 0 /\ forking = NoPid
  /\ interrupted = FALSE /\ open = {} /\ ready = {}

-----------------------------------------------------------------------------
(* JavaScript: what a script or callback may do before it returns. *)

JsFree == js # "idle" /\ forking = NoPid

InBounds ==
  nextTimerId + nextWatcherId - 2 + forks + microtasksEver < MaxCreated

JsOpen(fd) ==
  /\ JsFree /\ fd \notin open
  /\ open' = open \cup {fd}
  /\ UNCHANGED <<timerVars, control, native, iteration, tables, micro,
                 processes, ready>>

JsClose(fd) ==
  /\ JsFree /\ fd \in open
  /\ CloseWatched \/ \A w \in Alive(watchers) : w.fd # fd
  /\ open' = open \ {fd}
  /\ ready' = {p \in ready : p[1] # fd}
  /\ UNCHANGED <<timerVars, control, native, iteration, tables, micro, processes>>

\* Reading until EAGAIN, or filling the send buffer.
JsUse(p) ==
  /\ JsFree
  /\ ready' = ready \ {p}
  /\ UNCHANGED <<timerVars, control, native, iteration, tables, micro,
                 processes, open>>

IoWatch(fd, events) ==
  /\ JsFree /\ fd \in open /\ nextWatcherId <= MaxWatchers /\ InBounds
  /\ watchers' = watchers \cup
       {[id |-> nextWatcherId, fd |-> fd, events |-> events, alive |-> TRUE]}
  /\ nextWatcherId' = nextWatcherId + 1
  /\ watcherCbs' = watcherCbs \cup {nextWatcherId}
  /\ UNCHANGED <<timerVars, control, children, sigchldSeen, handler, iteration,
                 childCbs, micro, processes, descriptors>>

IoUnwatch(id) ==
  /\ JsFree /\ id < nextWatcherId
  /\ watchers' = {IF w.id = id THEN [w EXCEPT !.alive = FALSE] ELSE w : w \in watchers}
  /\ watcherCbs' = watcherCbs \ {id}
  /\ UNCHANGED <<timerVars, control, nextWatcherId, children, sigchldSeen, handler,
                 iteration, childCbs, micro, processes, descriptors>>

\* fork() in spawnAsync; the same JavaScript turn goes on to childRegister.
Fork(p) ==
  /\ JsFree /\ forks < MaxForks /\ InBounds
  /\ proc[p] \in {"none"} \cup IF PidReuse THEN {"reaped"} ELSE {}
  /\ proc' = [proc EXCEPT ![p] = "running"]
  /\ forks' = forks + 1
  /\ forking' = p
  /\ UNCHANGED <<timerVars, control, native, iteration, tables, micro,
                 interrupted, descriptors>>

ChildRegister ==
  /\ forking # NoPid
  /\ handler' = TRUE
  /\ children' = children \cup {[n |-> forks, pid |-> forking, alive |-> TRUE]}
  /\ childCbs' = childCbs \cup {forking}
  /\ forking' = NoPid
  /\ UNCHANGED <<timerVars, control, watchers, nextWatcherId, sigchldSeen,
                 iteration, watcherCbs, micro, proc, forks, interrupted, descriptors>>

ChildUnregister(p) ==
  /\ JsFree
  /\ children' = ChildMarkedDead(p)
  /\ childCbs' = childCbs \ {p}
  /\ UNCHANGED <<timerVars, control, watchers, nextWatcherId, sigchldSeen, handler,
                 iteration, watcherCbs, micro, processes, descriptors>>

EnqueueMicrotask ==
  /\ JsFree /\ microtasksEver < MaxMicrotasks /\ InBounds
  /\ microtasks' = microtasks + 1
  /\ microtasksEver' = microtasksEver + 1
  /\ UNCHANGED <<timerVars, control, native, iteration, tables, processes, descriptors>>

SetTimer == JsFree /\ InBounds /\ \E d \in Delays, i \in BOOLEAN : TimerEnqueue(d, i)
ClearTimer == JsFree /\ \E id \in TimerIds : TimerClear(id)

JsStep ==
  \/ \E fd \in Fds : JsOpen(fd) \/ JsClose(fd)
  \/ \E p \in ready : JsUse(p)
  \/ \E fd \in Fds, events \in EventMasks : IoWatch(fd, events)
  \/ \E id \in WatcherIds : IoUnwatch(id)
  \/ \E p \in Pids : Fork(p) \/ ChildUnregister(p)
  \/ EnqueueMicrotask
  \/ (SetTimer \/ ClearTimer) /\ UNCHANGED loopVars

\* What runs next when a callback returns.  Exceptions are caught by the
\* trampolines, so a callback that throws returns as well.
DrainThen_Skips(l) == pc' = l /\ UNCHANGED ret \* Mutant: no drain
DrainThen(l) == pc' = "drain" /\ ret' = l

ResumeAfter_TimerDrains(kind) == \* Mutant: microtasks run between two timers
  CASE kind = "script"  -> DrainThen("top")
    [] kind = "watcher" -> DrainThen("fire")
    [] kind = "exit"    -> pc' = "top" /\ UNCHANGED ret
    [] kind = "timer"   -> DrainThen("timers")
    [] OTHER            -> UNCHANGED <<pc, ret>>

ResumeAfter(kind) ==
  CASE kind = "script"  -> DrainThen("top")
    [] kind = "watcher" -> DrainThen("fire")
    [] kind = "exit"    -> pc' = "top" /\ UNCHANGED ret
    [] OTHER            -> UNCHANGED <<pc, ret>>

JsReturn ==
  /\ JsFree
  /\ js' = "idle"
  /\ current' = 0
  /\ ResumeAfter(js)
  /\ IF js = "timer" THEN TimerReturn ELSE UNCHANGED timerVars
  /\ UNCHANGED <<loopRun, native, iteration, tables, micro, processes, descriptors>>

-----------------------------------------------------------------------------
(* The loop. *)

At(l) == pc = l /\ js = "idle"

\* __drain_microtasks__
DrainOne ==
  /\ At("drain") /\ microtasks > 0
  /\ microtasks' = microtasks - 1
  /\ js' = "microtask"
  /\ UNCHANGED <<timerVars, pc, ret, current, loopRun, native, iteration, tables,
                 microtasksEver, processes, descriptors>>

DrainDone ==
  /\ At("drain") /\ microtasks = 0
  /\ pc' = ret /\ ret' = "top"
  /\ UNCHANGED <<timerVars, js, current, loopRun, native, iteration, tables,
                 micro, processes, descriptors>>

NothingPending_OnlyTimers == ~AnyTimer                \* Mutant: select() forgotten
NothingPending_OnlyIo == Alive(watchers) = {} /\ Alive(children) = {} \* Mutant
NothingPending == ~AnyTimer /\ Alive(watchers) = {} /\ Alive(children) = {}

\* RunEventLoop returns to RunMain.
LoopReturns == pc' = IF loopRun = 1 THEN "flush" ELSE "exited"

\* Compact, look for pending work, compute the timeout, enter select().
Top ==
  /\ At("top")
  /\ watchers' = Alive(watchers)
  /\ children' = Alive(children)
  /\ anyTimer' = AnyTimer
  /\ timeout' = IF AnyTimer THEN EffectiveDelay(NextFireAt - now) ELSE Never
  /\ IF NothingPending THEN LoopReturns ELSE pc' = "select"
  /\ UNCHANGED <<timerVars, ret, js, current, loopRun, nextWatcherId, sigchldSeen,
                 handler, selected, polled, toFire, tables, micro, processes,
                 descriptors>>

SelectReturns(outcome, sets) ==
  /\ pc' = "polled"
  /\ selected' = outcome
  /\ polled' = sets
  /\ interrupted' = FALSE
  /\ timeout' = Never
  /\ UNCHANGED <<timerVars, ret, js, current, loopRun, native, anyTimer,
                 toFire, tables, micro, proc, forks, forking, descriptors>>

\* At the last value of the clock every timeout counts as elapsed.
Select ==
  /\ At("select")
  /\ \/ BadFd /\ SelectReturns("EBADF", {})
     \/ ~BadFd /\ ReadyWatched # {} /\ SelectReturns("ready", ReadyWatched)
     \/ ~BadFd /\ interrupted /\ SelectReturns("EINTR", {})
     \/ /\ ~BadFd /\ ReadyWatched = {}
        /\ timeout # Never /\ (timeout = 0 \/ now = MaxTime)
        /\ SelectReturns("timeout", {})

\* if (g_sigchld_seen): clear the flag, then reap.
CheckSigchld ==
  /\ At("polled")
  /\ sigchldSeen' = FALSE
  /\ pc' = IF sigchldSeen THEN "reap" ELSE "dispatch"
  /\ UNCHANGED <<timerVars, ret, js, current, loopRun, watchers, nextWatcherId,
                 children, handler, iteration, tables, micro, processes, descriptors>>

\* Mutant: one waitpid() per SIGCHLD
NothingToReap_One ==
  \A p \in Pids : proc[p] = "zombie" => \E q \in Pids : proc[q] = "reaped"
NothingToReap == \A p \in Pids : proc[p] # "zombie"

\* waitpid(-1, WNOHANG), then __event_loop_fire_child__.
ReapOne(p) ==
  /\ At("reap") /\ proc[p] = "zombie"
  /\ proc' = [proc EXCEPT ![p] = "reaped"]
  /\ children' = ChildMarkedDead(p)
  /\ childCbs' = childCbs \ {p}
  /\ IF p \in childCbs THEN js' = "child" /\ current' = p
                       ELSE UNCHANGED <<js, current>>
  /\ UNCHANGED <<timerVars, pc, ret, loopRun, watchers, nextWatcherId, sigchldSeen,
                 handler, iteration, watcherCbs, micro, forks, forking,
                 interrupted, descriptors>>

ReapDone ==
  /\ At("reap") /\ NothingToReap
  /\ children' = Alive(children)
  /\ DrainThen("dispatch")
  /\ UNCHANGED <<timerVars, js, current, loopRun, watchers, nextWatcherId,
                 sigchldSeen, handler, iteration, tables, micro, processes, descriptors>>

\* A select() error other than EINTR breaks out of the loop; otherwise the ids
\* to fire are computed from the records as they are now.
Dispatch ==
  /\ At("dispatch")
  /\ IF selected = "EBADF"
     THEN LoopReturns /\ toFire' = {}
     ELSE /\ pc' = "fire"
          /\ toFire' = {w.id : w \in {v \in Alive(watchers) :
                          \E e \in v.events : <<v.fd, e>> \in polled}}
  /\ selected' = "timeout" /\ polled' = {}
  /\ UNCHANGED <<timerVars, ret, js, current, loopRun, native, anyTimer, timeout,
                 tables, micro, processes, descriptors>>

HasCallback_Assumed(id) == TRUE \* Mutant: toFire is taken at its word
HasCallback(id) == id \in watcherCbs

\* __event_loop_fire_watcher__: a callback that is gone is skipped.
FireWatcher ==
  /\ At("fire")
  /\ \E id \in toFire :
       /\ \A other \in toFire : id <= other
       /\ toFire' = toFire \ {id}
       /\ IF HasCallback(id)
          THEN js' = "watcher" /\ current' = id /\ UNCHANGED <<pc, ret>>
          ELSE DrainThen("fire") /\ UNCHANGED <<js, current>>
  /\ UNCHANGED <<timerVars, loopRun, native, anyTimer, timeout, selected, polled,
                 tables, micro, processes, descriptors>>

PassWanted == anyTimer

\* if (anyTimer) FireDueTimers: anyTimer was computed before select().
FireDone ==
  /\ At("fire") /\ toFire = {}
  /\ IF PassWanted THEN BeginPass /\ pc' = "timers"
                 ELSE UNCHANGED timerVars /\ pc' = "top"
  /\ anyTimer' = FALSE
  /\ UNCHANGED <<ret, js, current, loopRun, native, timeout, selected, polled,
                 toFire, tables, micro, processes, descriptors>>

RunTimer ==
  /\ At("timers")
  /\ FireTimer
  /\ js' = "timer"
  /\ UNCHANGED <<pc, ret, current, loopRun, native, iteration, tables, micro,
                 processes, descriptors>>

TimersDone ==
  /\ At("timers")
  /\ EndPass
  /\ DrainThen("top")
  /\ UNCHANGED <<js, current, loopRun, native, iteration, tables, micro, processes,
                 descriptors>>

\* __process_flush_exit__, then RunEventLoop once more.
FlushExit ==
  /\ At("flush")
  /\ js' = "exit"
  /\ loopRun' = 2
  /\ UNCHANGED <<timerVars, pc, ret, current, native, iteration, tables, micro,
                 processes, descriptors>>

LoopStep ==
  \/ DrainOne \/ DrainDone
  \/ Top \/ Select \/ CheckSigchld
  \/ \E p \in Pids : ReapOne(p)
  \/ ReapDone \/ Dispatch \/ FireWatcher \/ FireDone
  \/ RunTimer \/ TimersDone \/ FlushExit

-----------------------------------------------------------------------------
(* The kernel. *)

\* select() looks at watched descriptors only; when the others become ready
\* does not matter.
FdReady(fd, e) ==
  /\ pc # "exited" /\ fd \in open
  /\ \E w \in Alive(watchers) : w.fd = fd /\ e \in w.events
  /\ ready' = ready \cup {<<fd, e>>}
  /\ UNCHANGED <<timerVars, control, native, iteration, tables, micro, processes, open>>

\* SIGCHLD is discarded while no handler is installed; it makes select() return
\* EINTR only if it comes while select() sleeps.
ChildExits(p) ==
  /\ pc # "exited" /\ proc[p] = "running"
  /\ proc' = [proc EXCEPT ![p] = "zombie"]
  /\ sigchldSeen' = (sigchldSeen \/ handler)
  /\ interrupted' = (interrupted \/ (handler /\ pc = "select"))
  /\ UNCHANGED <<timerVars, control, watchers, nextWatcherId, children, handler,
                 iteration, tables, micro, forks, forking, descriptors>>

\* The timeout of select() elapses whatever the date is set to.
ClockTicks ==
  /\ Tick
  /\ timeout' = IF pc = "select" /\ timeout > 0 THEN timeout - 1 ELSE timeout
  /\ UNCHANGED <<control, native, anyTimer, selected, polled, toFire,
                 tables, micro, processes, descriptors>>

DateSet == ClockSetBack /\ UNCHANGED loopVars

Kernel ==
  \/ \E fd \in Fds, e \in Events : FdReady(fd, e)
  \/ \E p \in Pids : ChildExits(p)
  \/ ClockTicks
  \/ DateSet

Exited == pc = "exited" /\ UNCHANGED vars

Next == JsStep \/ ChildRegister \/ JsReturn \/ LoopStep \/ Kernel \/ Exited

\* The loop's thread is scheduled, callbacks return, and the clock runs.
\* Nothing is assumed of descriptors, of child processes or of what scripts do.
Fairness ==
  /\ WF_vars(LoopStep)
  /\ WF_vars(JsReturn)
  /\ WF_vars(ChildRegister)
  /\ WF_vars(ClockTicks)

Spec == Init /\ [][Next]_vars /\ Fairness

-----------------------------------------------------------------------------
ControlTypeOK ==
  /\ pc \in {"script", "drain", "top", "select", "polled", "reap", "dispatch",
             "fire", "timers", "flush", "exited"}
  /\ ret \in {"top", "dispatch", "fire"}
  /\ js \in {"idle", "script", "microtask", "watcher", "child", "timer", "exit"}
  /\ current \in Nat
  /\ loopRun \in {1, 2}

NativeTypeOK ==
  /\ watchers \subseteq Watcher
  /\ nextWatcherId \in Nat \ {0}
  /\ children \subseteq Child
  /\ sigchldSeen \in BOOLEAN
  /\ handler \in BOOLEAN

IterationTypeOK ==
  /\ anyTimer \in BOOLEAN
  /\ timeout \in Nat \cup {Never}
  /\ selected \in {"ready", "timeout", "EINTR", "EBADF"}
  /\ polled \subseteq Fds \X Events
  /\ toFire \subseteq Nat

QueueTypeOK ==
  /\ watcherCbs \subseteq Nat
  /\ childCbs \subseteq Pids
  /\ microtasks \in Nat
  /\ microtasksEver \in Nat

KernelTypeOK ==
  /\ proc \in [Pids -> {"none", "running", "zombie", "reaped"}]
  /\ forks \in Nat
  /\ forking \in Pids \cup {NoPid}
  /\ interrupted \in BOOLEAN
  /\ open \subseteq Fds
  /\ ready \subseteq Fds \X Events

TypeOK ==
  /\ TimerTypeOK
  /\ ControlTypeOK
  /\ NativeTypeOK
  /\ IterationTypeOK
  /\ QueueTypeOK
  /\ KernelTypeOK

\* The native registry and the JavaScript callback table say the same: what
\* keeps the loop alive (g_watchers) has a callback, and every callback is of a
\* watcher that select() is given.  No two records share an id.
WatcherTablesAgree ==
  /\ AliveIds = watcherCbs
  /\ \A v, w \in watchers : v.id = w.id => v = w

\* A child that can still be reported keeps the loop alive and has its callback
\* exactly until waitpid() returns it or the script unregisters it, so its
\* callback cannot run twice.  (Pids are not reused.)
ChildTablesAgree ==
  /\ AlivePids = childCbs
  /\ \A p \in childCbs : proc[p] \in {"running", "zombie"}

\* Both registries, at once.
TablesAgree == WatcherTablesAgree /\ ChildTablesAgree

\* The loop sleeps, picks the watchers to fire, calls a watcher and gives up with
\* no microtask waiting: whoever queued one (the script, a watcher, a child or a
\* timer callback, another microtask), it has run by then.  (Exit handlers are
\* excepted: RunMain does not drain after them.)
SleepsDrained ==
  \A l \in {"top", "select", "polled", "dispatch", "fire", "flush"} :
    loopRun = 1 /\ At(l) => microtasks = 0

\* select() never sleeps past the first live timer, nor without a limit while
\* there is one: no JavaScript can set an earlier timer while it sleeps.
SleepEndsForTimers ==
  pc = "select" =>
    \A k \in DOMAIN timerQueue :
      ~timerQueue[k].cleared =>
        timeout # Never /\ (timeout = 0 \/ now + timeout <= timerQueue[k].fireAt)

\* RunMain ends only when nothing is registered: no timer, watcher or child.
\* ("Returns only when nothing is pending", main.cpp.)
ExitsOnlyWhenIdle ==
  pc = "exited" => ~AnyTimer /\ watcherCbs = {} /\ childCbs = {}

\* A watcher callback starts only while its watcher is registered, although the
\* ids to fire were chosen before earlier callbacks could unwatch some of them.
UnwatchedStaysSilent ==
  [][js = "idle" /\ js' = "watcher" => current' \in AliveIds]_vars

\* The loop keeps the rules of TimerQueue: passes do not nest, timers are set and
\* cleared only by JavaScript that runs outside a pass or as its callback.
ImplementsTimerQueue == InitTimers /\ [][TimerNext]_timerVars

\* A watched descriptor that is ready gets its callback, unless it is unwatched
\* or stops being ready first.  (Scripts do not close watched descriptors.)
ReadyWatcherIsCalled ==
  \A id \in WatcherIds :
    (\E w \in Alive(watchers) : /\ w.id = id
                                /\ \E e \in w.events : <<w.fd, e>> \in ready)
      ~> \/ js = "watcher" /\ current = id
         \/ ~\E w \in Alive(watchers) :
               w.id = id /\ \E e \in w.events : <<w.fd, e>> \in ready

\* As long as select() keeps returning, a child whose SIGCHLD was caught is
\* reaped: the flag is never cleared with its child left behind.
CaughtSigchldReaps ==
  []<>(pc = "polled") =>
    \A p \in Pids : (proc[p] = "zombie" /\ sigchldSeen) ~> proc[p] # "zombie"

=============================================================================
