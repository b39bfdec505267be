------------------------------ MODULE ChildProcess ------------------------------
(***************************************************************************)
(* spawn() and exec(): the streams and events that _cp_spawn (globals.cpp) *)
(* builds from spawnAsync (child_process.cpp) on the loop of EventLoop.    *)
(* The callbacks that EventLoop leaves open are here those of the library, *)
(* which in turn emit events to the listeners of the script.               *)
(*                                                                         *)
(* A child writes to two pipes and closes them in any order, at the latest *)
(* when it exits.  Scripts spawn, end stdin, set timers and destroy        *)
(* streams, but no stream from its own listener, or after its end, and     *)
(* their listeners do not throw.                                           *)
(***************************************************************************)
EXTENDS EventLoop

CONSTANTS
  PipeSize,      \* chunks a pipe buffers
  MaxWritten,    \* bound: chunks a child writes to "out" and to "err"
  MaxDestroys    \* bound: streams the script destroys

Outputs == {"out", "err"}

ASSUME ChildAssumption ==
  /\ PipeSize \in Nat \ {0}
  /\ MaxWritten \in [Outputs -> Nat]
  /\ MaxDestroys \in Nat
  /\ MaxCreated <= MaxTimers

VARIABLES
  turn,       \* in a callback: "user" (listener), "read", "return"
  fdOf,       \* the descriptors spawnAsync returned
  endOf,      \* what a descriptor refers to
  idOf,       \* the watcher of each stream
  watching,   \* the streams whose watchId is not null
  destroyed,  \* streams that destroy() was called for
  ended,      \* streams that have emitted 'end'
  closeTimer, \* the setImmediate() that will emit 'close', or 0
  said,       \* 'exit' and 'close' events emitted so far
  fill,       \* chunks in each pipe
  writing,    \* pipes whose writing end the child has open
  toWrite     \* chunks the child may still write to each pipe

streamVars == <<fdOf, endOf, idOf, watching, destroyed, ended>>
eventVars == <<closeTimer, said>>
pipeVars == <<fill, writing, toWrite>>
libVars == <<turn, streamVars, eventVars, pipeVars>>
allVars == <<vars, libVars>>

-----------------------------------------------------------------------------
Streams == Pids \X Outputs
Stdins == Pids \X {"in"}
NoPipe == <<NoPid, "none">>

ChildInit ==
  /\ Init
  /\ turn = "user"
  /\ fdOf = [s \in Streams \cup Stdins |-> 0]
  /\ endOf = [fd \in Fds |-> NoPipe]
  /\ idOf = [s \in Streams |-> 0]
  /\ watching = {} /\ destroyed = {} /\ ended = {}
  /\ closeTimer = [p \in Pids |-> 0]
  /\ said = {}
  /\ fill = [s \in Streams |-> 0]
  /\ writing = {}
  /\ toWrite = [s \in Streams |-> MaxWritten[s[2]]]

-----------------------------------------------------------------------------
(* The script, in its main body or in a listener. *)

UserRuns == JsFree /\ turn = "user"

UserTimersSet == nextTimerId - 1 - Cardinality({p \in Pids : closeTimer[p] # 0})
ChildBounds == forks + UserTimersSet < MaxCreated

\* spawnAsync up to its return and the two ioWatch calls of mkReadable; pipe()
\* hands out free descriptors in ascending order.  childRegister follows.
Spawn(p) ==
  /\ UserRuns /\ ChildBounds /\ forks < MaxForks /\ proc[p] = "none"
  /\ \E i, o, e \in Fds \ open :
       /\ i < o /\ o < e
       /\ open' = open \cup {i, o, e}
       /\ fdOf' = [fdOf EXCEPT ![<<p, "in">>] = i, ![<<p, "out">>] = o,
                               ![<<p, "err">>] = e]
       /\ endOf' = [endOf EXCEPT ![i] = <<p, "in">>, ![o] = <<p, "out">>,
                                 ![e] = <<p, "err">>]
       /\ watchers' = watchers \cup
            {[id |-> nextWatcherId, fd |-> o, events |-> {"r"}, alive |-> TRUE],
             [id |-> nextWatcherId + 1, fd |-> e, events |-> {"r"}, alive |-> TRUE]}
  /\ nextWatcherId' = nextWatcherId + 2
  /\ watcherCbs' = watcherCbs \cup {nextWatcherId, nextWatcherId + 1}
  /\ idOf' = [idOf EXCEPT ![<<p, "out">>] = nextWatcherId,
                          ![<<p, "err">>] = nextWatcherId + 1]
  /\ watching' = watching \cup {<<p, "out">>, <<p, "err">>}
  /\ writing' = writing \cup {<<p, "out">>, <<p, "err">>}
  /\ proc' = [proc EXCEPT ![p] = "running"]
  /\ forks' = forks + 1 /\ forking' = p
  /\ UNCHANGED <<timerVars, control, children, sigchldSeen, handler, iteration,
                 childCbs, micro, interrupted, ready, turn, destroyed, ended,
                 eventVars, fill, toWrite>>

\* closeFd: whatever the number refers to by now.
Closes(fd) ==
  /\ open' = open \ {fd}
  /\ ready' = {r \in ready : r[1] # fd}
  /\ endOf' = [endOf EXCEPT ![fd] = NoPipe]

Unwatches_Not(s) == UNCHANGED <<watchers, watcherCbs, watching>> \* Mutant: no ioUnwatch

\* if (watchId != null) ioUnwatch(watchId)
Unwatches(s) ==
  /\ watchers' = {IF s \in watching /\ w.id = idOf[s] THEN [w EXCEPT !.alive = FALSE]
                  ELSE w : w \in watchers}
  /\ watcherCbs' = IF s \in watching THEN watcherCbs \ {idOf[s]} ELSE watcherCbs
  /\ watching' = watching \ {s}

EndStdin(p) ==
  /\ UserRuns
  /\ \E fd \in open : endOf[fd] = <<p, "in">> /\ Closes(fd)
  /\ UNCHANGED <<timerVars, control, native, iteration, tables, micro, processes,
                 turn, fdOf, idOf, watching, destroyed, ended, eventVars,
                 pipeVars>>

RunningStream(s) == js = "watcher" /\ current = idOf[s]

Destroy(s) ==
  /\ UserRuns /\ s \in watching /\ ~RunningStream(s)
  /\ Cardinality(destroyed) < MaxDestroys
  /\ Unwatches(s)
  /\ Closes(fdOf[s])
  /\ destroyed' = destroyed \cup {s}
  /\ UNCHANGED <<timerVars, control, nextWatcherId, children, sigchldSeen, handler,
                 iteration, childCbs, micro, processes, turn, fdOf, idOf, ended,
                 eventVars, pipeVars>>

\* The clock stands still: a timer of the script is due in the next pass, or it is
\* pending all the time.
UserTimer ==
  /\ UserRuns /\ ChildBounds
  /\ \E d \in Delays : TimerEnqueue(d, FALSE)
  /\ UNCHANGED <<loopVars, libVars>>

-----------------------------------------------------------------------------
(* The library's callbacks. *)

ChildRegisters == ChildRegister /\ UNCHANGED libVars

\* onReady: read until the pipe is empty or at its end.
Reads(s) == RunningStream(s) /\ turn = "read" /\ endOf[fdOf[s]] = s
HasData(s) == fill[s] > 0
AtEof_Empty(s) == fill[s] = 0                        \* Mutant: empty is the end
AtEof_Reaped(s) == fill[s] = 0 /\ proc[s[1]] = "reaped" \* Mutant: waits for 'exit'
AtEof(s) == fill[s] = 0 /\ s \notin writing

\* One read() takes all there is.
ReadData(s) ==
  /\ Reads(s) /\ HasData(s)
  /\ fill' = [fill EXCEPT ![s] = 0]
  /\ ready' = IF s \in writing THEN ready \ {<<fdOf[s], "r">>} ELSE ready
  /\ turn' = "user"
  /\ UNCHANGED <<timerVars, control, native, iteration, tables, micro, processes,
                 open, fdOf, endOf, idOf, watching, destroyed, ended, eventVars,
                 writing, toWrite>>

\* The listener of 'data' returns and the loop goes on.
DataSeen(s) ==
  /\ UserRuns /\ RunningStream(s) /\ s \notin ended
  /\ turn' = "read"
  /\ UNCHANGED <<vars, streamVars, eventVars, pipeVars>>

ReadEnd(s) ==
  /\ Reads(s) /\ AtEof(s)
  /\ ended' = ended \cup {s}
  /\ turn' = "user"
  /\ UNCHANGED <<vars, fdOf, endOf, idOf, watching, destroyed, eventVars, pipeVars>>

\* The listener of 'end' returns; the watcher goes, then the descriptor.
EndSeen(s) ==
  /\ UserRuns /\ RunningStream(s) /\ s \in ended
  /\ Unwatches(s)
  /\ Closes(fdOf[s])
  /\ turn' = "return"
  /\ UNCHANGED <<timerVars, control, nextWatcherId, children, sigchldSeen, handler,
                 iteration, childCbs, micro, processes, fdOf, idOf, destroyed,
                 ended, eventVars, pipeVars>>

\* The listener of 'exit' returns; setImmediate(emit 'close').
ScheduleClose ==
  /\ UserRuns /\ js = "child"
  /\ TimerEnqueue(0, FALSE)
  /\ closeTimer' = [closeTimer EXCEPT ![current] = nextTimerId]
  /\ turn' = "return"
  /\ UNCHANGED <<loopVars, streamVars, said, pipeVars>>

CallbackReturns ==
  /\ \/ turn = "return"
     \/ turn = "user" /\ js \in {"script", "timer", "exit"}
     \/ \E s \in Streams : Reads(s) /\ ~HasData(s) /\ ~AtEof(s)
  /\ JsReturn
  /\ turn' = "user"
  /\ UNCHANGED <<streamVars, eventVars, pipeVars>>

\* A step of the loop; the callbacks it enters start by emitting 'exit' (child)
\* or 'close' (its timer), or by reading (watcher).
LoopSteps ==
  /\ LoopStep
  /\ turn' = IF js' = "watcher" THEN "read" ELSE "user"
  /\ said' = said
       \cup {<<p, "exit">> : p \in {q \in Pids : js' = "child" /\ current' = q}}
       \cup {<<p, "close">> : p \in {q \in Pids : /\ js' = "timer"
                                                  /\ closeTimer[q] = firing'.id}}
  /\ UNCHANGED <<streamVars, closeTimer, pipeVars>>

Library ==
  \/ ChildRegisters
  \/ \E s \in Streams : ReadData(s) \/ DataSeen(s) \/ ReadEnd(s) \/ EndSeen(s)
  \/ ScheduleClose \/ CallbackReturns
  \/ LoopSteps

-----------------------------------------------------------------------------
(* The children and the kernel. *)

ReadingEndOpen(s) == endOf[fdOf[s]] = s
Readable(s) == IF ReadingEndOpen(s) THEN {<<fdOf[s], "r">>} ELSE {}

\* Blocks while the pipe is full.  A child that writes to a closed pipe (EPIPE)
\* does what a child may do anyway: it closes the pipe or exits.
ChildWrites(s) ==
  /\ pc # "exited" /\ proc[s[1]] = "running"
  /\ s \in writing /\ ReadingEndOpen(s)
  /\ fill[s] < PipeSize /\ toWrite[s] > 0
  /\ fill' = [fill EXCEPT ![s] = @ + 1]
  /\ toWrite' = [toWrite EXCEPT ![s] = @ - 1]
  /\ ready' = ready \cup Readable(s)
  /\ UNCHANGED <<timerVars, control, native, iteration, tables, micro, processes,
                 open, turn, streamVars, eventVars, writing>>

ChildCloses(s) ==
  /\ pc # "exited" /\ s \in writing
  /\ writing' = writing \ {s} /\ toWrite' = [toWrite EXCEPT ![s] = 0]
  /\ ready' = ready \cup Readable(s)
  /\ UNCHANGED <<timerVars, control, native, iteration, tables, micro, processes,
                 open, turn, streamVars, eventVars, fill>>

\* exit() closes the pipes before it raises SIGCHLD.
ChildEnds(p) ==
  /\ \A x \in Outputs : <<p, x>> \notin writing
  /\ ChildExits(p)
  /\ UNCHANGED libVars

ChildNext ==
  \/ \E p \in Pids : Spawn(p) \/ EndStdin(p) \/ ChildEnds(p)
  \/ \E s \in Streams : Destroy(s) \/ ChildWrites(s) \/ ChildCloses(s)
  \/ UserTimer
  \/ Library
  \/ Exited /\ UNCHANGED libVars

\* The process runs and its callbacks return.  Children may stop at any point.
ChildSpec == ChildInit /\ [][ChildNext]_allVars /\ WF_allVars(Library)

-----------------------------------------------------------------------------
\* A stream that is watched reads its own pipe: its descriptor number has not been
\* closed and handed to another child, and its watcher is the one for that number.
StreamsOwnTheirFds ==
  \A s \in watching :
    /\ endOf[fdOf[s]] = s
    /\ \E w \in Alive(watchers) : w.id = idOf[s] /\ w.fd = fdOf[s]

\* 'end' comes after all the child wrote to that pipe has been read and emitted,
\* and the child can write no more.
EndIsComplete == \A s \in ended : s \notin writing /\ fill[s] = 0

\* When the program ends, the only descriptors left open are those of stdins that
\* nobody ended; exec() never ends its own.
OnlyStdinLeaks == pc = "exited" => \A fd \in open : endOf[fd] \in Stdins

\* A stream whose child has closed the pipe emits 'end', unless it is destroyed,
\* whether or not the exit of the child is ever noticed.
StreamEnds ==
  \A s \in Streams :
    (s \in watching /\ s \notin writing) ~> (s \in ended \cup destroyed)

\* 'exit' is followed by 'close'.
CloseFollowsExit ==
  \A p \in Pids : (<<p, "exit">> \in said) ~> (<<p, "close">> \in said)

\* What a child ends, a pipe or itself, the program is told of: neither waits for
\* the other, in whatever order they come.
EndsAreReported == StreamEnds /\ CloseFollowsExit

-----------------------------------------------------------------------------
(* What makes StreamsOwnTheirFds, EndIsComplete and OnlyStdinLeaks inductive. *)

StreamTypeOK ==
  /\ fdOf \in [Streams \cup Stdins -> Fds \cup {0}]
  /\ endOf \in [Fds -> Streams \cup Stdins \cup {NoPipe}]
  /\ idOf \in [Streams -> Nat]
  /\ watching \subseteq Streams
  /\ ended \subseteq Streams
  /\ fill \in [Streams -> Nat]
  /\ proc \in [Pids -> {"none", "running", "zombie", "reaped"}]
  /\ nextWatcherId \in Nat \ {0}

\* Watcher ids are handed out once, in ascending order, to streams that have been
\* spawned, and a child is spawned once.
StreamIds ==
  /\ \A s, t \in Streams : idOf[s] # 0 /\ idOf[s] = idOf[t] => s = t
  /\ \A s \in Streams : idOf[s] < nextWatcherId
  /\ \A s \in Streams : proc[s[1]] = "none" => idOf[s] = 0
  /\ \A s \in watching \cup ended : idOf[s] # 0

\* The callbacks in the table are those of watched streams, and the one that
\* reads is watched until it has seen the end.
ReaderIsWatched ==
  /\ watcherCbs \subseteq 1 .. nextWatcherId - 1
  /\ \A s \in Streams : idOf[s] \in watcherCbs => s \in watching
  /\ js = "watcher" /\ turn # "return" =>
       \A s \in Streams : idOf[s] = current => s \in watching

WatcherOf(s) == [id |-> idOf[s], fd |-> fdOf[s], events |-> {"r"}, alive |-> TRUE]

\* A watched stream's descriptor is open, its own, and polled.
WatchedFds ==
  /\ \A s \in watching : /\ fdOf[s] \in Fds
                          /\ endOf[fdOf[s]] = s
                          /\ WatcherOf(s) \in watchers
  /\ \A fd \in Fds : endOf[fd] # NoPipe => fd \in open

StreamInv ==
  /\ StreamTypeOK
  /\ StreamIds
  /\ ReaderIsWatched
  /\ WatchedFds
  /\ EndIsComplete

\* An open descriptor is the stdin of a child or that of a watched stream, and
\* whatever keeps select() busy is such a stream.
OpenFdsAreOwned ==
  /\ \A fd \in open :
       /\ fd \in Fds
       /\ endOf[fd] \in Stdins \/ (endOf[fd] \in watching /\ fdOf[endOf[fd]] = fd)
  /\ \A w \in Alive(watchers) : \E s \in watching : w = WatcherOf(s)

\* The loop ends with nothing watched: it is never given a bad descriptor.
EndsUnwatched ==
  /\ ret \in {"top", "dispatch", "fire"}
  /\ selected # "EBADF"
  /\ pc = "exited" => js = "idle" /\ Alive(watchers) = {}

LeakInv == StreamInv /\ OpenFdsAreOwned /\ EndsUnwatched
=============================================================================
