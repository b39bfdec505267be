------------------------------ MODULE SpawnSync ------------------------------
(***************************************************************************)
(* DoSpawn of child_process.cpp, the call behind execSync, spawnSync and   *)
(* execFileSync: three pipes, fork, then - in one thread and with blocking *)
(* calls only - write the whole input, read stdout to its end, read stderr *)
(* to its end, wait for the child.                                         *)
(*                                                                         *)
(* The child is an arbitrary program (with whatever it starts in turn): it *)
(* reads, writes, closes and exits as it likes.  Data are counted in       *)
(* chunks, a pipe holds PipeSize of them.                                  *)
(***************************************************************************)
EXTENDS Integers

CONSTANTS
  PipeSize,   \* chunks a pipe buffers
  Inputs,     \* chunks of opts.input, NoInput when the option is absent
  MaxWritten, \* bound: chunks the child writes to "out" and to "err"
  Faults,     \* what may fail: "pipe", "fork", "memory"
  Signals     \* may a signal interrupt a waitpid()?

Outputs == {"out", "err"}
NoInput == -1

ASSUME SpawnAssumption ==
  /\ PipeSize \in Nat \ {0}
  /\ Inputs \subseteq Nat \cup {NoInput}
  /\ MaxWritten \in [Outputs -> Nat]
  /\ Faults \subseteq {"pipe", "fork", "memory"}
  /\ Signals \in BOOLEAN

VARIABLES
  pc,        \* where DoSpawn is
  input,     \* chunks of input, or NoInput
  remain,    \* chunks of input still to write
  readEnds,  \* pipes DoSpawn has the reading end of open
  writeEnds, \* ... and the writing end
  collected, \* chunks in stdoutBuf and stderrBuf
  result,    \* what DoSpawn returned
  child,     \* what the child is doing
  childEnds, \* pipes the child has an end of
  fill,      \* chunks in each pipe
  written    \* history: chunks the child has written

fds == <<readEnds, writeEnds>>
parent == <<pc, input, remain, fds, collected, result>>
spawnSyncVars == <<parent, child, childEnds, fill, written>>

-----------------------------------------------------------------------------
Pipes == Outputs \cup {"in"}
Ended == {"exited", "signaled"}
HasInput == input # NoInput
Made == IF HasInput THEN Pipes ELSE Outputs

\* The pipes in the order they are made.
PipeOrder == IF HasInput THEN <<"out", "err", "in">> ELSE <<"out", "err">>
FirstPipes(k) == {PipeOrder[i] : i \in 1 .. k}

\* What the error path closes when making pipe k + 1 fails.
ClosedOnFailure_Err(k) == \* Mutant: the third failure forgets stderr
  IF k = 0 THEN {} ELSE {"out"}
ClosedOnFailure(k) ==
  CASE k = 0 -> {}
    [] k = 1 -> {"out"}
    [] k = 2 -> {"out", "err"}

SpawnSyncInit ==
  /\ pc = "pipes"
  /\ input \in Inputs
  /\ remain = IF HasInput THEN input ELSE 0
  /\ readEnds = {} /\ writeEnds = {}
  /\ collected = [x \in Outputs |-> 0]
  /\ result = "none"
  /\ child = "none" /\ childEnds = {}
  /\ fill = [p \in Pipes |-> 0]
  /\ written = [x \in Outputs |-> 0]

-----------------------------------------------------------------------------
(* DoSpawn. *)

MakePipes ==
  /\ pc = "pipes"
  /\ pc' = "fork"
  /\ readEnds' = Made /\ writeEnds' = Made
  /\ UNCHANGED <<input, remain, collected, result, child, childEnds, fill, written>>

PipeFails ==
  /\ pc = "pipes" /\ "pipe" \in Faults
  /\ \E k \in 0 .. IF HasInput THEN 2 ELSE 1 :
       LET left == FirstPipes(k) \ ClosedOnFailure(k)
       IN  readEnds' = left /\ writeEnds' = left
  /\ pc' = "done" /\ result' = "failed"
  /\ UNCHANGED <<input, remain, collected, child, childEnds, fill, written>>

ForkFails ==
  /\ pc = "fork" /\ "fork" \in Faults
  /\ readEnds' = readEnds \ Made /\ writeEnds' = writeEnds \ Made
  /\ pc' = "done" /\ result' = "failed"
  /\ UNCHANGED <<input, remain, collected, child, childEnds, fill, written>>

CloseChildSide ==
  readEnds' = readEnds \ {"in"} /\ writeEnds' = writeEnds \ {"out", "err"}

\* Without an input the child reads /dev/null.
Fork ==
  /\ pc = "fork"
  /\ child' = "running"
  /\ childEnds' = Made
  /\ CloseChildSide
  /\ pc' = IF HasInput THEN "write" ELSE "drain out"
  /\ UNCHANGED <<input, remain, collected, result, fill, written>>

MoreInput == remain > 0
InputRead == "in" \in childEnds \cup readEnds

WriteInput ==
  /\ pc = "write" /\ MoreInput
  /\ InputRead /\ fill["in"] < PipeSize
  /\ remain' = remain - 1
  /\ fill' = [fill EXCEPT !["in"] = @ + 1]
  /\ UNCHANGED <<pc, input, fds, collected, result, child, childEnds, written>>

CloseInput_Not == UNCHANGED writeEnds \* Mutant: the child sees no end of its input
CloseInput == writeEnds' = writeEnds \ {"in"}

\* All is written, or write() fails with EPIPE.
InputDone ==
  /\ pc = "write"
  /\ ~MoreInput \/ ~InputRead
  /\ CloseInput
  /\ pc' = "drain out"
  /\ UNCHANGED <<input, remain, readEnds, collected, result, child, childEnds, fill, written>>

Draining(x) == pc = IF x = "out" THEN "drain out" ELSE "drain err"
AtEnd_Closed(x) == x \notin childEnds \cup writeEnds \* Mutant: data may be left
AtEnd(x) == fill[x] = 0 /\ x \notin childEnds \cup writeEnds

DrainSome(x) ==
  /\ Draining(x) /\ fill[x] > 0
  /\ fill' = [fill EXCEPT ![x] = @ - 1]
  /\ collected' = [collected EXCEPT ![x] = @ + 1]
  /\ UNCHANGED <<pc, input, remain, fds, result, child, childEnds, written>>

DrainDone(x) ==
  /\ Draining(x) /\ AtEnd(x)
  /\ readEnds' = readEnds \ {x}
  /\ pc' = IF x = "out" THEN "drain err" ELSE "wait"
  /\ UNCHANGED <<input, remain, writeEnds, collected, result, child, childEnds, fill, written>>

Abandon == pc' = "abort"

\* DrainFd cannot grow its buffer: nothing of the output is returned.
DrainFails(x) ==
  /\ Draining(x) /\ "memory" \in Faults
  /\ fill[x] > 0 \/ AtEnd(x)
  /\ readEnds' = readEnds \ IF x = "out" THEN {"out", "err"} ELSE {"err"}
  /\ collected' = [y \in Outputs |-> 0]
  /\ Abandon
  /\ UNCHANGED <<input, remain, writeEnds, result, child, childEnds, fill, written>>

Wait ==
  /\ pc = "wait" /\ child \in Ended
  /\ pc' = "done" /\ result' = child
  /\ child' = "reaped"
  /\ UNCHANGED <<input, remain, fds, collected, childEnds, fill, written>>

\* The waitpid() of the error paths is not repeated when it is interrupted.
AbortWait ==
  /\ pc = "abort"
  /\ \/ child \in Ended /\ child' = "reaped"
     \/ Signals /\ UNCHANGED child
  /\ pc' = "done" /\ result' = "failed"
  /\ UNCHANGED <<input, remain, fds, collected, childEnds, fill, written>>

DoSpawn ==
  \/ MakePipes \/ PipeFails \/ ForkFails \/ Fork
  \/ WriteInput \/ InputDone
  \/ \E x \in Outputs : DrainSome(x) \/ DrainDone(x) \/ DrainFails(x)
  \/ Wait \/ AbortWait

-----------------------------------------------------------------------------
(* The child: it commits to a call, then blocks in it. *)

ChildCalls(p) ==
  /\ child = "running" /\ p \in childEnds
  /\ p \in Outputs => written[p] < MaxWritten[p]
  /\ child' = p
  /\ UNCHANGED <<parent, childEnds, fill, written>>

\* At the end of its input it has no more use for it.
ChildReads ==
  /\ child = "in"
  /\ \/ fill["in"] > 0 /\ fill' = [fill EXCEPT !["in"] = @ - 1] /\ UNCHANGED childEnds
     \/ /\ fill["in"] = 0 /\ "in" \notin writeEnds
        /\ childEnds' = childEnds \ {"in"} /\ UNCHANGED fill
  /\ child' = "running"
  /\ UNCHANGED <<parent, written>>

ChildWrites(x) ==
  /\ child = x /\ x \in readEnds /\ fill[x] < PipeSize
  /\ fill' = [fill EXCEPT ![x] = @ + 1]
  /\ written' = [written EXCEPT ![x] = @ + 1]
  /\ child' = "running"
  /\ UNCHANGED <<parent, childEnds>>

\* EPIPE: the child dies of SIGPIPE, or gives up the descriptor if it inherited
\* that signal ignored.
ChildBreaks(x) ==
  /\ child = x /\ x \notin readEnds
  /\ \/ child' = "signaled" /\ childEnds' = {}
     \/ child' = "running" /\ childEnds' = childEnds \ {x}
  /\ UNCHANGED <<parent, fill, written>>

ChildCloses(p) ==
  /\ child = "running" /\ p \in childEnds
  /\ childEnds' = childEnds \ {p}
  /\ UNCHANGED <<parent, child, fill, written>>

ChildExits ==
  /\ child = "running"
  /\ child' \in Ended
  /\ childEnds' = {}
  /\ UNCHANGED <<parent, fill, written>>

Child ==
  \/ \E p \in Pipes : ChildCalls(p) \/ ChildCloses(p)
  \/ ChildReads
  \/ \E x \in Outputs : ChildWrites(x) \/ ChildBreaks(x)
  \/ ChildExits

Returned == pc = "done" /\ UNCHANGED spawnSyncVars

SpawnSyncNext == DoSpawn \/ Child \/ Returned

\* Both processes are scheduled; within the bounds the child ends of itself
\* unless it is left blocked.
SpawnSyncSpec ==
  /\ SpawnSyncInit /\ [][SpawnSyncNext]_spawnSyncVars
  /\ WF_spawnSyncVars(DoSpawn) /\ WF_spawnSyncVars(Child)

-----------------------------------------------------------------------------
TypeOK ==
  /\ pc \in {"pipes", "fork", "write", "drain out", "drain err", "wait", "abort", "done"}
  /\ input \in Inputs
  /\ remain \in Nat
  /\ readEnds \subseteq Pipes
  /\ writeEnds \subseteq Pipes
  /\ collected \in [Outputs -> Nat]
  /\ result \in {"none", "failed"} \cup Ended
  /\ child \in {"none", "running", "reaped"} \cup Pipes \cup Ended
  /\ childEnds \subseteq Pipes
  /\ fill \in [Pipes -> 0 .. PipeSize]
  /\ written \in [Outputs -> Nat]

ParentWaits ==
  \/ pc = "write" /\ MoreInput /\ InputRead /\ fill["in"] = PipeSize
  \/ \E x \in Outputs : Draining(x) /\ fill[x] = 0 /\ ~AtEnd(x)
  \/ pc \in {"wait", "abort"} /\ child \notin Ended

ChildWaits ==
  \/ child = "in" /\ fill["in"] = 0 /\ "in" \in writeEnds
  \/ \E x \in Outputs : child = x /\ x \in readEnds /\ fill[x] = PipeSize

\* The two processes never wait for each other.  It takes that stderr fits into
\* its pipe, and that the input or stdout does: see SmallEnough.
NoMutualWait == ~(ParentWaits /\ ChildWaits)

SmallEnough ==
  /\ MaxWritten["err"] <= PipeSize
  /\ \/ \A i \in Inputs : i <= PipeSize
     \/ MaxWritten["out"] <= PipeSize

\* What is returned of a child that ran to its end is all it ever wrote.
OutputComplete == result \in Ended => collected = written

\* No path leaves a descriptor open in the long-lived parent ...
FdsReleased == pc = "done" => readEnds = {} /\ writeEnds = {}

\* ... or a zombie behind, unless memory ran out as a signal came.
ChildReaped ==
  pc = "done" => child \in {"none", "reaped"} \/ (result = "failed" /\ Signals)

\* Whatever fails on the way, the call leaves nothing behind.
NothingLeft == FdsReleased /\ ChildReaped
=============================================================================
