------------------------------ MODULE FileSystem ------------------------------
(* The fs module: the native calls of fs.cpp and the JavaScript around them in *)
(* globals.cpp.  A native call that makes several system calls is modelled one *)
(* system call at a time, between which another process may change the files   *)
(* and a write may be short or fail; one that makes a single system call is    *)
(* one step.  The asynchronous functions and the promises do the whole call at *)
(* once and only deliver its result later (_fsAsync), through the timer queue. *)
(*                                                                             *)
(* A path is the sequence of its components.  os is the kernel: the names, the *)
(* bytes of the files and the descriptor table of this process.  EINTR, which  *)
(* the code answers by repeating the call, is a stuttering step.               *)
EXTENDS Naturals, Sequences, FiniteSets, SequencesExt

CONSTANTS Paths,        \* the paths the program and the other process use
          LinkTargets,  \* what the program lets symbolic links point to
          StartTree, StartData,       \* the files there are at the start
          Inodes, Fds, Flags, Bytes, Copies, \* what is opened for what, written, copied where
          Options,      \* <<force, recursive>> of rmSync and cpSync
          MaxCalls, MaxFaults, MaxMeddles   \* bounds

ASSUME FileSystemAssumption ==
  /\ Fds \subseteq Nat \ {0}     \* 0, standard input, is in use all the time
  /\ Flags \subseteq {"r", "r+", "w", "wx", "w+", "a", "ax"}
  /\ {MaxCalls, MaxFaults, MaxMeddles} \subseteq Nat
  /\ Paths \subseteq Seq(STRING)
  /\ 0 \notin Inodes             \* a descriptor of a directory has it
  /\ StartData \in [Inodes \cup {0} -> Seq(Nat)] /\ Bytes \in Seq(Nat)

VARIABLES os,           \* the kernel's side: names, files, descriptors
          stack,        \* the calls in progress, the innermost last
          api,          \* the call of the program they belong to, or NoCall
          immediates,   \* callbacks waiting in the timer queue
          told,         \* the error the last finished call ended with ("": none)
          mine,         \* descriptors the program itself has open
          rs, ws,       \* a read stream and a write stream
          left          \* what the bounds still allow

vars == <<os, stack, api, immediates, told, mine, rs, ws, left>>

----------------------------------------------------------------------------
(* The kernel *)
NoCall == [op |-> "none"]
Absent == [kind |-> "absent"]
Dir == [kind |-> "dir"]
File(i) == [kind |-> "file", ino |-> i]
Link(p) == [kind |-> "link", to |-> p]
Closed == [ino |-> 0, pos |-> 0, flags |-> {"closed"}]

ASSUME StartTreeAssumption ==
  \A q \in DOMAIN StartTree :
    StartTree[q] = Dir \/ StartTree[q].kind = "link" \/ \E i \in Inodes : StartTree[q] = File(i)

NoStream == [at |-> "none", ending |-> FALSE, flag |-> "w"]   \* the default of createWriteStream

Ok(k) == [k |-> k, err |-> ""]
Fails(e) == [k |-> os, err |-> e]

\* The name a path leads to, symbolic links followed (one at each name).
Follow(k, q) == IF q \in DOMAIN k.tree /\ k.tree[q].kind = "link" THEN k.tree[q].to ELSE q
Real(k, p) ==
  LET real[i \in 0..Len(p)] == IF i = 0 THEN <<>> ELSE Follow(k, Append(real[i - 1], p[i]))
  IN  real[Len(p)]
Name(k, p) == Append(Real(k, Front(p)), Last(p))   \* the last link not followed
Entry(k, q) == IF q \in DOMAIN k.tree THEN k.tree[q] ELSE Absent
At(k, p) == Entry(k, Real(k, p))
Inside(k, q) == {x \in DOMAIN k.tree : Len(x) = Len(q) + 1 /\ IsPrefix(q, x)}

Used(k) == {k.tree[q].ino : q \in {x \in DOMAIN k.tree : k.tree[x].kind = "file"}}
           \cup {k.fds[f].ino : f \in Fds}
FreeFds(k) == {f \in Fds : k.fds[f] = Closed}
Without(k, q) == [k EXCEPT !.tree = [x \in DOMAIN k.tree \ {q} |-> k.tree[x]]]
With(k, q, e) == [k EXCEPT !.tree = [x \in DOMAIN k.tree \cup {q} |-> IF x = q THEN e ELSE k.tree[x]]]

\* open(): with a new file for O_CREAT, emptied for O_TRUNC; a directory can
\* be opened for reading.  It fails when there is no inode left, or a link still.
LowestFd(k) == CHOOSE x \in FreeFds(k) : \A y \in FreeFds(k) : x <= y
Opened(k, i, flags) == [k EXCEPT !.fds[LowestFd(k)] = [ino |-> i, pos |-> 0, flags |-> flags]]
KOpen(k, p, flags) ==
  LET q == Real(k, p)
      unused == Inodes \ Used(k)
      i == CHOOSE x \in unused : TRUE
      opened(j) == Opened(k, j, flags)
  IN  IF FreeFds(k) = {} THEN Fails("EMFILE") ELSE
      CASE q \notin DOMAIN k.tree /\ ("creat" \notin flags \/ At(k, Front(q)) # Dir) -> Fails("ENOENT")
        [] q \notin DOMAIN k.tree /\ "creat" \in flags /\ At(k, Front(q)) = Dir ->
             IF unused = {} THEN Fails("ENOSPC")
             ELSE Ok([With(opened(i), q, File(i)) EXCEPT !.data[i] = <<>>])
        [] q \in DOMAIN k.tree /\ "excl" \in flags -> Fails("EEXIST")
        [] q \in DOMAIN k.tree /\ "excl" \notin flags /\ k.tree[q] = Dir ->
             IF "write" \in flags THEN Fails("EISDIR") ELSE Ok(opened(0))
        [] q \in DOMAIN k.tree /\ "excl" \notin flags /\ k.tree[q].kind = "link" -> Fails("ELOOP")
        [] OTHER -> Ok(IF "trunc" \in flags THEN [opened(k.tree[q].ino) EXCEPT !.data[k.tree[q].ino] = <<>>]
                       ELSE opened(k.tree[q].ino))
NewFd(r) == CHOOSE f \in Fds : os.fds[f] = Closed /\ r.k.fds[f] # Closed
KClose(k, f) == [k EXCEPT !.fds[f] = Closed]

\* write() at the descriptor's position, or at the end (O_APPEND).
KWrite(k, f, bytes) ==
  LET i == k.fds[f].ino  old == k.data[i]
      pos == IF "append" \in k.fds[f].flags THEN Len(old) ELSE k.fds[f].pos
      end == pos + Len(bytes)
  IN  [k EXCEPT !.data[i] = [n \in 1..(IF end > Len(old) THEN end ELSE Len(old)) |->
                               IF n \in (pos + 1)..end THEN bytes[n - pos]
                               ELSE IF n <= Len(old) THEN old[n] ELSE 0],
                !.fds[f].pos = end]
KRead(k, f, n) ==
  LET bytes == k.data[k.fds[f].ino]  pos == k.fds[f].pos
  IN  SubSeq(bytes, pos + 1, IF pos + n < Len(bytes) THEN pos + n ELSE Len(bytes))

----------------------------------------------------------------------------
(* Native calls of one system call: the kernel after it, and its error. *)
Existing(p, r) == IF At(os, p) = Absent THEN Fails("ENOENT") ELSE r

StatSync(p) == Existing(p, Ok(os))         \* lstatSync is this function too
ReaddirSync(p) == Existing(p, IF At(os, p) = Dir THEN Ok(os) ELSE Fails("ENOTDIR"))
ReadlinkSync(p) ==
  CASE Entry(os, Name(os, p)) = Absent -> Fails("ENOENT")
    [] Entry(os, Name(os, p)).kind = "link" -> Ok(os)
    [] OTHER -> Fails("EINVAL")
UnlinkSync(p) ==
  CASE Entry(os, Name(os, p)) = Absent -> Fails("ENOENT")
    [] Entry(os, Name(os, p)) = Dir -> Fails("EPERM")
    [] OTHER -> Ok(Without(os, Name(os, p)))
Mkdir(p) ==
  CASE At(os, Front(p)) = Absent -> Fails("ENOENT")
    [] At(os, Front(p)) \notin {Absent, Dir} -> Fails("ENOTDIR")
    [] Entry(os, Name(os, p)) # Absent -> Fails("EEXIST")
    [] OTHER -> Ok(With(os, Name(os, p), Dir))
RmdirSync(p) ==
  CASE Entry(os, Name(os, p)) = Absent -> Fails("ENOENT")
    [] Entry(os, Name(os, p)).kind \in {"file", "link"} -> Fails("ENOTDIR")
    [] Inside(os, Name(os, p)) # {} -> Fails("ENOTEMPTY")
    [] OTHER -> Ok(Without(os, Name(os, p)))
SymlinkSync(to, p) ==
  CASE At(os, Front(p)) # Dir -> Fails("ENOENT")
    [] Entry(os, Name(os, p)) # Absent -> Fails("EEXIST")
    [] OTHER -> Ok(With(os, Name(os, p), Link(to)))
LinkSync(p, q) ==
  CASE At(os, p) = Absent \/ At(os, Front(q)) # Dir -> Fails("ENOENT")
    [] At(os, p) = Dir -> Fails("EPERM")
    [] Entry(os, Name(os, q)) # Absent -> Fails("EEXIST")
    [] OTHER -> Ok(With(os, Name(os, q), At(os, p)))
\* renameSync, of files: its error is a plain one, that carries no code.
RenameSync(p, q) ==
  IF \/ Entry(os, Name(os, p)).kind \notin {"file"} \/ At(os, Front(q)) # Dir
     \/ Entry(os, Name(os, q)).kind \notin {"absent", "file"}
  THEN Fails("no code")
  ELSE IF Entry(os, Name(os, q)) = Entry(os, Name(os, p)) THEN Ok(os)
  ELSE Ok(With(Without(os, Name(os, p)), Name(os, q), Entry(os, Name(os, p))))
TruncateSync(p) ==
  Existing(p, IF At(os, p) = Dir THEN Fails("EISDIR") ELSE Ok([os EXCEPT !.data[At(os, p).ino] = <<>>]))
\* Modes and times are not modelled, owners only as far as chown() is refused.
ChmodSync(p) == Existing(p, Ok(os))
UtimesSync(p) == Existing(p, Ok(os))
ChownSync(p, same) ==
  IF Entry(os, Name(os, p)) # Absent /\ same THEN Ok(os) ELSE Existing(p, Fails("EPERM"))

\* The same on a descriptor.
IsOpen(f) == os.fds[f] # Closed
OnFd(f, r) == IF IsOpen(f) THEN r ELSE Fails("EBADF")
FchmodSync(f) == OnFd(f, Ok(os))
FutimesSync(f) == OnFd(f, Ok(os))
FchownSync(f, same) == OnFd(f, IF same THEN Ok(os) ELSE Fails("EPERM"))
ReadSync(f, n, positioned) ==
  IF ~IsOpen(f) \/ {"read", "write"} \cap os.fds[f].flags = {"write"} THEN Fails("EBADF")
  ELSE IF os.fds[f].ino = 0 THEN Fails("EISDIR")
  ELSE Ok(IF positioned THEN os ELSE [os EXCEPT !.fds[f].pos = @ + Len(KRead(os, f, n))])
WriteSync(f, bytes, positioned) ==
  IF ~IsOpen(f) \/ "write" \notin os.fds[f].flags THEN Fails("EBADF")
  ELSE LET after == KWrite(IF positioned THEN [os EXCEPT !.fds[f].pos = 0] ELSE os, f, bytes)
       IN  Ok(IF positioned THEN [after EXCEPT !.fds[f].pos = os.fds[f].pos] ELSE after)

ParseOpenFlags ==
  [s \in {"r", "r+", "w", "wx", "w+", "a", "ax"} |->
     CASE s = "r" -> {"read"}
       [] s = "r+" -> {"read", "write"}
       [] s = "w" -> {"write", "creat", "trunc"}
       [] s = "wx" -> {"write", "creat", "trunc", "excl"}
       [] s = "w+" -> {"read", "write", "creat", "trunc"}
       [] s = "a" -> {"write", "creat", "append"}
       [] s = "ax" -> {"write", "creat", "append", "excl"}]

----------------------------------------------------------------------------
(* Calling and answering *)
Top == Last(stack)
Change(frame) == stack' = Append(Front(stack), frame)
Push(frame) == stack' = Append(stack, frame)

\* _fsAsync and the promises: the call is made at once, its callback comes
\* with the immediates.  The synchronous functions return instead.
Deliver == immediates' \in {immediates, Append(immediates, "callback")}

Spend(what) == left[what] > 0 /\ left' = [left EXCEPT ![what] = @ - 1]

\* A call of one system call.
Simple(r) ==
  /\ stack = <<>> /\ Spend("calls")
  /\ os' = r.k /\ told' = r.err
  /\ Deliver
  /\ UNCHANGED <<stack, api, rs, ws>>

\* A call of several: it is on the stack from here on.
Begin(call, frame) ==
  /\ stack = <<>>
  /\ stack' = <<frame>>
  /\ api' = call

NextChunk(queue) == Append(queue, "chunk")
\* createReadStream: a destroyed stream says no more; at the end of the data
\* 'end' ends the stream it is piped to; else the next chunk goes there.
AtEnd(s) == s.pos >= Len(s.data)
EmitChunk(s, queue) ==
  IF s.at = "destroyed" THEN rs' = s /\ ws' = ws /\ immediates' = queue
  ELSE IF AtEnd(s)
  THEN /\ rs' = [s EXCEPT !.at = "ended"]
       /\ ws' = IF s.piped THEN [ws EXCEPT !.ending = TRUE] ELSE ws
       /\ immediates' = IF s.piped THEN Append(queue, "flush") ELSE queue
  ELSE LET chunk == s.data[s.pos + 1] IN
       /\ rs' = [s EXCEPT !.pos = @ + 1, !.out = Append(@, chunk)]
       /\ ws' = IF s.piped /\ ws.writable THEN [ws EXCEPT !.parts = Append(@, chunk)] ELSE ws
       /\ immediates' = NextChunk(queue)

\* The whole call ends, with an error or without, in the way it was made.
Finish(e, bytes) ==
  /\ stack' = <<>> /\ api' = NoCall /\ told' = e
  /\ \/ api.mode = "program" /\ Deliver /\ UNCHANGED <<rs, ws>>
     \/ api.mode = "sync" /\ UNCHANGED <<immediates, rs, ws>>
     \/ /\ api.mode = "read stream"
        /\ IF e # "" THEN rs' = [rs EXCEPT !.at = "failed"] /\ UNCHANGED <<ws, immediates>>
           ELSE EmitChunk([rs EXCEPT !.data = SubSeq(bytes, rs.start + 1, Len(bytes))], immediates)
     \/ /\ api.mode = "write stream"
        /\ ws' = IF e = "" THEN [ws EXCEPT !.writable = FALSE, !.at = "finished"]
                 ELSE [ws EXCEPT !.at = "failed"]
        /\ UNCHANGED <<rs, immediates>>
  /\ UNCHANGED <<mine, left>>

\* A frame returns to the one that called it.
Return ==
  IF Len(stack) = 1 THEN Finish("", <<>>)
  ELSE stack' = Front(stack) /\ UNCHANGED <<api, told, immediates, rs, ws, mine, left>>

\* Mutant: the errors of a copy are swallowed without force, too.
Throw_Swallows(e) == IF Top.op = "copy" /\ api.op = "cp" THEN Return ELSE Finish(e, <<>>)

\* A frame throws: cpSync with force swallows the error of a copy, nothing
\* else catches.
Throw(e) ==
  IF Top.op = "copy" /\ api.op = "cp" /\ api.force THEN Return ELSE Finish(e, <<>>)

Going == UNCHANGED <<api, told, immediates, rs, ws, mine, left>>

----------------------------------------------------------------------------
(* readFileSync *)
ReadOpens ==
  /\ stack # <<>> /\ Top.op = "read" /\ Top.fd = 0
  /\ LET r == KOpen(os, Top.path, {"read"}) IN
     IF r.err # "" THEN os' = os /\ Throw(r.err)
     ELSE LET i == r.k.fds[NewFd(r)].ino IN
          /\ os' = r.k /\ Going
          /\ Change([Top EXCEPT !.fd = NewFd(r), !.size = IF i = 0 THEN 0 ELSE Len(os.data[i])])
ReadReads ==
  /\ stack # <<>> /\ Top.op = "read" /\ Top.fd # 0
  /\ os' = KClose(os, Top.fd)
  /\ LET i == os.fds[Top.fd].ino IN
     IF i = 0 \/ Len(os.data[i]) < Top.size THEN Finish("ENOENT", <<>>)
     ELSE Finish("", SubSeq(os.data[i], 1, Top.size))

(* The loop around write(): any part of what is left, or an error.  Both      *)
(* writeFileSync and appendFileSync, and copyFileSync for each block it reads. *)
\* Mutant: a short write is taken for a whole one.
Advance_All(n, rest) == <<>>
Advance(n, rest) == SubSeq(rest, n + 1, Len(rest))

WriteOpens ==
  /\ stack # <<>> /\ Top.op = "write" /\ Top.fd = 0
  /\ LET r == KOpen(os, Top.path, ParseOpenFlags[Top.flag]) IN
     IF r.err # "" THEN os' = os /\ Throw(r.err)
     ELSE os' = r.k /\ Change([Top EXCEPT !.fd = NewFd(r)]) /\ Going
WriteWrites ==
  /\ stack # <<>> /\ Top.op = "write" /\ Top.fd # 0 /\ Top.rest # <<>>
  /\ IF os.full THEN os' = KClose(os, Top.fd) /\ Throw("ENOSPC")
     ELSE \E n \in 1..Len(Top.rest) :
            /\ os' = KWrite(os, Top.fd, SubSeq(Top.rest, 1, n))
            /\ Change([Top EXCEPT !.rest = Advance(n, @)]) /\ Going
WriteDone ==
  /\ stack # <<>> /\ Top.op = "write" /\ Top.fd # 0 /\ Top.rest = <<>>
  /\ os' = KClose(os, Top.fd)
  /\ Return

(* copyFileSync: blocks of one byte. *)
CopyOpens ==
  /\ stack # <<>> /\ Top.op = "copy" /\ Top.fd = 0
  /\ LET r == KOpen(os, Top.path, {"read"}) IN
     IF r.err # "" THEN os' = os /\ Throw(r.err)
     ELSE os' = r.k /\ Change([Top EXCEPT !.fd = NewFd(r)]) /\ Going
\* Mutant: the error of the second open() forgets the first descriptor.
OpenFailed_Leaks == os
OpenFailed == KClose(os, Top.fd)
CopyCreates ==
  /\ stack # <<>> /\ Top.op = "copy" /\ Top.fd # 0 /\ Top.dfd = 0
  /\ LET r == KOpen(os, Top.dst, ParseOpenFlags["w"]) IN
     IF r.err # "" THEN os' = OpenFailed /\ Throw(r.err)
     ELSE os' = r.k /\ Change([Top EXCEPT !.dfd = NewFd(r)]) /\ Going
CloseBoth == KClose(KClose(os, Top.fd), Top.dfd)
CopyReads ==
  /\ stack # <<>> /\ Top.op = "copy" /\ Top.dfd # 0 /\ Top.rest = <<>>
  /\ IF os.fds[Top.fd].ino = 0 THEN os' = CloseBoth /\ Throw("EISDIR")
     ELSE LET block == KRead(os, Top.fd, 2) IN
          IF block = <<>> THEN os' = CloseBoth /\ Return
          ELSE /\ os' = [os EXCEPT !.fds[Top.fd].pos = @ + Len(block)]
               /\ Change([Top EXCEPT !.rest = block]) /\ Going
CopyWrites ==
  /\ stack # <<>> /\ Top.op = "copy" /\ Top.rest # <<>>
  /\ IF os.full THEN os' = CloseBoth /\ Throw("ENOSPC")
     ELSE \E n \in 1..Len(Top.rest) :
            /\ os' = KWrite(os, Top.dfd, SubSeq(Top.rest, 1, n))
            /\ Change([Top EXCEPT !.rest = Advance(n, @)]) /\ Going

----------------------------------------------------------------------------
(* MkdirRecursive: each prefix in turn, an existing name being no error. *)
MkdirFrame(p) == [op |-> "mkdir", path |-> p, i |-> 1]
MkdirStep ==
  /\ stack # <<>> /\ Top.op = "mkdir"
  /\ LET r == Mkdir(SubSeq(Top.path, 1, Top.i)) IN
     /\ os' = r.k
     /\ IF r.err \notin {"", "EEXIST"} THEN Throw(r.err)
        ELSE IF Top.i = Len(Top.path) THEN Return
        ELSE Change([Top EXCEPT !.i = @ + 1]) /\ Going

(* rmSync: a stat that follows links, then the entries, then the name.  force *)
(* silences the errors of the stat, of unlink and of rmdir, not of readdir.   *)
RmFrame(p) == [op |-> "rm", path |-> p, at |-> "stat", rest |-> {}]
Entries(p) == {Last(q) : q \in Inside(os, Real(os, p))}
RmGone(e) == IF api.force THEN Return ELSE Throw(e)

RmStats ==
  /\ stack # <<>> /\ Top.op = "rm" /\ Top.at = "stat"
  /\ os' = os
  /\ CASE At(os, Top.path) = Absent -> RmGone("ENOENT")
       [] At(os, Top.path) = Dir ->
            IF api.recursive THEN Change([Top EXCEPT !.at = "readdir"]) /\ Going ELSE Throw("EISDIR")
       [] OTHER -> Change([Top EXCEPT !.at = "unlink"]) /\ Going
RmReads ==
  /\ stack # <<>> /\ Top.op = "rm" /\ Top.at = "readdir"
  /\ os' = os
  /\ IF ReaddirSync(Top.path).err # "" THEN Throw(ReaddirSync(Top.path).err)
     ELSE Change([Top EXCEPT !.at = "entries", !.rest = Entries(Top.path)]) /\ Going
RmChild(p, x) == Append(p, x)
RmEntry ==
  /\ stack # <<>> /\ Top.op = "rm" /\ Top.at = "entries" /\ Top.rest # {}
  /\ \E x \in Top.rest :
       stack' = Append(Append(Front(stack), [Top EXCEPT !.rest = @ \ {x}]), RmFrame(RmChild(Top.path, x)))
  /\ os' = os /\ Going
RmRemoves ==
  /\ stack # <<>> /\ Top.op = "rm" /\ Top.at \in {"entries", "unlink"} /\ Top.rest = {}
  /\ LET r == IF Top.at = "unlink" THEN UnlinkSync(Top.path) ELSE RmdirSync(Top.path) IN
     os' = r.k /\ (IF r.err = "" THEN Return ELSE RmGone(r.err))

(* cpSync *)
CpFrame(p, q) == [op |-> "cp", path |-> p, dst |-> q, at |-> "stat", rest |-> {}]
CopyFrame(p, q) == [op |-> "copy", path |-> p, dst |-> q, fd |-> 0, dfd |-> 0, rest |-> <<>>]
CpStats ==
  /\ stack # <<>> /\ Top.op = "cp" /\ Top.at = "stat"
  /\ os' = os
  /\ CASE At(os, Top.path) = Absent -> Throw("ENOENT")
       [] At(os, Top.path) = Dir ->
            IF ~api.recursive THEN Throw("EISDIR")
            ELSE LET self == [Top EXCEPT !.at = "readdir"] IN
                 /\ IF At(os, Top.dst) # Absent THEN Change(self)
                    ELSE stack' = Append(Append(Front(stack), self), MkdirFrame(Top.dst))
                 /\ Going
       [] OTHER -> Change(CopyFrame(Top.path, Top.dst)) /\ Going
CpReads ==
  /\ stack # <<>> /\ Top.op = "cp" /\ Top.at = "readdir"
  /\ os' = os
  /\ IF ReaddirSync(Top.path).err # "" THEN Throw(ReaddirSync(Top.path).err)
     ELSE Change([Top EXCEPT !.at = "entries", !.rest = Entries(Top.path)]) /\ Going
CpEntry ==
  /\ stack # <<>> /\ Top.op = "cp" /\ Top.at = "entries"
  /\ os' = os
  /\ IF Top.rest = {} THEN Return
     ELSE /\ \E x \in Top.rest :
               stack' = Append(Append(Front(stack), [Top EXCEPT !.rest = @ \ {x}]),
                               CpFrame(Append(Top.path, x), Append(Top.dst, x)))
          /\ Going

----------------------------------------------------------------------------
(* The program *)
OnPath(p) ==
  {StatSync(p), ReaddirSync(p), ReadlinkSync(p), UnlinkSync(p), Mkdir(p), RmdirSync(p), TruncateSync(p),
   ChmodSync(p), UtimesSync(p), ChownSync(p, TRUE), ChownSync(p, FALSE)}
OnTwoPaths == {LinkSync(c[1], c[2]) : c \in Copies} \cup {RenameSync(c[1], c[2]) : c \in Copies}
OwnersOf(f) == {FchmodSync(f), FutimesSync(f), FchownSync(f, TRUE), FchownSync(f, FALSE)}
ReadsOf(f) == {ReadSync(f, n, at) : n \in 1..2, at \in BOOLEAN}
WritesOf(f) == {WriteSync(f, Bytes, at) : at \in BOOLEAN}
OnDescriptor(f) == OwnersOf(f) \cup ReadsOf(f) \cup WritesOf(f)

CallPath == \E p \in Paths : \E r \in OnPath(p) : Simple(r) /\ UNCHANGED mine
CallTwoPaths == \E r \in OnTwoPaths : Simple(r) /\ UNCHANGED mine
CallSymlink ==
  \E to \in LinkTargets, p \in Paths \ LinkTargets : Simple(SymlinkSync(to, p)) /\ UNCHANGED mine
CallDescriptor == \E f \in Fds : \E r \in OnDescriptor(f) : Simple(r) /\ UNCHANGED mine
OpenSync ==
  \E p \in Paths, s \in Flags :
    LET r == KOpen(os, p, ParseOpenFlags[s]) IN
    /\ Simple(r)
    /\ mine' = IF r.err = "" THEN mine \cup {NewFd(r)} ELSE mine
CloseSync ==
  \E f \in Fds :
    /\ Simple(OnFd(f, Ok(KClose(os, f))))
    /\ mine' = mine \ {f}

\* A call, and (history) the files as they were, and whether anybody else changed them.
Call(op, mode, force, recursive, p) ==
  [op |-> op, mode |-> mode, force |-> force, recursive |-> recursive, path |-> p,
   dst |-> <<>>, bytes |-> <<>>, flag |-> "w", post |-> FALSE, was |-> os, meddled |-> FALSE]
ReadCall(mode, p) == Call("read", mode, FALSE, FALSE, p)
WriteCall(mode, p, bytes, flag) ==
  [Call("write", mode, FALSE, FALSE, p) EXCEPT !.bytes = bytes, !.flag = flag]
CopyCall(op, o, c) == [Call(op, "program", o[1], o[2], c[1]) EXCEPT !.dst = c[2]]
WriteFrame(p, bytes, flag) == [op |-> "write", path |-> p, fd |-> 0, rest |-> bytes, flag |-> flag]
ReadFrame(p) == [op |-> "read", path |-> p, fd |-> 0, size |-> 0]

LongCall(o, p, c, flag) ==
  \/ Begin(ReadCall("program", p), ReadFrame(p))
  \/ Begin(WriteCall("program", p, Bytes, flag), WriteFrame(p, Bytes, flag))
  \/ Begin(Call("mkdir", "program", FALSE, TRUE, p), MkdirFrame(p))
  \/ Begin(Call("rm", "program", o[1], o[2], p), RmFrame(p))
  \/ Begin(CopyCall("copy", <<FALSE, FALSE>>, c), CopyFrame(c[1], c[2]))
  \/ Begin(CopyCall("cp", o, c), CpFrame(c[1], c[2]))
CallLong ==
  /\ Spend("calls")
  /\ \E o \in Options, p \in Paths, c \in Copies, flag \in {"w", "a"} : LongCall(o, p, c, flag)
  /\ told' = ""
  /\ UNCHANGED <<os, immediates, mine, rs, ws>>

CreateReadStream ==
  /\ stack = <<>> /\ rs = NoStream /\ Spend("calls")
  /\ \E p \in Paths, start \in 0..1, piped \in BOOLEAN :
       /\ piped => ws.at = "open" /\ ~ws.ending
       /\ rs' = [at |-> "open", path |-> p, start |-> start, piped |-> piped, data |-> <<>>, pos |-> 0, out |-> <<>>]
  /\ immediates' = Append(immediates, "open")
  /\ UNCHANGED <<os, stack, api, told, mine, ws>>
DestroyReadStream ==
  /\ stack = <<>> /\ rs.at = "open" /\ Spend("faults")
  /\ rs' = [rs EXCEPT !.at = "destroyed"]
  /\ UNCHANGED <<os, stack, api, immediates, told, mine, ws>>
CreateWriteStream ==
  /\ stack = <<>> /\ ws = NoStream /\ Spend("calls")
  /\ \E p \in Paths, flag \in {"w", "a"} :
       ws' = [at |-> "open", path |-> p, flag |-> flag, parts |-> <<>>, writable |-> TRUE, ending |-> FALSE]
  /\ UNCHANGED <<os, stack, api, immediates, told, mine, rs>>
\* The program writes to a stream nothing is piped to, and ends it once.
WriteAndEnd ==
  /\ stack = <<>> /\ ws.at = "open" /\ ~ws.ending /\ rs = NoStream
  /\ ws' = [ws EXCEPT !.parts = @ \o Bytes, !.ending = TRUE]
  /\ immediates' = Append(immediates, "flush")
  /\ UNCHANGED <<os, stack, api, told, mine, rs, left>>

\* The timer queue runs the oldest callback.
Immediate ==
  /\ stack = <<>> /\ immediates # <<>>
  /\ \/ /\ Head(immediates) = "callback"
        /\ immediates' = Tail(immediates) /\ UNCHANGED <<stack, api, rs, ws>>
     \/ /\ Head(immediates) = "open"
        /\ Begin(ReadCall("read stream", rs.path), ReadFrame(rs.path))
        /\ immediates' = Tail(immediates) /\ UNCHANGED <<rs, ws>>
     \/ /\ Head(immediates) = "flush"
        /\ Begin(WriteCall("write stream", ws.path, ws.parts, ws.flag),
                 WriteFrame(ws.path, ws.parts, ws.flag))
        /\ immediates' = Tail(immediates) /\ UNCHANGED <<rs, ws>>
     \/ Head(immediates) = "chunk" /\ EmitChunk(rs, Tail(immediates)) /\ UNCHANGED <<stack, api>>
  /\ told' = ""
  /\ UNCHANGED <<os, mine, left>>

(* Another process, and a disk that fills up, while a call is under way: at    *)
(* other times they add nothing to what the program itself can do.             *)
Meddle ==
  /\ stack # <<>> /\ Spend("meddles")
  /\ \E p \in Paths : \E r \in {UnlinkSync(p), Mkdir(p), TruncateSync(p), KOpen(os, p, {"write", "creat", "excl"})} :
       r.err = "" /\ os' = [r.k EXCEPT !.fds = os.fds] /\ os' # os
  /\ api' = IF api = NoCall THEN api ELSE [api EXCEPT !.meddled = TRUE]
  /\ UNCHANGED <<stack, immediates, told, mine, rs, ws>>
DiskFills ==
  /\ stack # <<>> /\ ~os.full /\ Spend("faults")
  /\ os' = [os EXCEPT !.full = TRUE]
  /\ UNCHANGED <<stack, api, immediates, told, mine, rs, ws>>

Native ==
  \/ ReadOpens \/ ReadReads \/ WriteOpens \/ WriteWrites \/ WriteDone
  \/ CopyOpens \/ CopyCreates \/ CopyReads \/ CopyWrites
  \/ MkdirStep \/ RmStats \/ RmReads \/ RmEntry \/ RmRemoves \/ CpStats \/ CpReads \/ CpEntry
Program ==
  \/ CallPath \/ CallTwoPaths \/ CallSymlink \/ CallDescriptor \/ OpenSync \/ CloseSync \/ CallLong
  \/ CreateReadStream \/ DestroyReadStream \/ CreateWriteStream \/ WriteAndEnd

Init ==
  /\ os = [tree |-> StartTree, data |-> StartData, fds |-> [f \in Fds |-> Closed], full |-> FALSE]
  /\ stack = <<>> /\ api = NoCall /\ immediates = <<>> /\ told = ""
  /\ mine = {} /\ rs = NoStream /\ ws = NoStream
  /\ left = [calls |-> MaxCalls, faults |-> MaxFaults, meddles |-> MaxMeddles]
Next == Native \/ Immediate \/ Program \/ Meddle \/ DiskFills
Spec == Init /\ [][Next]_vars /\ WF_vars(Native) /\ WF_vars(Immediate)

----------------------------------------------------------------------------
(* Properties *)
Content(k, p) == IF At(k, p).kind = "file" THEN k.data[At(k, p).ino] ELSE <<>>
FilesUnder(k, p) == {q \in DOMAIN k.tree : IsPrefix(p, q) /\ At(k, q).kind = "file"}
\* No two names at or below the two paths are the same file.
Apart(k, p, q) ==
  /\ ~IsPrefix(p, q) /\ ~IsPrefix(q, p)
  /\ \A x, y \in FilesUnder(k, p) \cup FilesUnder(k, q) : x # y => At(k, x) # At(k, y)

\* What a call of several system calls promises when it reports no error: one
\* about a file or a path,
FileKept(call, k) ==
  CASE call.op = "write" ->
         Content(k, call.path) = (IF call.flag = "a" THEN Content(call.was, call.path) ELSE <<>>) \o call.bytes
    [] call.op = "copy" ->
         At(call.was, call.path) # At(call.was, call.dst) => Content(k, call.dst) = Content(call.was, call.path)
    [] call.op = "mkdir" -> Entry(k, Name(k, call.path)) # Absent
    [] OTHER -> TRUE
\* and one about a tree.
TreeKept(call, k) ==
  CASE call.op = "cp" ->
         ~call.force /\ Apart(call.was, call.path, call.dst) =>
           \A q \in FilesUnder(call.was, call.path) :
             Content(k, call.dst \o SubSeq(q, Len(call.path) + 1, Len(q))) = Content(call.was, q)
    [] call.op = "rm" -> ~call.force => Entry(k, Name(call.was, call.path)) = Absent
    [] OTHER -> TRUE
Succeeds == api # NoCall /\ api' = NoCall /\ told' = "" /\ ~api.meddled

\* A call that reports success has done all of it, whatever writes were short
\* and whatever failed on the way, provided no other process interfered: no
\* error of a system call is lost in the loops of writeFileSync, appendFileSync,
\* copyFileSync and mkdirSync, of the streams too,
FilesAreWhole == [][Succeeds => FileKept(api, os')]_vars

\* nor in the recursion of cpSync and rmSync.
TreesAreWhole == [][Succeeds => TreeKept(api, os')]_vars

\* Whenever no call is in progress the descriptors of the process are those
\* the program opened itself: every way out of a native call, the errors in
\* the middle included, has closed what it opened.
DescriptorsReturned == stack = <<>> => {f \in Fds : IsOpen(f)} = mine

----------------------------------------------------------------------------
(* What makes DescriptorsReturned inductive. *)
Open(k) == {f \in Fds : k.fds[f] # Closed}
IsKernel(k) ==
  /\ "fds" \in DOMAIN k /\ DOMAIN k.fds = Fds
  /\ \A f \in Fds : "flags" \in DOMAIN k.fds[f] /\ (k.fds[f] = Closed \/ k.fds[f].flags # {"closed"})

\* The descriptors a frame has open (of HttpSync's frames too).
Owned(f) ==
  {d \in Fds : \/ f.op \in {"read", "write", "copy"} /\ d = f.fd
               \/ f.op = "copy" /\ d = f.dfd
               \/ f.op = "http" /\ f.at = "read" /\ d = f.fd}
IsFrame(f) ==
  /\ "op" \in DOMAIN f
  /\ f.op \in {"read", "write", "copy"} => "fd" \in DOMAIN f /\ f.fd \in Fds \cup {0}
  /\ f.op = "write" => "flag" \in DOMAIN f /\ f.flag \in {"w", "a"}
  /\ f.op = "copy" =>
       /\ {"dfd", "rest"} \subseteq DOMAIN f /\ f.dfd \in Fds \cup {0}
       /\ f.dfd # 0 => f.fd # 0 /\ f.fd # f.dfd
       /\ f.rest # <<>> => f.dfd # 0
  /\ f.op \in {"rm", "cp", "http"} => "at" \in DOMAIN f
  /\ f.op = "http" => "fd" \in DOMAIN f /\ (f.at = "read" => f.fd \in Fds)

\* How the write stream will open its file.
StreamInv == "flag" \in DOMAIN ws /\ ws.flag \in {"w", "a"}

\* Only the innermost frame has descriptors open: those below it, of rmSync and
\* cpSync, have none.
FdInv ==
  /\ IsKernel(os) /\ mine \subseteq Fds
  /\ stack \in Seq(Range(stack))
  /\ \A i \in DOMAIN stack : IsFrame(stack[i])
  /\ \A i \in 1..(Len(stack) - 1) : stack[i].op \in {"rm", "cp"}
  /\ stack = <<>> => Open(os) = mine
  /\ stack # <<>> => Open(os) = mine \cup Owned(Top) /\ mine \cap Owned(Top) = {}

----------------------------------------------------------------------------
(* What makes FilesAreWhole inductive: the kinds of the values, *)
Modes == {"closed", "read", "write", "creat", "trunc", "append", "excl"}
IsEntry(e) == e = Dir \/ e.kind = "link" \/ \E i \in Inodes : e = File(i)
IsDisk(k) ==
  /\ {"tree", "data", "fds", "full"} \subseteq DOMAIN k
  /\ \A q \in DOMAIN k.tree : IsEntry(k.tree[q])
  /\ k.data \in [Inodes \cup {0} -> Seq(Nat)]
  /\ k.fds \in [Fds -> [ino : Inodes \cup {0}, pos : Nat, flags : SUBSET Modes]]
  /\ \A f \in Fds : "write" \in k.fds[f].flags => k.fds[f].ino \in Inodes

IsReader(s) ==
  /\ {"at", "path", "start", "piped", "data", "pos", "out"} \subseteq DOMAIN s
  /\ s.path \in Paths /\ s.start \in Nat /\ s.data \in Seq(Nat) /\ s.pos \in Nat
IsWriter(s) ==
  /\ {"at", "path", "flag", "parts", "writable", "ending"} \subseteq DOMAIN s
  /\ s.path \in Paths /\ s.parts \in Seq(Nat)
StreamsInv ==
  /\ rs = NoStream \/ (IsReader(rs) /\ (rs.piped => IsWriter(ws)))
  /\ ws = NoStream \/ IsWriter(ws)
  /\ immediates \in Seq({"callback", "open", "flush", "chunk"})
  /\ \A i \in DOMAIN immediates :
       /\ immediates[i] \in {"open", "chunk"} => IsReader(rs)
       /\ immediates[i] = "flush" => IsWriter(ws)
  /\ stack # <<>> => /\ api.mode = "read stream" => IsReader(rs)
                     /\ api.mode = "write stream" => IsWriter(ws)

\* What a frame has read, or has yet to write, and where.
BytesOf(f, k) ==
  /\ f.op = "read" => "size" \in DOMAIN f /\ (f.fd # 0 => f.size \in Nat)
  /\ f.op \in {"write", "copy"} => "rest" \in DOMAIN f /\ f.rest \in Seq(Nat)
  /\ f.op = "write" /\ f.fd # 0 => "write" \in k.fds[f.fd].flags
  /\ f.op = "copy" /\ f.dfd # 0 => "write" \in k.fds[f.dfd].flags
BytesInv == stack # <<>> => BytesOf(Top, os)

(* and how far each call is. *)
OfCall(f, call) ==
  /\ call.op \in {"write", "copy", "mkdir"} =>
       {"op", "path"} \subseteq DOMAIN f /\ f.op = call.op /\ f.path = call.path
  /\ call.op = "write" => f.flag = call.flag /\ call.bytes \in Seq(Nat)
  /\ call.op = "copy" => "dst" \in DOMAIN f /\ f.dst = call.dst
  /\ call.op = "mkdir" => "i" \in DOMAIN f /\ call.path \in Seq(STRING)
Fields == {"op", "mode", "force", "recursive", "path", "dst", "bytes", "flag", "post", "was", "meddled"}
CallInv ==
  /\ stack = <<>> <=> api = NoCall
  /\ stack # <<>> =>
       /\ Fields \subseteq DOMAIN api /\ OfCall(Top, api)
       /\ api.op \in {"write", "copy", "mkdir"} => Len(stack) = 1

Untouched(k, call) == k.tree = call.was.tree /\ k.data = call.was.data
\* The file that is written has what it shall begin with, and as much of the bytes
\* as have left the frame.
WriteGoes(f, k, call) ==
  LET d == k.fds[f.fd]
      before == IF call.flag = "a" THEN Content(call.was, call.path) ELSE <<>>
  IN  IF f.fd = 0 THEN Untouched(k, call) /\ f.rest = call.bytes
      ELSE /\ At(k, call.path) = File(d.ino)
           /\ k.data[d.ino] \o f.rest = before \o call.bytes
           /\ "append" \in d.flags \/ d.pos = Len(k.data[d.ino])
\* The copy has what was read of the file, but for the block that is being written.
IsSource(d, call) ==
  IF d.ino = 0 THEN At(call.was, call.path) = Dir ELSE At(call.was, call.path) = File(d.ino)
Copied(f, k, call) ==
  LET d == k.fds[f.fd]
      e == k.fds[f.dfd]
      source == k.data[d.ino]
  IN  /\ source = call.was.data[d.ino] /\ d.pos <= Len(source)
      /\ At(k, call.dst) = File(e.ino) /\ e.ino # d.ino
      /\ k.data[e.ino] \o f.rest = SubSeq(source, 1, d.pos)
      /\ e.pos = Len(k.data[e.ino])
CopyGoes(f, k, call) ==
  IF f.fd = 0 THEN Untouched(k, call)
  ELSE /\ IsSource(k.fds[f.fd], call)
       /\ f.dfd = 0 => Untouched(k, call) /\ k.fds[f.fd].pos = 0
       /\ f.dfd # 0 /\ k.fds[f.fd].ino # 0 => Copied(f, k, call)
WholeOf(f, k, call) ==
  /\ call.op = "write" => WriteGoes(f, k, call)
  /\ call.op = "copy" /\ At(call.was, call.path) # At(call.was, call.dst) => CopyGoes(f, k, call)
WholeInv == stack # <<>> /\ ~api.meddled => WholeOf(Top, os, api)

FilesInv == IsDisk(os) /\ StreamsInv /\ BytesInv /\ CallInv /\ WholeInv
=============================================================================
