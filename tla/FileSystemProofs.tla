--------------------------- MODULE FileSystemProofs ---------------------------
(* The native calls of fs.cpp and http.cpp are proved to close every descriptor *)
(* they open, on every way out, for any files, calls, faults and interference,  *)
(* and those about one file, and getSync and postSync, to have done the whole   *)
(* of their work when they report no error.                                     *)
EXTENDS HttpSync, TLAPS, NaturalsInduction, WellFoundedInduction, FiniteSetTheorems, SequenceTheorems

----------------------------------------------------------------------------
(* The descriptor table *)
\* open() finds the lowest free descriptor when there is one.
LEMMA LowestIsFree ==
  ASSUME NEW k, FreeFds(k) # {}
  PROVE  LowestFd(k) \in FreeFds(k)
<1> DEFINE T == FreeFds(k)
<1>1. T \subseteq Nat /\ T # {}
  BY FileSystemAssumption DEF FreeFds
<1> HIDE DEF T
<1>2. PICK m \in T : \A n \in T : <<n, m>> \notin OpToRel(<, Nat)
  BY <1>1, NatLessThanWellFounded, WFMin
<1>3. \A a, b \in Nat : a < b => <<a, b>> \in OpToRel(<, Nat)
  BY DEF OpToRel
<1>4. \A n \in T : ~(n < m) /\ n \in Nat /\ m \in Nat
  BY <1>1, <1>2, <1>3
<1>5. \A n \in T : m <= n
  BY <1>4
<1> QED
  BY <1>2, <1>5 DEF LowestFd, T

\* A file other than the descriptors changes.
LEMMA SameTable ==
  ASSUME NEW k, NEW j, IsKernel(k), "fds" \in DOMAIN j, j.fds = k.fds
  PROVE  IsKernel(j) /\ Open(j) = Open(k)
BY DEF IsKernel, Open

\* A descriptor is opened,
LEMMA OpenedIs ==
  ASSUME NEW k, NEW j, NEW f \in Fds, NEW e, IsKernel(k),
         "flags" \in DOMAIN e, e.flags # {"closed"},
         "fds" \in DOMAIN j, j.fds = [k.fds EXCEPT ![f] = e]
  PROVE  IsKernel(j) /\ Open(j) = Open(k) \cup {f}
<1>1. e # Closed
  BY DEF Closed
<1>2. DOMAIN j.fds = Fds /\ \A d \in Fds : j.fds[d] = IF d = f THEN e ELSE k.fds[d]
  BY DEF IsKernel
<1> QED
  BY <1>1, <1>2 DEF IsKernel, Open

\* and closed.
LEMMA ClosedIs ==
  ASSUME NEW k, NEW f \in Fds, IsKernel(k)
  PROVE  IsKernel(KClose(k, f)) /\ Open(KClose(k, f)) = Open(k) \ {f}
<1> DEFINE j == KClose(k, f)
<1>1. "fds" \in DOMAIN j /\ j.fds = [k.fds EXCEPT ![f] = Closed]
  BY DEF KClose, IsKernel
<1>2. "flags" \in DOMAIN Closed
  BY DEF Closed
<1> HIDE DEF j
<1>3. DOMAIN j.fds = Fds /\ \A d \in Fds : j.fds[d] = IF d = f THEN Closed ELSE k.fds[d]
  BY <1>1 DEF IsKernel
<1>4. IsKernel(j)
  BY <1>1, <1>2, <1>3 DEF IsKernel
<1>5. Open(j) = Open(k) \ {f}
  BY <1>3 DEF Open
<1> QED
  BY <1>4, <1>5 DEF j

\* Its position moves.
LEMMA MovedIs ==
  ASSUME NEW k, NEW j, NEW f \in Open(k), NEW x, IsKernel(k),
         "fds" \in DOMAIN j, j.fds = [k.fds EXCEPT ![f].pos = x]
  PROVE  IsKernel(j) /\ Open(j) = Open(k)
<1> DEFINE e == [k.fds[f] EXCEPT !.pos = x]
<1>1. f \in Fds /\ "flags" \in DOMAIN k.fds[f] /\ k.fds[f].flags # {"closed"}
  BY DEF Open, IsKernel
<1>2. "flags" \in DOMAIN e /\ e.flags # {"closed"}
  BY <1>1
<1>3. j.fds = [k.fds EXCEPT ![f] = e]
  BY <1>1 DEF IsKernel
<1> HIDE DEF e
<1>4. IsKernel(j) /\ Open(j) = Open(k) \cup {f}
  BY <1>1, <1>2, <1>3, OpenedIs
<1> QED
  BY <1>4

\* write() moves it.
LEMMA WriteIs ==
  ASSUME NEW k, NEW f \in Open(k), NEW bytes, IsKernel(k)
  PROVE  IsKernel(KWrite(k, f, bytes)) /\ Open(KWrite(k, f, bytes)) = Open(k)
<1> DEFINE j == KWrite(k, f, bytes)
<1>1. "fds" \in DOMAIN j /\ \E x : j.fds = [k.fds EXCEPT ![f].pos = x]
  BY DEF KWrite, IsKernel
<1> HIDE DEF j
<1>2. PICK x : j.fds = [k.fds EXCEPT ![f].pos = x]
  BY <1>1
<1>3. IsKernel(j) /\ Open(j) = Open(k)
  BY <1>1, <1>2, MovedIs
<1> QED
  BY <1>3 DEF j

\* What a call makes of the kernel, with the descriptors as they were.
Leaves(r) == "fds" \in DOMAIN r.k /\ r.k.fds = os.fds

LEMMA OkLeaves ==
  ASSUME IsKernel(os)
  PROVE  /\ Leaves(Ok(os)) /\ \A e : Leaves(Fails(e))
         /\ \A q : Leaves(Ok(Without(os, q)))
         /\ \A q, x : Leaves(Ok(With(os, q, x)))
         /\ \A q, y, x : Leaves(Ok(With(Without(os, q), y, x)))
BY DEF Leaves, Ok, Fails, Without, With, IsKernel

\* open(): it fails, and has changed nothing, or it makes a file, opens a directory,
\* or opens a file and may empty it.
Refused == {Fails("EMFILE"), Fails("ENOENT"), Fails("ENOSPC"), Fails("EEXIST"), Fails("EISDIR"), Fails("ELOOP")}
MakesFile(q, i, flags) == [With(Opened(os, i, flags), q, File(i)) EXCEPT !.data[i] = <<>>]
OpensFile(i, flags) ==
  IF "trunc" \in flags THEN [Opened(os, i, flags) EXCEPT !.data[i] = <<>>] ELSE Opened(os, i, flags)
LEMMA KOpenCases ==
  ASSUME NEW p, NEW flags
  PROVE  LET r == KOpen(os, p, flags)
             q == Real(os, p)
         IN \/ r \in Refused
            \/ /\ FreeFds(os) # {} /\ q \notin DOMAIN os.tree /\ "creat" \in flags
               /\ \E i \in Inodes \ Used(os) : r = Ok(MakesFile(q, i, flags))
            \/ /\ FreeFds(os) # {} /\ q \in DOMAIN os.tree /\ os.tree[q] = Dir /\ "write" \notin flags
               /\ r = Ok(Opened(os, 0, flags))
            \/ /\ FreeFds(os) # {} /\ q \in DOMAIN os.tree /\ os.tree[q] # Dir /\ os.tree[q].kind # "link"
               /\ r = Ok(OpensFile(os.tree[q].ino, flags))
<1> DEFINE q == Real(os, p)
           unused == Inodes \ Used(os)
           i == CHOOSE x \in unused : TRUE
           r == KOpen(os, p, flags)
           Creatable == "creat" \in flags /\ At(os, Front(q)) = Dir
<1>0. Dir.kind # "link"
  BY DEF Dir
<1>1. unused # {} => i \in unused
  BY Zenon
<1>2. CASE FreeFds(os) = {}
  BY <1>2, Zenon DEF KOpen, Refused
<1>3. CASE FreeFds(os) # {} /\ q \notin DOMAIN os.tree /\ ~Creatable
  BY <1>3, Zenon DEF KOpen, Refused
<1>4. CASE FreeFds(os) # {} /\ q \notin DOMAIN os.tree /\ Creatable
  <2>1. r = IF unused = {} THEN Fails("ENOSPC") ELSE Ok(MakesFile(q, i, flags))
    BY <1>4, Zenon DEF KOpen, MakesFile
  <2> HIDE DEF i
  <2>2. CASE unused = {}
    BY <2>1, <2>2 DEF Refused
  <2>3. CASE unused # {}
    BY <1>1, <1>4, <2>1, <2>3, Zenon
  <2> QED
    BY <2>2, <2>3
<1>5. CASE FreeFds(os) # {} /\ q \in DOMAIN os.tree /\ "excl" \in flags
  BY <1>5, Zenon DEF KOpen, Refused
<1>6. CASE FreeFds(os) # {} /\ q \in DOMAIN os.tree /\ "excl" \notin flags /\ os.tree[q] = Dir
  <2>1. r = IF "write" \in flags THEN Fails("EISDIR") ELSE Ok(Opened(os, 0, flags))
    BY <1>0, <1>6, Zenon DEF KOpen
  <2> QED
    BY <1>6, <2>1 DEF Refused
<1>7. CASE /\ FreeFds(os) # {} /\ q \in DOMAIN os.tree /\ "excl" \notin flags
           /\ os.tree[q] # Dir /\ os.tree[q].kind = "link"
  <2>1. r = Fails("ELOOP")
    BY <1>7, Zenon DEF KOpen
  <2> QED
    BY <2>1 DEF Refused
<1>8. CASE /\ FreeFds(os) # {} /\ q \in DOMAIN os.tree /\ "excl" \notin flags
           /\ os.tree[q] # Dir /\ os.tree[q].kind # "link"
  <2>1. r = Ok(OpensFile(os.tree[q].ino, flags))
    BY <1>8, Zenon DEF KOpen, OpensFile
  <2> QED
    BY <1>8, <2>1
<1> QED
  BY <1>2, <1>3, <1>4, <1>5, <1>6, <1>7, <1>8

\* What it opens is the descriptor that NewFd finds.
LEMMA KOpenIs ==
  ASSUME IsKernel(os), NEW p, NEW flags, flags # {"closed"}
  PROVE  LET r == KOpen(os, p, flags) IN
         /\ r.err # "" => r.k = os
         /\ r.err = "" => /\ NewFd(r) \in Fds \ Open(os)
                          /\ IsKernel(r.k) /\ Open(r.k) = Open(os) \cup {NewFd(r)}
         /\ "fds" \in DOMAIN r.k
<1> DEFINE r == KOpen(os, p, flags)
           q == Real(os, p)
           o(j) == Opened(os, j, flags)
           ino == os.tree[q].ino
<1>0. PICK i : \/ r \in Refused
               \/ /\ FreeFds(os) # {}
                  /\ \/ r = Ok(MakesFile(q, i, flags)) \/ r = Ok(o(0)) \/ r = Ok(OpensFile(ino, flags))
  BY KOpenCases
<1> HIDE DEF r, q, ino
<1>1. FreeFds(os) = {} => r \in Refused
  BY <1>0
<1>2. r \in Refused \cup
             {Ok([With(o(i), q, File(i)) EXCEPT !.data[i] = <<>>]), Ok(o(0)),
             Ok(IF "trunc" \in flags THEN [o(ino) EXCEPT !.data[ino] = <<>>] ELSE o(ino))}
  BY <1>0 DEF MakesFile, OpensFile
<1>3. \A e : Fails(e).k = os /\ Fails(e).err = e
  BY DEF Fails
<1>4. CASE r \in Refused
  <2>1. r.k = os /\ r.err # ""
    BY <1>3, <1>4 DEF Refused
  <2> QED
    BY <2>1 DEF r, IsKernel
<1>5. CASE r \notin Refused
  <2> DEFINE f == LowestFd(os)
             New(j) == [ino |-> j, pos |-> 0, flags |-> flags]
             Is(k, j) == "fds" \in DOMAIN k /\ k.fds = [os.fds EXCEPT ![f] = New(j)]
             created == [With(o(i), q, File(i)) EXCEPT !.data[i] = <<>>]
             emptied == [o(ino) EXCEPT !.data[ino] = <<>>]
  <2>1. f \in Fds \ Open(os)
    BY <1>1, <1>5, LowestIsFree DEF FreeFds, Open
  <2>2. r.err = "" /\ \E j : Is(r.k, j)
    <3>1. \A j : Is(o(j), j)
      BY DEF Opened, IsKernel
    <3>2. Is(created, i)
      BY <3>1 DEF With
    <3>3. Is(emptied, ino)
      BY <3>1
    <3>4. \A k : Ok(k).k = k /\ Ok(k).err = ""
      BY DEF Ok
    <3>5. r = Ok(created) \/ r = Ok(o(0)) \/ r = Ok(emptied) \/ r = Ok(o(ino))
      BY <1>2, <1>5
    <3> HIDE DEF Is, o, f, created, emptied
    <3> QED
      BY <3>1, <3>2, <3>3, <3>4, <3>5
  <2>3. PICK j : Is(r.k, j)
    BY <2>2
  <2>4. "flags" \in DOMAIN New(j) /\ New(j).flags # {"closed"}
    OBVIOUS
  <2>5. IsKernel(r.k) /\ Open(r.k) = Open(os) \cup {f}
    <3>1. "fds" \in DOMAIN r.k /\ r.k.fds = [os.fds EXCEPT ![f] = New(j)]
      BY <2>3
    <3> HIDE DEF New, f
    <3> QED
      BY <2>1, <2>4, <3>1, OpenedIs
  <2>6. NewFd(r) = f
    <3>1. \A d \in Fds : os.fds[d] = Closed /\ r.k.fds[d] # Closed <=> d \in Open(r.k) \ Open(os)
      BY DEF Open
    <3>2. \A d \in Fds : os.fds[d] = Closed /\ r.k.fds[d] # Closed <=> d = f
      BY <2>1, <2>5, <3>1
    <3> HIDE DEF f
    <3> QED
      BY <2>1, <3>2 DEF NewFd
  <2> HIDE DEF f
  <2> QED
    BY <2>1, <2>2, <2>3, <2>5, <2>6 DEF r
<1> QED
  BY <1>4, <1>5

----------------------------------------------------------------------------
(* Calls of one system call *)
\* Those on paths leave the descriptors alone,
LEMMA PathCallsLeave ==
  ASSUME IsKernel(os), NEW p, NEW r \in OnPath(p)
  PROVE  Leaves(r)
<1>1. UnlinkSync(p) \in {Fails("ENOENT"), Fails("EPERM"), Ok(Without(os, Name(os, p)))}
  BY Zenon DEF UnlinkSync
<1>2. Mkdir(p) \in {Fails("ENOENT"), Fails("ENOTDIR"), Fails("EEXIST"), Ok(With(os, Name(os, p), Dir))}
  BY Zenon DEF Mkdir
<1>3. RmdirSync(p) \in {Fails("ENOENT"), Fails("ENOTDIR"), Fails("ENOTEMPTY"), Ok(Without(os, Name(os, p)))}
  BY Zenon DEF RmdirSync
<1>4. ReadlinkSync(p) \in {Fails("ENOENT"), Ok(os), Fails("EINVAL")}
  BY Zenon DEF ReadlinkSync
<1>5. Leaves(UnlinkSync(p)) /\ Leaves(Mkdir(p)) /\ Leaves(RmdirSync(p)) /\ Leaves(ReadlinkSync(p))
  BY <1>1, <1>2, <1>3, <1>4, OkLeaves
<1>6. /\ Leaves(StatSync(p)) /\ Leaves(ReaddirSync(p)) /\ Leaves(ChmodSync(p)) /\ Leaves(UtimesSync(p))
      /\ \A same : Leaves(ChownSync(p, same))
  BY OkLeaves DEF StatSync, ReaddirSync, ChmodSync, UtimesSync, ChownSync, Existing
<1>7. Leaves(TruncateSync(p))
  <2>1. Leaves(Ok([os EXCEPT !.data[At(os, p).ino] = <<>>]))
    BY DEF Leaves, Ok, IsKernel
  <2> QED
    BY <2>1, OkLeaves DEF TruncateSync, Existing
<1> QED
  BY <1>5, <1>6, <1>7 DEF OnPath

\* and so do those on two.
LEMMA TwoPathCallsLeave ==
  ASSUME IsKernel(os)
  PROVE  /\ \A r \in OnTwoPaths : Leaves(r)
         /\ \A to, p : Leaves(SymlinkSync(to, p))
<1>1. ASSUME NEW p, NEW q PROVE Leaves(LinkSync(p, q))
  <2>1. LinkSync(p, q) \in {Fails("ENOENT"), Fails("EPERM"), Fails("EEXIST"), Ok(With(os, Name(os, q), At(os, p)))}
    BY Zenon DEF LinkSync
  <2> QED
    BY <2>1, OkLeaves
<1>2. ASSUME NEW p, NEW q PROVE Leaves(RenameSync(p, q))
  BY OkLeaves DEF RenameSync
<1>3. ASSUME NEW to, NEW p PROVE Leaves(SymlinkSync(to, p))
  <2>1. SymlinkSync(to, p) \in {Fails("ENOENT"), Fails("EEXIST"), Ok(With(os, Name(os, p), Link(to)))}
    BY Zenon DEF SymlinkSync
  <2> QED
    BY <2>1, OkLeaves
<1> QED
  BY <1>1, <1>2, <1>3 DEF OnTwoPaths

\* Those on a descriptor keep the same ones open.
LEMMA DescriptorCallsKeep ==
  ASSUME IsKernel(os), NEW f \in Fds, NEW r \in OnDescriptor(f)
  PROVE  IsKernel(r.k) /\ Open(r.k) = Open(os)
<1>1. \A e : Fails(e).k = os /\ Ok(os).k = os
  BY DEF Fails, Ok
<1>2. \A k : Ok(k).k = k
  BY DEF Ok
<1>3. CASE r \in {FchmodSync(f), FutimesSync(f), FchownSync(f, TRUE), FchownSync(f, FALSE)}
  <2>1. r.k = os
    BY <1>1, <1>3 DEF FchmodSync, FutimesSync, FchownSync, OnFd
  <2> QED
    BY <2>1
<1>4. ASSUME NEW n, NEW at \in BOOLEAN, r = ReadSync(f, n, at)
      PROVE  IsKernel(r.k) /\ Open(r.k) = Open(os)
  <2>1. CASE r.k = os
    BY <2>1
  <2>2. CASE f \in Open(os) /\ \E x : r.k = [os EXCEPT !.fds[f].pos = x]
    <3>1. PICK x : r.k = [os EXCEPT !.fds[f].pos = x]
      BY <2>2
    <3>2. "fds" \in DOMAIN r.k /\ r.k.fds = [os.fds EXCEPT ![f].pos = x]
      BY <3>1 DEF IsKernel
    <3> QED
      BY <2>2, <3>2, MovedIs
  <2> QED
    BY <1>1, <1>2, <1>4, <2>1, <2>2 DEF ReadSync, IsOpen, Open
<1>5. ASSUME NEW at \in BOOLEAN, r = WriteSync(f, Bytes, at)
      PROVE  IsKernel(r.k) /\ Open(r.k) = Open(os)
  <2>1. CASE r.k = os
    BY <2>1
  <2>2. CASE f \in Open(os) /\ r.k = KWrite(os, f, Bytes)
    BY <2>2, WriteIs
  <2>3. CASE /\ f \in Open(os)
             /\ r.k = [KWrite([os EXCEPT !.fds[f].pos = 0], f, Bytes) EXCEPT !.fds[f].pos = os.fds[f].pos]
    <3> DEFINE start == [os EXCEPT !.fds[f].pos = 0]
               after == KWrite(start, f, Bytes)
    <3>1. "fds" \in DOMAIN start /\ start.fds = [os.fds EXCEPT ![f].pos = 0]
      BY DEF IsKernel
    <3> HIDE DEF start
    <3>2. IsKernel(start) /\ Open(start) = Open(os)
      BY <2>3, <3>1, MovedIs
    <3>3. IsKernel(after) /\ Open(after) = Open(os)
      BY <2>3, <3>2, WriteIs
    <3>4. r.k = [after EXCEPT !.fds[f].pos = os.fds[f].pos]
      BY <2>3 DEF start
    <3> HIDE DEF after
    <3>5. "fds" \in DOMAIN r.k /\ r.k.fds = [after.fds EXCEPT ![f].pos = os.fds[f].pos]
      BY <3>3, <3>4 DEF IsKernel
    <3>6. f \in Open(after)
      BY <2>3, <3>3
    <3> QED
      BY <3>3, <3>5, <3>6, MovedIs
  <2> QED
    BY <1>1, <1>2, <1>5, <2>1, <2>2, <2>3 DEF WriteSync, IsOpen, Open
<1>6. CASE r \in ReadsOf(f)
  <2>1. \E n \in 1..2, at \in BOOLEAN : r = ReadSync(f, n, at)
    BY <1>6 DEF ReadsOf
  <2> QED
    BY <1>4, <2>1, Zenon
<1>7. CASE r \in WritesOf(f)
  <2>1. \E at \in BOOLEAN : r = WriteSync(f, Bytes, at)
    BY <1>7 DEF WritesOf
  <2> QED
    BY <1>5, <2>1, Zenon
<1>8. r \in OwnersOf(f) => IsKernel(r.k) /\ Open(r.k) = Open(os)
  BY <1>3, Zenon DEF OwnersOf
<1> QED
  BY <1>6, <1>7, <1>8 DEF OnDescriptor

----------------------------------------------------------------------------
(* The stack of calls *)
\* A sequence is one of its own elements.
LEMMA OwnElements ==
  ASSUME NEW S, NEW s \in Seq(S)
  PROVE  s \in Seq(Range(s))
BY DEF Range

\* What is left of a sequence without its last element.
LEMMA FrontFacts ==
  ASSUME NEW S, NEW s \in Seq(S), s # <<>>
  PROVE  /\ Front(s) \in Seq(S)
         /\ Len(Front(s)) = Len(s) - 1
         /\ \A i \in 1..(Len(s) - 1) : Front(s)[i] = s[i]
<1>1. Len(s) \in Nat /\ Len(s) > 0
  OBVIOUS
<1>2. \A i \in 1..(Len(s) - 1) : s[i] \in S
  BY <1>1
<1>3. Front(s) = [i \in 1..(Len(s) - 1) |-> s[i]]
  BY <1>1, SMTT(20) DEF Front
<1> QED
  BY <1>1, <1>2, <1>3

\* Between calls.
LEMMA IdleKeeps ==
  ASSUME stack' = <<>>, IsKernel(os'), mine' \subseteq Fds, Open(os') = mine'
  PROVE  FdInv'
<1>1. stack' \in Seq(Range(stack')) /\ Len(stack') = 0 /\ DOMAIN stack' = {}
  OBVIOUS
<1> QED
  BY <1>1 DEF FdInv

\* A call of several system calls begins.
LEMMA BeginKeeps ==
  ASSUME FdInv, stack = <<>>, NEW f, stack' = <<f>>, IsFrame(f), Owned(f) = {},
         UNCHANGED <<os, mine>>
  PROVE  FdInv'
<1>1. stack' \in Seq(Range(stack')) /\ Len(stack') = 1 /\ DOMAIN stack' = {1} /\ stack'[1] = f
  BY DEF Range
<1> QED
  BY <1>1 DEF FdInv, Top, Last

\* The innermost frame goes on.
LEMMA ChangeKeeps ==
  ASSUME FdInv, stack # <<>>, NEW f, IsFrame(f), Change(f), mine' = mine,
         IsKernel(os'), Open(os') = mine \cup Owned(f), mine \cap Owned(f) = {}
  PROVE  FdInv'
<1> DEFINE n == Len(stack)
           S == Range(stack) \cup {f}
<1>1. n \in Nat /\ n > 0 /\ stack \in Seq(S)
  BY DEF FdInv, Range
<1>2. DOMAIN stack = 1..n
  BY <1>1
<1>3. Front(stack) \in Seq(S) /\ Len(Front(stack)) = n - 1
      /\ \A i \in 1..(n - 1) : Front(stack)[i] = stack[i]
  BY <1>1, FrontFacts
<1>4. stack' \in Seq(S) /\ Len(stack') = n /\ stack'[n] = f
      /\ \A i \in 1..(n - 1) : stack'[i] = stack[i]
  BY <1>1, <1>3 DEF Change
<1>5. \A i \in 1..(n - 1) : IsFrame(stack[i]) /\ stack[i].op \in {"rm", "cp"}
  BY <1>1, <1>2 DEF FdInv
<1>6. stack' \in Seq(Range(stack'))
  BY <1>4, OwnElements
<1>7. \A i \in 1..n : i = n \/ i \in 1..(n - 1)
  BY <1>1
<1>8. DOMAIN stack' = 1..n /\ Last(stack') = f
  BY <1>4, <1>1 DEF Last
<1>9. \A i \in 1..n : IsFrame(stack'[i])
  BY <1>4, <1>5, <1>7
<1> QED
  BY <1>1, <1>4, <1>5, <1>6, <1>8, <1>9 DEF FdInv, Top

\* It calls another.
LEMMA PushKeeps ==
  ASSUME FdInv, stack # <<>>, NEW f, IsFrame(f), f.op \in {"rm", "cp"},
         NEW g, IsFrame(g), Owned(g) = {}, stack' = Append(Append(Front(stack), f), g),
         mine' = mine, IsKernel(os'), Open(os') = mine
  PROVE  FdInv'
<1> DEFINE n == Len(stack)
           S == Range(stack) \cup {f, g}
<1>1. n \in Nat /\ n > 0 /\ stack \in Seq(S)
  BY DEF FdInv, Range
<1>2. DOMAIN stack = 1..n
  BY <1>1
<1>3. Front(stack) \in Seq(S) /\ Len(Front(stack)) = n - 1
      /\ \A i \in 1..(n - 1) : Front(stack)[i] = stack[i]
  BY <1>1, FrontFacts
<1>4. Append(Front(stack), f) \in Seq(S) /\ Len(Append(Front(stack), f)) = n
      /\ Append(Front(stack), f)[n] = f
      /\ \A i \in 1..(n - 1) : Append(Front(stack), f)[i] = stack[i]
  BY <1>1, <1>3
<1>5. stack' \in Seq(S) /\ Len(stack') = n + 1 /\ stack'[n] = f /\ stack'[n + 1] = g
      /\ \A i \in 1..(n - 1) : stack'[i] = stack[i]
  BY <1>1, <1>4
<1>6. \A i \in 1..(n - 1) : IsFrame(stack[i]) /\ stack[i].op \in {"rm", "cp"}
  BY <1>1, <1>2 DEF FdInv
<1>7. stack' \in Seq(Range(stack'))
  BY <1>5, OwnElements
<1>8. \A i \in 1..(n + 1) : i = n + 1 \/ i = n \/ i \in 1..(n - 1)
  BY <1>1
<1>9. \A i \in 1..n : i = n \/ i \in 1..(n - 1)
  BY <1>1
<1>10. DOMAIN stack' = 1..(n + 1) /\ Last(stack') = g
  BY <1>5, <1>1 DEF Last
<1>11. \A i \in 1..(n + 1) : IsFrame(stack'[i])
  BY <1>5, <1>6, <1>8
<1>12. \A i \in 1..n : stack'[i].op \in {"rm", "cp"}
  BY <1>5, <1>6, <1>9
<1> QED
  BY <1>1, <1>5, <1>7, <1>10, <1>11, <1>12 DEF FdInv, Top

\* It returns or throws.
LEMMA LeaveKeeps ==
  ASSUME FdInv, stack # <<>>, stack' \in {<<>>, Front(stack)}, mine' = mine,
         IsKernel(os'), Open(os') = mine
  PROVE  FdInv'
<1>1. CASE stack' = <<>>
  BY <1>1, IdleKeeps DEF FdInv
<1>2. CASE stack' = Front(stack) /\ stack' # <<>>
  <2> DEFINE n == Len(stack)
  <2>1. n \in Nat /\ n > 0 /\ stack \in Seq(Range(stack))
    BY DEF FdInv
  <2>2. DOMAIN stack = 1..n
    BY <2>1
  <2>3. stack' \in Seq(Range(stack)) /\ Len(stack') = n - 1
        /\ \A i \in 1..(n - 1) : stack'[i] = stack[i]
    BY <1>2, <2>1, FrontFacts
  <2>4. stack' \in Seq(Range(stack'))
    BY <2>3, OwnElements
  <2>5. \A i \in 1..(n - 1) : IsFrame(stack[i]) /\ stack[i].op \in {"rm", "cp"}
    BY <2>1, <2>2 DEF FdInv
  <2>6. DOMAIN stack' = 1..(n - 1)
    BY <2>3, <2>1
  <2>7. Top'.op \in {"rm", "cp"}
    BY <1>2, <2>1, <2>3, <2>5 DEF Top, Last
  <2>8. Owned(Top)' = {}
    BY <2>7 DEF Owned
  <2>9. \A i \in DOMAIN stack' : IsFrame(stack'[i])
    BY <2>3, <2>5, <2>6
  <2>10. \A i \in 1..(Len(stack') - 1) : stack'[i].op \in {"rm", "cp"}
    BY <2>1, <2>3, <2>5
  <2> QED
    BY <1>2, <2>4, <2>8, <2>9, <2>10 DEF FdInv
<1> QED
  BY <1>1, <1>2

\* The whole call ends, or the frame that called this one goes on.
LEMMA EndsLeave ==
  /\ \A e, b : Finish(e, b) => stack' = <<>> /\ mine' = mine
  /\ Return => stack' \in {<<>>, Front(stack)} /\ mine' = mine
  /\ \A e : Throw(e) => stack' \in {<<>>, Front(stack)} /\ mine' = mine
<1>1. ASSUME NEW e, NEW b, Finish(e, b) PROVE stack' = <<>> /\ mine' = mine
  BY <1>1, Zenon DEF Finish
<1>2. Return => stack' \in {<<>>, Front(stack)} /\ mine' = mine
  BY <1>1 DEF Return
<1> QED
  BY <1>1, <1>2 DEF Throw

\* The innermost frame is a frame.
LEMMA TopIs ==
  ASSUME FdInv, stack # <<>>
  PROVE  IsFrame(Top)
BY DEF FdInv, Top, Last

\* Descriptors belong to frames that read, write or copy, or wait for curl.
LEMMA IdleFrames ==
  ASSUME NEW f, "op" \in DOMAIN f,
         \/ f.op = "mkdir"
         \/ f.op \in {"rm", "cp"} /\ "at" \in DOMAIN f
         \/ f.op = "http" /\ "at" \in DOMAIN f /\ "fd" \in DOMAIN f /\ f.at # "read"
  PROVE  IsFrame(f) /\ Owned(f) = {}
BY DEF IsFrame, Owned

LEMMA NewFrames ==
  ASSUME NEW f, {"op", "fd"} \subseteq DOMAIN f,
         \/ f.op = "read"
         \/ f.op = "write" /\ "flag" \in DOMAIN f /\ f.flag \in {"w", "a"}
         \/ f.op = "copy" /\ {"dfd", "rest"} \subseteq DOMAIN f /\ f.dfd = 0 /\ f.rest = <<>>
  PROVE  /\ f.fd \in Fds => IsFrame(f) /\ Owned(f) = {f.fd}
         /\ f.fd = 0 => IsFrame(f) /\ Owned(f) = {}
<1>1. 0 \notin Fds
  BY FileSystemAssumption
<1>2. f.fd \in Fds \cup {0} => IsFrame(f)
  BY DEF IsFrame
<1>3. Owned(f) = {d \in Fds : d = f.fd}
  BY <1>1 DEF Owned
<1> QED
  BY <1>1, <1>2, <1>3

\* A step of a call that leaves the descriptors as they are: the innermost frame,
\* which has none, goes away, goes on or calls another.
Calls(f, g) ==
  /\ IsFrame(f) /\ f.op \in {"rm", "cp"} /\ IsFrame(g) /\ Owned(g) = {}
  /\ stack' = Append(Append(Front(stack), f), g)
Plainly ==
  \/ stack' \in {<<>>, Front(stack)}
  \/ \E f : IsFrame(f) /\ Owned(f) = {} /\ Change(f)
  \/ \E f, g : Calls(f, g)

LEMMA PlainlyKeeps ==
  ASSUME FdInv, stack # <<>>, Owned(Top) = {}, Plainly, mine' = mine,
         "fds" \in DOMAIN os', os'.fds = os.fds
  PROVE  FdInv'
<1>1. IsKernel(os') /\ Open(os') = mine
  BY SameTable DEF FdInv
<1>2. CASE stack' \in {<<>>, Front(stack)}
  BY <1>1, <1>2, LeaveKeeps
<1>3. CASE \E f : IsFrame(f) /\ Owned(f) = {} /\ Change(f)
  BY <1>1, <1>3, ChangeKeeps
<1>4. CASE \E f, g : Calls(f, g)
  BY <1>1, <1>4, PushKeeps DEF Calls
<1> QED
  BY <1>2, <1>3, <1>4 DEF Plainly

\* A step that opens a first descriptor.
LEMMA OpenKeeps ==
  ASSUME FdInv, stack # <<>>, Owned(Top) = {}, NEW p, NEW flags, flags # {"closed"},
         LET r == KOpen(os, p, flags) IN
         IF r.err # "" THEN os' = os /\ Throw(r.err)
         ELSE /\ os' = r.k /\ mine' = mine
              /\ \E f : Change(f) /\ (NewFd(r) \in Fds => IsFrame(f) /\ Owned(f) = {NewFd(r)})
  PROVE  FdInv'
<1> DEFINE r == KOpen(os, p, flags)
<1>1. /\ r.err # "" => r.k = os
      /\ r.err = "" => /\ NewFd(r) \in Fds \ Open(os)
                       /\ IsKernel(r.k) /\ Open(r.k) = Open(os) \cup {NewFd(r)}
  BY KOpenIs DEF FdInv
<1>2. Open(os) = mine
  BY DEF FdInv
<1>3. CASE r.err # ""
  BY <1>2, <1>3, EndsLeave, LeaveKeeps DEF FdInv
<1>4. CASE r.err = ""
  <2>1. PICK f : Change(f) /\ (NewFd(r) \in Fds => IsFrame(f) /\ Owned(f) = {NewFd(r)})
    BY <1>4
  <2>2. os' = r.k /\ mine' = mine
    BY <1>4
  <2> HIDE DEF r
  <2> QED
    BY <1>1, <1>2, <1>4, <2>1, <2>2, ChangeKeeps
<1> QED
  BY <1>3, <1>4

----------------------------------------------------------------------------
(* readFileSync *)
LEMMA ReadOpensKeeps == FdInv /\ ReadOpens => FdInv'
<1> SUFFICES ASSUME FdInv, ReadOpens PROVE FdInv'
  OBVIOUS
<1> DEFINE r == KOpen(os, Top.path, {"read"})
           size == IF r.k.fds[NewFd(r)].ino = 0 THEN 0 ELSE Len(os.data[r.k.fds[NewFd(r)].ino])
           f == [Top EXCEPT !.fd = NewFd(r), !.size = size]
<1>1. stack # <<>> /\ Top.op = "read" /\ Top.fd = 0 /\ IsFrame(Top)
  BY TopIs DEF ReadOpens
<1>2. Owned(Top) = {} /\ {"op", "fd"} \subseteq DOMAIN Top
  BY <1>1, FileSystemAssumption DEF Owned, IsFrame
<1>3. IF r.err # "" THEN os' = os /\ Throw(r.err)
      ELSE os' = r.k /\ Going /\ Change(f)
  BY Zenon DEF ReadOpens
<1> HIDE DEF size
<1>4. {"op", "fd"} \subseteq DOMAIN f /\ f.op = "read" /\ f.fd = NewFd(r)
  BY <1>1, <1>2
<1> HIDE DEF f
<1>5. NewFd(r) \in Fds => IsFrame(f) /\ Owned(f) = {NewFd(r)}
  BY <1>4, NewFrames
<1>6. {"read"} # {"closed"}
  OBVIOUS
<1>7. Going => mine' = mine
  BY DEF Going
<1> QED
  BY <1>1, <1>2, <1>3, <1>5, <1>6, <1>7, OpenKeeps

LEMMA ReadReadsKeeps == FdInv /\ ReadReads => FdInv'
<1> SUFFICES ASSUME FdInv, ReadReads PROVE FdInv'
  OBVIOUS
<1>1. stack # <<>> /\ Top.op = "read" /\ Top.fd # 0 /\ IsFrame(Top) /\ os' = KClose(os, Top.fd)
  BY TopIs DEF ReadReads
<1>2. Top.fd \in Fds /\ Owned(Top) = {Top.fd}
  BY <1>1 DEF IsFrame, Owned
<1>3. IsKernel(os) /\ Open(os) = mine \cup {Top.fd} /\ Top.fd \notin mine
  BY <1>1, <1>2 DEF FdInv
<1>4. IsKernel(os') /\ Open(os') = mine
  <2>1. IsKernel(os') /\ Open(os') = Open(os) \ {Top.fd}
    BY <1>1, <1>2, <1>3, ClosedIs
  <2> QED
    BY <1>3, <2>1
<1>5. stack' = <<>> /\ mine' = mine
  BY EndsLeave DEF ReadReads
<1> QED
  BY <1>1, <1>4, <1>5, LeaveKeeps

----------------------------------------------------------------------------
(* writeFileSync and appendFileSync *)
\* None of the modes of open() is the mark of a closed descriptor.
LEMMA FlagsAreOpen ==
  ASSUME NEW s \in {"r", "r+", "w", "wx", "w+", "a", "ax"}
  PROVE  ParseOpenFlags[s] # {"closed"}
<1>1. \A x \in {"read", "write"} : x # "closed"
  OBVIOUS
<1>2. \A X : ("read" \in X \/ "write" \in X) => X # {"closed"}
  BY <1>1
<1>3. "read" \in ParseOpenFlags[s] \/ "write" \in ParseOpenFlags[s]
  BY Zenon DEF ParseOpenFlags
<1> QED
  BY <1>2, <1>3

LEMMA WriteOpensKeeps == FdInv /\ WriteOpens => FdInv'
<1> SUFFICES ASSUME FdInv, WriteOpens PROVE FdInv'
  OBVIOUS
<1> DEFINE flags == ParseOpenFlags[Top.flag]
           r == KOpen(os, Top.path, flags)
           f == [Top EXCEPT !.fd = NewFd(r)]
<1>1. stack # <<>> /\ Top.op = "write" /\ Top.fd = 0 /\ IsFrame(Top)
  BY TopIs DEF WriteOpens
<1>2. Owned(Top) = {} /\ {"op", "fd", "flag"} \subseteq DOMAIN Top /\ Top.flag \in {"w", "a"}
  BY <1>1, FileSystemAssumption DEF Owned, IsFrame
<1>3. IF r.err # "" THEN os' = os /\ Throw(r.err)
      ELSE os' = r.k /\ Change(f) /\ Going
  BY Zenon DEF WriteOpens
<1>4. flags # {"closed"}
  BY <1>2, FlagsAreOpen
<1> HIDE DEF flags, r
<1>5. /\ {"op", "fd", "flag"} \subseteq DOMAIN f /\ f.op = "write" /\ f.fd = NewFd(r)
      /\ f.flag \in {"w", "a"}
  BY <1>1, <1>2
<1> HIDE DEF f
<1>6. NewFd(r) \in Fds => IsFrame(f) /\ Owned(f) = {NewFd(r)}
  BY <1>5, NewFrames
<1>7. Going => mine' = mine
  BY DEF Going
<1> QED
  BY <1>1, <1>2, <1>3, <1>4, <1>6, <1>7, OpenKeeps DEF r

LEMMA WriteWritesKeeps == FdInv /\ WriteWrites => FdInv'
<1> SUFFICES ASSUME FdInv, WriteWrites PROVE FdInv'
  OBVIOUS
<1>1. stack # <<>> /\ Top.op = "write" /\ Top.fd # 0 /\ IsFrame(Top)
  BY TopIs DEF WriteWrites
<1>2. Top.fd \in Fds /\ Owned(Top) = {Top.fd}
  BY <1>1 DEF IsFrame, Owned
<1>3. IsKernel(os) /\ Open(os) = mine \cup {Top.fd} /\ Top.fd \notin mine
  BY <1>1, <1>2 DEF FdInv
<1>4. CASE os' = KClose(os, Top.fd) /\ Throw("ENOSPC")
  <2>1. IsKernel(os') /\ Open(os') = Open(os) \ {Top.fd}
    BY <1>2, <1>3, <1>4, ClosedIs
  <2>2. Open(os') = mine
    BY <1>3, <2>1
  <2> QED
    BY <1>1, <1>4, <2>1, <2>2, EndsLeave, LeaveKeeps
<1>5. ASSUME NEW n, os' = KWrite(os, Top.fd, SubSeq(Top.rest, 1, n)),
             Change([Top EXCEPT !.rest = Advance(n, @)]), Going
      PROVE  FdInv'
  <2> DEFINE f == [Top EXCEPT !.rest = Advance(n, @)]
  <2>1. IsFrame(f) /\ Owned(f) = Owned(Top)
    BY <1>1 DEF IsFrame, Owned
  <2>2. Change(f) /\ mine' = mine
    BY <1>5 DEF Going
  <2>3. IsKernel(os') /\ Open(os') = Open(os)
    BY <1>3, <1>5, WriteIs
  <2> HIDE DEF f
  <2> QED
    BY <1>1, <1>2, <1>3, <2>1, <2>2, <2>3, ChangeKeeps
<1> QED
  BY <1>4, <1>5 DEF WriteWrites

LEMMA WriteDoneKeeps == FdInv /\ WriteDone => FdInv'
<1> SUFFICES ASSUME FdInv, WriteDone PROVE FdInv'
  OBVIOUS
<1>1. stack # <<>> /\ Top.op = "write" /\ Top.fd # 0 /\ IsFrame(Top) /\ os' = KClose(os, Top.fd)
  BY TopIs DEF WriteDone
<1>2. Top.fd \in Fds /\ Owned(Top) = {Top.fd}
  BY <1>1 DEF IsFrame, Owned
<1>3. IsKernel(os) /\ Open(os) = mine \cup {Top.fd} /\ Top.fd \notin mine
  BY <1>1, <1>2 DEF FdInv
<1>4. IsKernel(os') /\ Open(os') = Open(os) \ {Top.fd}
  BY <1>1, <1>2, <1>3, ClosedIs
<1>5. Open(os') = mine
  BY <1>3, <1>4
<1>6. stack' \in {<<>>, Front(stack)} /\ mine' = mine
  BY EndsLeave DEF WriteDone
<1> QED
  BY <1>1, <1>4, <1>5, <1>6, LeaveKeeps

----------------------------------------------------------------------------
(* copyFileSync *)
LEMMA CopyOpensKeeps == FdInv /\ CopyOpens => FdInv'
<1> SUFFICES ASSUME FdInv, CopyOpens PROVE FdInv'
  OBVIOUS
<1> DEFINE r == KOpen(os, Top.path, {"read"})
           f == [Top EXCEPT !.fd = NewFd(r)]
<1>1. stack # <<>> /\ Top.op = "copy" /\ Top.fd = 0 /\ IsFrame(Top)
  BY TopIs DEF CopyOpens
<1>2. /\ Owned(Top) = {} /\ {"op", "fd", "dfd", "rest"} \subseteq DOMAIN Top
      /\ Top.dfd = 0 /\ Top.rest = <<>>
  BY <1>1, FileSystemAssumption DEF Owned, IsFrame
<1>3. IF r.err # "" THEN os' = os /\ Throw(r.err)
      ELSE os' = r.k /\ Change(f) /\ Going
  BY Zenon DEF CopyOpens
<1>4. {"read"} # {"closed"}
  OBVIOUS
<1> HIDE DEF r
<1>5. /\ {"op", "fd", "dfd", "rest"} \subseteq DOMAIN f /\ f.op = "copy" /\ f.fd = NewFd(r)
      /\ f.dfd = 0 /\ f.rest = <<>>
  BY <1>1, <1>2
<1> HIDE DEF f
<1>6. NewFd(r) \in Fds => IsFrame(f) /\ Owned(f) = {NewFd(r)}
  BY <1>5, NewFrames
<1>7. Going => mine' = mine
  BY DEF Going
<1> QED
  BY <1>1, <1>2, <1>3, <1>4, <1>6, <1>7, OpenKeeps DEF r

\* Both descriptors of a copy.
LEMMA CopyOwns ==
  ASSUME FdInv, stack # <<>>, Top.op = "copy", Top.dfd # 0
  PROVE  /\ {"op", "fd", "dfd", "rest"} \subseteq DOMAIN Top
         /\ Top.fd \in Fds /\ Top.dfd \in Fds /\ Top.fd # Top.dfd
         /\ Owned(Top) = {Top.fd, Top.dfd} /\ IsKernel(os)
         /\ Open(os) = mine \cup {Top.fd, Top.dfd}
         /\ Top.fd \notin mine /\ Top.dfd \notin mine
<1>1. IsFrame(Top)
  BY TopIs
<1>2. {"op", "fd", "dfd", "rest"} \subseteq DOMAIN Top
  BY <1>1 DEF IsFrame
<1>3. Top.fd \in Fds /\ Top.dfd \in Fds /\ Top.fd # Top.dfd
  BY <1>1 DEF IsFrame
<1>4. Owned(Top) = {Top.fd, Top.dfd}
  BY <1>3 DEF Owned
<1> QED
  BY <1>2, <1>3, <1>4 DEF FdInv

LEMMA CopyCreatesKeeps == FdInv /\ CopyCreates => FdInv'
<1> SUFFICES ASSUME FdInv, CopyCreates PROVE FdInv'
  OBVIOUS
<1> DEFINE flags == ParseOpenFlags["w"]
           r == KOpen(os, Top.dst, flags)
           f == [Top EXCEPT !.dfd = NewFd(r)]
<1>1. stack # <<>> /\ Top.op = "copy" /\ Top.fd # 0 /\ Top.dfd = 0 /\ IsFrame(Top)
  BY TopIs DEF CopyCreates
<1>2. {"op", "fd", "dfd", "rest"} \subseteq DOMAIN Top /\ Top.fd \in Fds /\ Top.rest = <<>>
  BY <1>1 DEF IsFrame
<1>3. Owned(Top) = {Top.fd}
  BY <1>1, <1>2, FileSystemAssumption DEF Owned
<1>4. IsKernel(os) /\ Open(os) = mine \cup {Top.fd} /\ Top.fd \notin mine
  BY <1>1, <1>3 DEF FdInv
<1>5. IF r.err # "" THEN os' = OpenFailed /\ Throw(r.err)
      ELSE os' = r.k /\ Change(f) /\ Going
  BY Zenon DEF CopyCreates
<1>6. flags # {"closed"}
  BY FlagsAreOpen
<1>7. /\ r.err = "" => /\ NewFd(r) \in Fds \ Open(os)
                       /\ IsKernel(r.k) /\ Open(r.k) = Open(os) \cup {NewFd(r)}
  BY <1>4, <1>6, KOpenIs
<1> HIDE DEF flags, r
<1>8. CASE r.err # ""
  <2>1. os' = KClose(os, Top.fd) /\ Throw(r.err)
    BY <1>5, <1>8 DEF OpenFailed
  <2>2. IsKernel(os') /\ Open(os') = Open(os) \ {Top.fd}
    BY <1>2, <1>4, <2>1, ClosedIs
  <2>3. Open(os') = mine
    BY <1>4, <2>2
  <2> QED
    BY <1>1, <2>1, <2>2, <2>3, EndsLeave, LeaveKeeps
<1>9. CASE r.err = ""
  <2>1. os' = r.k /\ Change(f) /\ mine' = mine
    BY <1>5, <1>9 DEF Going
  <2>2. NewFd(r) \in Fds /\ NewFd(r) # Top.fd /\ NewFd(r) \notin mine /\ NewFd(r) # 0
    BY <1>4, <1>7, <1>9, FileSystemAssumption
  <2>3. /\ {"op", "fd", "dfd", "rest"} \subseteq DOMAIN f /\ f.op = "copy" /\ f.fd = Top.fd
        /\ f.dfd = NewFd(r) /\ f.rest = <<>>
    BY <1>1, <1>2
  <2> HIDE DEF f
  <2>4. IsFrame(f) /\ Owned(f) = {Top.fd, NewFd(r)}
    BY <1>1, <1>2, <2>2, <2>3 DEF IsFrame, Owned
  <2>5. IsKernel(os') /\ Open(os') = mine \cup {Top.fd, NewFd(r)}
    BY <1>4, <1>7, <1>9, <2>1
  <2>6. mine \cap {Top.fd, NewFd(r)} = {}
    BY <1>4, <2>2
  <2> QED
    BY <1>1, <2>1, <2>4, <2>5, <2>6, ChangeKeeps
<1> QED
  BY <1>8, <1>9

\* Closing both gives back what the copy had.
LEMMA CloseBothIs ==
  ASSUME FdInv, stack # <<>>, Top.op = "copy", Top.dfd # 0
  PROVE  IsKernel(CloseBoth) /\ Open(CloseBoth) = mine
<1>1. /\ Top.fd \in Fds /\ Top.dfd \in Fds /\ IsKernel(os)
      /\ Open(os) = mine \cup {Top.fd, Top.dfd} /\ Top.fd \notin mine /\ Top.dfd \notin mine
  BY CopyOwns
<1> DEFINE half == KClose(os, Top.fd)
<1>2. IsKernel(half) /\ Open(half) = Open(os) \ {Top.fd}
  BY <1>1, ClosedIs
<1> HIDE DEF half
<1>3. IsKernel(KClose(half, Top.dfd)) /\ Open(KClose(half, Top.dfd)) = Open(half) \ {Top.dfd}
  BY <1>1, <1>2, ClosedIs
<1>4. (Open(os) \ {Top.fd}) \ {Top.dfd} = mine
  BY <1>1
<1>5. CloseBoth = KClose(half, Top.dfd)
  BY DEF CloseBoth, half
<1> QED
  BY <1>2, <1>3, <1>4, <1>5

LEMMA CopyReadsKeeps == FdInv /\ CopyReads => FdInv'
<1> SUFFICES ASSUME FdInv, CopyReads PROVE FdInv'
  OBVIOUS
<1>1. stack # <<>> /\ Top.op = "copy" /\ Top.dfd # 0 /\ Top.rest = <<>> /\ IsFrame(Top)
  BY TopIs DEF CopyReads
<1>2. /\ {"op", "fd", "dfd", "rest"} \subseteq DOMAIN Top
      /\ Top.fd \in Fds /\ Owned(Top) = {Top.fd, Top.dfd} /\ IsKernel(os)
      /\ Open(os) = mine \cup {Top.fd, Top.dfd} /\ Top.fd \notin mine /\ Top.dfd \notin mine
  BY <1>1, CopyOwns
<1> DEFINE block == KRead(os, Top.fd, 2)
           f == [Top EXCEPT !.rest = block]
<1>3. \/ os' = CloseBoth /\ (Throw("EISDIR") \/ Return)
      \/ os' = [os EXCEPT !.fds[Top.fd].pos = @ + Len(block)] /\ Change(f) /\ Going
  BY Zenon DEF CopyReads
<1> HIDE DEF block
<1>4. CASE os' = CloseBoth /\ (Throw("EISDIR") \/ Return)
  <2>1. IsKernel(os') /\ Open(os') = mine
    BY <1>1, <1>4, CloseBothIs
  <2> QED
    BY <1>1, <1>4, <2>1, EndsLeave, LeaveKeeps
<1>5. CASE os' = [os EXCEPT !.fds[Top.fd].pos = @ + Len(block)] /\ Change(f) /\ Going
  <2>1. "fds" \in DOMAIN os' /\ \E x : os'.fds = [os.fds EXCEPT ![Top.fd].pos = x]
    BY <1>2, <1>5 DEF IsKernel
  <2>2. IsKernel(os') /\ Open(os') = Open(os)
    BY <1>2, <2>1, MovedIs
  <2>3. IsFrame(f) /\ Owned(f) = Owned(Top)
    BY <1>1, <1>2 DEF IsFrame, Owned
  <2>4. Change(f) /\ mine' = mine
    BY <1>5 DEF Going
  <2>5. mine \cap {Top.fd, Top.dfd} = {}
    BY <1>2
  <2> HIDE DEF f
  <2> QED
    BY <1>1, <1>2, <2>2, <2>3, <2>4, <2>5, ChangeKeeps
<1> QED
  BY <1>3, <1>4, <1>5

LEMMA CopyWritesKeeps == FdInv /\ CopyWrites => FdInv'
<1> SUFFICES ASSUME FdInv, CopyWrites PROVE FdInv'
  OBVIOUS
<1>1. stack # <<>> /\ Top.op = "copy" /\ Top.rest # <<>> /\ IsFrame(Top)
  BY TopIs DEF CopyWrites
<1>2. Top.dfd # 0
  BY <1>1 DEF IsFrame
<1>3. /\ {"op", "fd", "dfd", "rest"} \subseteq DOMAIN Top
      /\ Top.dfd \in Fds /\ Owned(Top) = {Top.fd, Top.dfd} /\ IsKernel(os)
      /\ Open(os) = mine \cup {Top.fd, Top.dfd} /\ Top.fd \notin mine /\ Top.dfd \notin mine
  BY <1>1, <1>2, CopyOwns
<1>4. CASE os' = CloseBoth /\ Throw("ENOSPC")
  <2>1. IsKernel(os') /\ Open(os') = mine
    BY <1>1, <1>2, <1>4, CloseBothIs
  <2> QED
    BY <1>1, <1>4, <2>1, EndsLeave, LeaveKeeps
<1>5. ASSUME NEW n, os' = KWrite(os, Top.dfd, SubSeq(Top.rest, 1, n)),
             Change([Top EXCEPT !.rest = Advance(n, @)]), Going
      PROVE  FdInv'
  <2> DEFINE f == [Top EXCEPT !.rest = Advance(n, @)]
  <2>1. IsFrame(f) /\ Owned(f) = Owned(Top)
    BY <1>1, <1>2, <1>3 DEF IsFrame, Owned
  <2>2. Change(f) /\ mine' = mine
    BY <1>5 DEF Going
  <2>3. IsKernel(os') /\ Open(os') = Open(os)
    BY <1>3, <1>5, WriteIs
  <2>4. mine \cap {Top.fd, Top.dfd} = {}
    BY <1>3
  <2> HIDE DEF f
  <2> QED
    BY <1>1, <1>3, <2>1, <2>2, <2>3, <2>4, ChangeKeeps
<1> QED
  BY <1>4, <1>5 DEF CopyWrites

----------------------------------------------------------------------------
(* mkdirSync, rmSync and cpSync *)
LEMMA MkdirKeeps == FdInv /\ MkdirStep => FdInv'
<1> SUFFICES ASSUME FdInv, MkdirStep PROVE FdInv'
  OBVIOUS
<1> DEFINE r == Mkdir(SubSeq(Top.path, 1, Top.i))
           f == [Top EXCEPT !.i = @ + 1]
<1>1. stack # <<>> /\ Top.op = "mkdir" /\ IsFrame(Top) /\ IsKernel(os)
  BY TopIs DEF MkdirStep, FdInv
<1>2. Owned(Top) = {} /\ "op" \in DOMAIN Top
  BY <1>1 DEF Owned, IsFrame
<1>3. Leaves(r)
  BY <1>1, PathCallsLeave DEF OnPath
<1>4. "fds" \in DOMAIN os' /\ os'.fds = os.fds
  BY <1>3 DEF MkdirStep, Leaves
<1>5. Throw(r.err) \/ Return \/ (Change(f) /\ Going)
  BY Zenon DEF MkdirStep
<1>6. IsFrame(f) /\ Owned(f) = {}
  BY <1>1, <1>2, IdleFrames
<1> HIDE DEF r, f
<1>7. Plainly /\ mine' = mine
  BY <1>5, <1>6, EndsLeave DEF Plainly, Going
<1> QED
  BY <1>1, <1>2, <1>4, <1>7, PlainlyKeeps

\* The frames of rmSync and cpSync have no descriptor, at whatever they are.
LEMMA TreeFrames ==
  ASSUME FdInv, stack # <<>>, Top.op \in {"rm", "cp"}
  PROVE  /\ {"op", "at"} \subseteq DOMAIN Top /\ Owned(Top) = {} /\ IsKernel(os) /\ "fds" \in DOMAIN os
         /\ \A at, rest : LET f == [Top EXCEPT !.at = at, !.rest = rest] IN
                            f.op = Top.op /\ IsFrame(f) /\ Owned(f) = {}
         /\ \A at : LET f == [Top EXCEPT !.at = at] IN f.op = Top.op /\ IsFrame(f) /\ Owned(f) = {}
         /\ \A rest : LET f == [Top EXCEPT !.rest = rest] IN f.op = Top.op /\ IsFrame(f) /\ Owned(f) = {}
         /\ \A p : IsFrame(RmFrame(p)) /\ Owned(RmFrame(p)) = {}
         /\ \A p, q : IsFrame(CpFrame(p, q)) /\ Owned(CpFrame(p, q)) = {}
         /\ \A p, q : IsFrame(CopyFrame(p, q)) /\ Owned(CopyFrame(p, q)) = {}
         /\ \A p : IsFrame(MkdirFrame(p)) /\ Owned(MkdirFrame(p)) = {}
<1>1. {"op", "at"} \subseteq DOMAIN Top
  BY TopIs DEF IsFrame
<1>2. Owned(Top) = {} /\ IsKernel(os) /\ "fds" \in DOMAIN os
  BY DEF Owned, FdInv, IsKernel
<1>3. ASSUME NEW at, NEW rest
      PROVE  LET f == [Top EXCEPT !.at = at, !.rest = rest] IN f.op = Top.op /\ IsFrame(f) /\ Owned(f) = {}
  <2> DEFINE f == [Top EXCEPT !.at = at, !.rest = rest]
  <2>1. {"op", "at"} \subseteq DOMAIN f /\ f.op = Top.op
    BY <1>1
  <2> HIDE DEF f
  <2>2. IsFrame(f) /\ Owned(f) = {}
    BY <2>1, IdleFrames
  <2> QED
    BY <2>1, <2>2 DEF f
<1>4. ASSUME NEW at
      PROVE  LET f == [Top EXCEPT !.at = at] IN f.op = Top.op /\ IsFrame(f) /\ Owned(f) = {}
  <2> DEFINE f == [Top EXCEPT !.at = at]
  <2>1. {"op", "at"} \subseteq DOMAIN f /\ f.op = Top.op
    BY <1>1
  <2> HIDE DEF f
  <2>2. IsFrame(f) /\ Owned(f) = {}
    BY <2>1, IdleFrames
  <2> QED
    BY <2>1, <2>2 DEF f
<1>5. ASSUME NEW rest
      PROVE  LET f == [Top EXCEPT !.rest = rest] IN f.op = Top.op /\ IsFrame(f) /\ Owned(f) = {}
  <2> DEFINE f == [Top EXCEPT !.rest = rest]
  <2>1. {"op", "at"} \subseteq DOMAIN f /\ f.op = Top.op
    BY <1>1
  <2> HIDE DEF f
  <2>2. IsFrame(f) /\ Owned(f) = {}
    BY <2>1, IdleFrames
  <2> QED
    BY <2>1, <2>2 DEF f
<1>6. ASSUME NEW p PROVE IsFrame(RmFrame(p)) /\ Owned(RmFrame(p)) = {}
  BY IdleFrames DEF RmFrame
<1>7. ASSUME NEW p, NEW q PROVE IsFrame(CpFrame(p, q)) /\ Owned(CpFrame(p, q)) = {}
  BY IdleFrames DEF CpFrame
<1>8. ASSUME NEW p, NEW q PROVE IsFrame(CopyFrame(p, q)) /\ Owned(CopyFrame(p, q)) = {}
  BY NewFrames DEF CopyFrame
<1>9. ASSUME NEW p
      PROVE  IsFrame(MkdirFrame(p)) /\ Owned(MkdirFrame(p)) = {}
  BY IdleFrames DEF MkdirFrame
<1> QED
  BY <1>1, <1>2, <1>3, <1>4, <1>5, <1>6, <1>7, <1>8, <1>9

\* A step of theirs that leaves the kernel alone.
LEMMA TreeKeeps ==
  ASSUME FdInv, stack # <<>>, Top.op \in {"rm", "cp"}, Leaves(Ok(os')),
         \/ Return
         \/ \E e : Throw(e)
         \/ Going /\ \/ \E at, rest : Change([Top EXCEPT !.at = at, !.rest = rest])
                     \/ \E at : Change([Top EXCEPT !.at = at])
                     \/ \E p, q : Change(CopyFrame(p, q))
                     \/ \E rest, p : stack' = Append(Append(Front(stack), [Top EXCEPT !.rest = rest]), RmFrame(p))
                     \/ \E rest, p, q : stack' = Append(Append(Front(stack), [Top EXCEPT !.rest = rest]), CpFrame(p, q))
                     \/ \E at, p : stack' = Append(Append(Front(stack), [Top EXCEPT !.at = at]), MkdirFrame(p))
  PROVE  FdInv'
<1>1. "fds" \in DOMAIN os' /\ os'.fds = os.fds
  BY DEF Leaves, Ok
<1>2. Owned(Top) = {}
  BY TreeFrames
<1>3. CASE Return \/ \E e : Throw(e)
  <2>1. Plainly /\ mine' = mine
    BY <1>3, EndsLeave DEF Plainly
  <2> QED
    BY <1>1, <1>2, <2>1, PlainlyKeeps
<1>4. CASE Going
  <2>1. mine' = mine
    BY <1>4 DEF Going
  <2>2. ASSUME NEW at, NEW rest, Change([Top EXCEPT !.at = at, !.rest = rest]) PROVE Plainly
    <3> DEFINE f == [Top EXCEPT !.at = at, !.rest = rest]
    <3>1. Change(f) /\ IsFrame(f) /\ Owned(f) = {}
      BY <2>2, TreeFrames
    <3> HIDE DEF f
    <3> QED
      BY <3>1 DEF Plainly
  <2>3. ASSUME NEW at, Change([Top EXCEPT !.at = at]) PROVE Plainly
    <3> DEFINE f == [Top EXCEPT !.at = at]
    <3>1. Change(f) /\ IsFrame(f) /\ Owned(f) = {}
      BY <2>3, TreeFrames
    <3> HIDE DEF f
    <3> QED
      BY <3>1 DEF Plainly
  <2>4. ASSUME NEW p, NEW q, Change(CopyFrame(p, q)) PROVE Plainly
    BY <2>4, TreeFrames DEF Plainly
  <2>5. ASSUME NEW f, NEW g, Calls(f, g) PROVE Plainly
    BY <2>5 DEF Plainly
  <2>6. ASSUME NEW rest, NEW p,
               stack' = Append(Append(Front(stack), [Top EXCEPT !.rest = rest]), RmFrame(p))
        PROVE  Plainly
    <3> DEFINE f == [Top EXCEPT !.rest = rest]
    <3>1. f.op \in {"rm", "cp"} /\ IsFrame(f) /\ IsFrame(RmFrame(p)) /\ Owned(RmFrame(p)) = {}
      BY TreeFrames
    <3>2. stack' = Append(Append(Front(stack), f), RmFrame(p))
      BY <2>6
    <3> HIDE DEF f
    <3> QED
      BY <2>5, <3>1, <3>2 DEF Calls
  <2>7. ASSUME NEW rest, NEW p, NEW q,
               stack' = Append(Append(Front(stack), [Top EXCEPT !.rest = rest]), CpFrame(p, q))
        PROVE  Plainly
    <3> DEFINE f == [Top EXCEPT !.rest = rest]
    <3>1. f.op \in {"rm", "cp"} /\ IsFrame(f) /\ IsFrame(CpFrame(p, q)) /\ Owned(CpFrame(p, q)) = {}
      BY TreeFrames
    <3>2. stack' = Append(Append(Front(stack), f), CpFrame(p, q))
      BY <2>7
    <3> HIDE DEF f
    <3> QED
      BY <2>5, <3>1, <3>2 DEF Calls
  <2>8. ASSUME NEW at, NEW p,
               stack' = Append(Append(Front(stack), [Top EXCEPT !.at = at]), MkdirFrame(p))
        PROVE  Plainly
    <3> DEFINE f == [Top EXCEPT !.at = at]
    <3>1. f.op \in {"rm", "cp"} /\ IsFrame(f) /\ IsFrame(MkdirFrame(p)) /\ Owned(MkdirFrame(p)) = {}
      BY TreeFrames
    <3>2. stack' = Append(Append(Front(stack), f), MkdirFrame(p))
      BY <2>8
    <3> HIDE DEF f
    <3> QED
      BY <2>5, <3>1, <3>2 DEF Calls
  <2>9. CASE Plainly
    BY <1>1, <1>2, <2>1, <2>9, PlainlyKeeps
  <2> QED
    BY <1>3, <2>2, <2>3, <2>4, <2>6, <2>7, <2>8, <2>9
<1> QED
  BY <1>3, <1>4

LEMMA RmKeeps == FdInv /\ (RmStats \/ RmReads \/ RmEntry \/ RmRemoves) => FdInv'
<1> SUFFICES ASSUME FdInv, RmStats \/ RmReads \/ RmEntry \/ RmRemoves PROVE FdInv'
  OBVIOUS
<1>1. stack # <<>> /\ Top.op \in {"rm", "cp"} /\ IsKernel(os)
  BY DEF RmStats, RmReads, RmEntry, RmRemoves, FdInv
<1>2. \A e : RmGone(e) => Return \/ Throw(e)
  BY DEF RmGone
<1>3. Leaves(Ok(os)) /\ (os' = os => Leaves(Ok(os')))
  BY <1>1, OkLeaves
<1>4. CASE RmStats
  <2>1. os' = os
    BY <1>4 DEF RmStats
  <2>2. \/ RmGone("ENOENT") \/ Throw("EISDIR")
        \/ Change([Top EXCEPT !.at = "readdir"]) /\ Going
        \/ Change([Top EXCEPT !.at = "unlink"]) /\ Going
    BY <1>4, Zenon DEF RmStats
  <2> QED
    BY <1>1, <1>2, <1>3, <2>1, <2>2, TreeKeeps
<1>5. CASE RmReads
  <2>1. os' = os
    BY <1>5 DEF RmReads
  <2>2. \/ \E e : Throw(e)
        \/ Going /\ \E at, rest : Change([Top EXCEPT !.at = at, !.rest = rest])
    BY <1>5, Zenon DEF RmReads
  <2> QED
    BY <1>1, <1>3, <2>1, <2>2, TreeKeeps
<1>6. CASE RmEntry
  <2>1. os' = os /\ Going
    BY <1>6 DEF RmEntry
  <2>2. \E rest, p : stack' = Append(Append(Front(stack), [Top EXCEPT !.rest = rest]), RmFrame(p))
    BY <1>6, Zenon DEF RmEntry
  <2> QED
    BY <1>1, <1>3, <2>1, <2>2, TreeKeeps
<1>7. CASE RmRemoves
  <2> DEFINE r == IF Top.at = "unlink" THEN UnlinkSync(Top.path) ELSE RmdirSync(Top.path)
  <2>1. Leaves(r)
    BY <1>1, PathCallsLeave DEF OnPath
  <2>2. os' = r.k /\ (Return \/ RmGone(r.err))
    BY <1>7, Zenon DEF RmRemoves
  <2>3. Leaves(Ok(os'))
    BY <2>1, <2>2 DEF Leaves, Ok
  <2> HIDE DEF r
  <2> QED
    BY <1>1, <1>2, <2>2, <2>3, TreeKeeps
<1> QED
  BY <1>4, <1>5, <1>6, <1>7

LEMMA CpKeeps == FdInv /\ (CpStats \/ CpReads \/ CpEntry) => FdInv'
<1> SUFFICES ASSUME FdInv, CpStats \/ CpReads \/ CpEntry PROVE FdInv'
  OBVIOUS
<1>1. stack # <<>> /\ Top.op \in {"rm", "cp"} /\ IsKernel(os) /\ os' = os
  BY DEF CpStats, CpReads, CpEntry, FdInv
<1>2. Leaves(Ok(os'))
  BY <1>1, OkLeaves
<1>3. CASE CpStats
  <2> DEFINE self == [Top EXCEPT !.at = "readdir"]
  <2>1. \/ Throw("ENOENT") \/ Throw("EISDIR")
        \/ Change(self) /\ Going
        \/ stack' = Append(Append(Front(stack), self), MkdirFrame(Top.dst)) /\ Going
        \/ Change(CopyFrame(Top.path, Top.dst)) /\ Going
    BY <1>3, Zenon DEF CpStats
  <2>2. Change(self) => \E at : Change([Top EXCEPT !.at = at])
    OBVIOUS
  <2>3. stack' = Append(Append(Front(stack), self), MkdirFrame(Top.dst))
        => \E at, p : stack' = Append(Append(Front(stack), [Top EXCEPT !.at = at]), MkdirFrame(p))
    BY Zenon
  <2> HIDE DEF self
  <2> QED
    BY <1>1, <1>2, <2>1, <2>2, <2>3, TreeKeeps
<1>4. CASE CpReads
  <2>1. \/ \E e : Throw(e)
        \/ Going /\ \E at, rest : Change([Top EXCEPT !.at = at, !.rest = rest])
    BY <1>4, Zenon DEF CpReads
  <2> QED
    BY <1>1, <1>2, <2>1, TreeKeeps
<1>5. CASE CpEntry
  <2>1. \/ Return
        \/ Going /\ \E rest, p, q : stack' = Append(Append(Front(stack), [Top EXCEPT !.rest = rest]), CpFrame(p, q))
    BY <1>5, Zenon DEF CpEntry
  <2> QED
    BY <1>1, <1>2, <2>1, TreeKeeps
<1> QED
  BY <1>3, <1>4, <1>5

----------------------------------------------------------------------------
(* The program *)
\* A call of one system call that opens and closes nothing,
LEMMA SimpleKeeps ==
  ASSUME FdInv, NEW r, Simple(r), mine' = mine, IsKernel(r.k), Open(r.k) = Open(os)
  PROVE  FdInv'
<1>1. stack = <<>> /\ stack' = <<>> /\ os' = r.k
  BY DEF Simple
<1> QED
  BY <1>1, IdleKeeps DEF FdInv

\* as is any that leaves the descriptors alone.
LEMMA LeavesKeeps ==
  ASSUME FdInv, NEW r, Simple(r), mine' = mine, Leaves(r)
  PROVE  FdInv'
<1>1. IsKernel(r.k) /\ Open(r.k) = Open(os)
  BY SameTable DEF FdInv, Leaves
<1> QED
  BY <1>1, SimpleKeeps

LEMMA CallsKeep == FdInv /\ (CallPath \/ CallTwoPaths \/ CallSymlink \/ CallDescriptor) => FdInv'
<1> SUFFICES ASSUME FdInv, CallPath \/ CallTwoPaths \/ CallSymlink \/ CallDescriptor PROVE FdInv'
  OBVIOUS
<1>1. IsKernel(os)
  BY DEF FdInv
<1>2. CASE CallPath
  <2>1. PICK p \in Paths : \E r \in OnPath(p) : Simple(r) /\ UNCHANGED mine
    BY <1>2 DEF CallPath
  <2> QED
    BY <1>1, <2>1, PathCallsLeave, LeavesKeeps
<1>3. CASE CallTwoPaths
  BY <1>1, <1>3, TwoPathCallsLeave, LeavesKeeps DEF CallTwoPaths
<1>4. CASE CallSymlink
  <2>1. PICK to \in LinkTargets, p \in Paths \ LinkTargets : Simple(SymlinkSync(to, p)) /\ UNCHANGED mine
    BY <1>4 DEF CallSymlink
  <2> QED
    BY <1>1, <2>1, TwoPathCallsLeave, LeavesKeeps
<1>5. CASE CallDescriptor
  <2>1. PICK f \in Fds : \E r \in OnDescriptor(f) : Simple(r) /\ UNCHANGED mine
    BY <1>5 DEF CallDescriptor
  <2> QED
    BY <1>1, <2>1, DescriptorCallsKeep, SimpleKeeps
<1> QED
  BY <1>2, <1>3, <1>4, <1>5

LEMMA OpenSyncKeeps == FdInv /\ OpenSync => FdInv'
<1> SUFFICES ASSUME FdInv, OpenSync PROVE FdInv'
  OBVIOUS
<1>1. PICK p \in Paths, s \in Flags :
        LET r == KOpen(os, p, ParseOpenFlags[s]) IN
        /\ Simple(r)
        /\ mine' = IF r.err = "" THEN mine \cup {NewFd(r)} ELSE mine
  BY DEF OpenSync
<1> DEFINE flags == ParseOpenFlags[s]
           r == KOpen(os, p, flags)
<1>2. flags # {"closed"}
  BY FlagsAreOpen, FileSystemAssumption
<1>3. stack = <<>> /\ stack' = <<>> /\ os' = r.k /\ mine \subseteq Fds /\ Open(os) = mine /\ IsKernel(os)
  BY <1>1 DEF Simple, FdInv
<1>4. /\ r.err # "" => r.k = os
      /\ r.err = "" => /\ NewFd(r) \in Fds \ Open(os)
                       /\ IsKernel(r.k) /\ Open(r.k) = Open(os) \cup {NewFd(r)}
  BY <1>2, <1>3, KOpenIs
<1>5. mine' = IF r.err = "" THEN mine \cup {NewFd(r)} ELSE mine
  BY <1>1
<1> HIDE DEF r
<1> QED
  BY <1>3, <1>4, <1>5, IdleKeeps

LEMMA CloseSyncKeeps == FdInv /\ CloseSync => FdInv'
<1> SUFFICES ASSUME FdInv, CloseSync PROVE FdInv'
  OBVIOUS
<1>1. PICK f \in Fds : Simple(OnFd(f, Ok(KClose(os, f)))) /\ mine' = mine \ {f}
  BY DEF CloseSync
<1>2. stack = <<>> /\ stack' = <<>> /\ mine \subseteq Fds /\ Open(os) = mine /\ IsKernel(os)
  BY <1>1 DEF Simple, FdInv
<1>3. os' = IF IsOpen(f) THEN KClose(os, f) ELSE os
  BY <1>1 DEF Simple, OnFd, Ok, Fails
<1>4. IsKernel(KClose(os, f)) /\ Open(KClose(os, f)) = Open(os) \ {f}
  BY <1>2, ClosedIs
<1>5. ~IsOpen(f) => f \notin Open(os)
  BY DEF IsOpen, Open
<1>6. IsKernel(os') /\ Open(os') = mine'
  BY <1>1, <1>2, <1>3, <1>4, <1>5
<1> QED
  BY <1>1, <1>2, <1>6, IdleKeeps

\* The frames calls begin with have no descriptor yet.
LEMMA FirstFrames ==
  /\ \A p : IsFrame(ReadFrame(p)) /\ Owned(ReadFrame(p)) = {}
  /\ \A p, b : \A s \in {"w", "a"} : IsFrame(WriteFrame(p, b, s)) /\ Owned(WriteFrame(p, b, s)) = {}
  /\ \A p : IsFrame(MkdirFrame(p)) /\ Owned(MkdirFrame(p)) = {}
  /\ \A p : IsFrame(RmFrame(p)) /\ Owned(RmFrame(p)) = {}
  /\ \A p, q : IsFrame(CpFrame(p, q)) /\ Owned(CpFrame(p, q)) = {}
  /\ \A p, q : IsFrame(CopyFrame(p, q)) /\ Owned(CopyFrame(p, q)) = {}
  /\ \A post : IsFrame(HttpFrame(post)) /\ Owned(HttpFrame(post)) = {}
<1>1. \A p : IsFrame(ReadFrame(p)) /\ Owned(ReadFrame(p)) = {}
  BY NewFrames DEF ReadFrame
<1>2. \A p, b : \A s \in {"w", "a"} : IsFrame(WriteFrame(p, b, s)) /\ Owned(WriteFrame(p, b, s)) = {}
  BY NewFrames DEF WriteFrame
<1>3. \A p : IsFrame(MkdirFrame(p)) /\ Owned(MkdirFrame(p)) = {}
  BY IdleFrames DEF MkdirFrame
<1>4. \A p : IsFrame(RmFrame(p)) /\ Owned(RmFrame(p)) = {}
  BY IdleFrames DEF RmFrame
<1>5. \A p, q : IsFrame(CpFrame(p, q)) /\ Owned(CpFrame(p, q)) = {}
  BY IdleFrames DEF CpFrame
<1>6. \A p, q : IsFrame(CopyFrame(p, q)) /\ Owned(CopyFrame(p, q)) = {}
  BY NewFrames DEF CopyFrame
<1>7. \A post : IsFrame(HttpFrame(post)) /\ Owned(HttpFrame(post)) = {}
  BY IdleFrames DEF HttpFrame
<1> QED
  BY <1>1, <1>2, <1>3, <1>4, <1>5, <1>6, <1>7

\* A call of several system calls begins, of the program or of a stream.
LEMMA BeginsKeep ==
  ASSUME FdInv, NEW call, NEW f, Begin(call, f), IsFrame(f), Owned(f) = {}, UNCHANGED <<os, mine>>
  PROVE  FdInv'
BY BeginKeeps DEF Begin

LEMMA CallLongKeeps == FdInv /\ CallLong => FdInv'
<1> SUFFICES ASSUME FdInv, CallLong PROVE FdInv'
  OBVIOUS
<1>1. UNCHANGED <<os, mine>>
  BY DEF CallLong
<1> DEFINE Begins(f) == \E call : Begin(call, f)
<1>2. ASSUME NEW f, Begins(f), IsFrame(f), Owned(f) = {} PROVE FdInv'
  BY <1>1, <1>2, BeginsKeep
<1>3. PICK o \in Options, p \in Paths, c \in Copies, flag \in {"w", "a"} : LongCall(o, p, c, flag)
  BY DEF CallLong
<1>4. \/ Begins(ReadFrame(p)) \/ Begins(WriteFrame(p, Bytes, flag)) \/ Begins(MkdirFrame(p))
      \/ Begins(RmFrame(p)) \/ Begins(CopyFrame(c[1], c[2])) \/ Begins(CpFrame(c[1], c[2]))
  BY <1>3, Zenon DEF LongCall
<1> HIDE DEF Begins
<1> QED
  BY <1>2, <1>4, FirstFrames

\* The callbacks waiting in the timer queue.
LEMMA ImmediateKeeps == FdInv /\ StreamInv /\ Immediate => FdInv'
<1> SUFFICES ASSUME FdInv, StreamInv, Immediate PROVE FdInv'
  OBVIOUS
<1>1. UNCHANGED <<os, mine>> /\ stack = <<>>
  BY DEF Immediate
<1>2. \/ UNCHANGED stack
      \/ \E call : Begin(call, ReadFrame(rs.path))
      \/ \E call : Begin(call, WriteFrame(ws.path, ws.parts, ws.flag))
  BY Zenon DEF Immediate
<1>3. CASE UNCHANGED stack
  BY <1>1, <1>3, IdleKeeps DEF FdInv
<1>4. CASE \E call : Begin(call, ReadFrame(rs.path))
  BY <1>1, <1>4, FirstFrames, BeginsKeep
<1>5. CASE \E call : Begin(call, WriteFrame(ws.path, ws.parts, ws.flag))
  BY <1>1, <1>5, FirstFrames, BeginsKeep DEF StreamInv
<1> QED
  BY <1>2, <1>3, <1>4, <1>5

----------------------------------------------------------------------------
(* The streams and the rest of the world *)
\* The calls and the descriptors stay as they are.
LEMMA StandingKeeps ==
  ASSUME FdInv, UNCHANGED <<stack, mine>>, "fds" \in DOMAIN os', os'.fds = os.fds
  PROVE  FdInv'
<1>1. IsKernel(os') /\ Open(os') = Open(os)
  BY SameTable DEF FdInv
<1>2. Top' = Top
  BY DEF Top
<1> QED
  BY <1>1, <1>2 DEF FdInv

LEMMA StreamsKeep ==
  FdInv /\ (CreateReadStream \/ DestroyReadStream \/ CreateWriteStream \/ WriteAndEnd) => FdInv'
<1> SUFFICES ASSUME FdInv, CreateReadStream \/ DestroyReadStream \/ CreateWriteStream \/ WriteAndEnd
             PROVE  FdInv'
  OBVIOUS
<1>1. UNCHANGED <<os, stack, mine>>
  BY DEF CreateReadStream, DestroyReadStream, CreateWriteStream, WriteAndEnd
<1> QED
  BY <1>1, StandingKeeps DEF FdInv, IsKernel

LEMMA WorldKeeps == FdInv /\ (Meddle \/ DiskFills) => FdInv'
<1> SUFFICES ASSUME FdInv, Meddle \/ DiskFills PROVE FdInv'
  OBVIOUS
<1>1. IsKernel(os) /\ UNCHANGED <<stack, mine>>
  BY DEF FdInv, Meddle, DiskFills
<1>2. CASE Meddle
  <2> DEFINE flags == {"write", "creat", "excl"}
  <2>1. PICK p \in Paths : \E r \in {UnlinkSync(p), Mkdir(p), TruncateSync(p), KOpen(os, p, flags)} :
                             os' = [r.k EXCEPT !.fds = os.fds]
    BY <1>2 DEF Meddle
  <2>2. PICK r \in {UnlinkSync(p), Mkdir(p), TruncateSync(p), KOpen(os, p, flags)} :
               os' = [r.k EXCEPT !.fds = os.fds]
    BY <2>1
  <2>3. flags # {"closed"}
    OBVIOUS
  <2>4. "fds" \in DOMAIN KOpen(os, p, flags).k
    BY <1>1, <2>3, KOpenIs
  <2>5. Leaves(UnlinkSync(p)) /\ Leaves(Mkdir(p)) /\ Leaves(TruncateSync(p))
    BY <1>1, PathCallsLeave DEF OnPath
  <2>6. "fds" \in DOMAIN r.k
    BY <2>2, <2>4, <2>5 DEF Leaves
  <2>7. "fds" \in DOMAIN os' /\ os'.fds = os.fds
    BY <2>2, <2>6
  <2> QED
    BY <1>1, <2>7, StandingKeeps
<1>3. CASE DiskFills
  <2>1. "fds" \in DOMAIN os' /\ os'.fds = os.fds
    BY <1>1, <1>3 DEF DiskFills, IsKernel
  <2> QED
    BY <1>1, <2>1, StandingKeeps
<1> QED
  BY <1>2, <1>3

\* The write stream keeps the mode it was made with.
LEMMA StreamStep == StreamInv /\ [SyncNext]_syncVars => StreamInv'
<1> SUFFICES ASSUME StreamInv, [SyncNext]_syncVars PROVE StreamInv'
  OBVIOUS
<1> DEFINE Same == "flag" \in DOMAIN ws' /\ ws'.flag = ws.flag
<1>1. Same => StreamInv'
  BY DEF StreamInv
<1>2. UNCHANGED ws => Same
  BY DEF StreamInv
<1>3. \A s, q : EmitChunk(s, q) => Same
  BY DEF EmitChunk, StreamInv
<1>4. \A e, b : Finish(e, b) => Same
  <2> SUFFICES ASSUME NEW e, NEW b, Finish(e, b) PROVE Same
    OBVIOUS
  <2>1. \/ UNCHANGED ws \/ \E s, q : EmitChunk(s, q)
        \/ ws' = [ws EXCEPT !.writable = FALSE, !.at = "finished"]
        \/ ws' = [ws EXCEPT !.at = "failed"]
    BY Zenon DEF Finish
  <2> QED
    BY <1>2, <1>3, <2>1 DEF StreamInv
<1> HIDE DEF Same
<1>5. Return => Same
  BY <1>2, <1>4 DEF Return
<1>6. \A e : Throw(e) => Same
  BY <1>4, <1>5 DEF Throw
<1>7. Going => Same
  BY <1>2 DEF Going
<1>8. CASE Native
  <2>1. ReadOpens \/ WriteOpens \/ CopyOpens \/ CopyCreates => (\E e : Throw(e)) \/ Going
    BY Zenon DEF ReadOpens, WriteOpens, CopyOpens, CopyCreates
  <2>2. ReadReads => \E e, b : Finish(e, b)
    BY Zenon DEF ReadReads
  <2>3. WriteWrites \/ WriteDone \/ CopyReads \/ CopyWrites => (\E e : Throw(e)) \/ Return \/ Going
    BY Zenon DEF WriteWrites, WriteDone, CopyReads, CopyWrites
  <2>4. MkdirStep \/ RmStats \/ RmReads \/ RmEntry \/ RmRemoves => (\E e : Throw(e)) \/ Return \/ Going
    BY Zenon DEF MkdirStep, RmStats, RmReads, RmEntry, RmRemoves, RmGone
  <2>5. CpStats \/ CpReads \/ CpEntry => (\E e : Throw(e)) \/ Return \/ Going
    BY Zenon DEF CpStats, CpReads, CpEntry
  <2> QED
    BY <1>1, <1>4, <1>5, <1>6, <1>7, <1>8, <2>1, <2>2, <2>3, <2>4, <2>5 DEF Native
<1>9. CASE Immediate
  <2>1. UNCHANGED ws \/ \E s, q : EmitChunk(s, q)
    BY <1>9, Zenon DEF Immediate
  <2> QED
    BY <1>1, <1>2, <1>3, <2>1
<1>10. CASE Program
  <2>1. (\E r : Simple(r)) => UNCHANGED ws
    BY DEF Simple
  <2>2. CallPath \/ CallTwoPaths \/ CallSymlink \/ CallDescriptor \/ OpenSync \/ CloseSync => \E r : Simple(r)
    BY Zenon DEF CallPath, CallTwoPaths, CallSymlink, CallDescriptor, OpenSync, CloseSync
  <2>3. CallLong \/ CreateReadStream \/ DestroyReadStream => UNCHANGED ws
    BY DEF CallLong, CreateReadStream, DestroyReadStream
  <2>4. CreateWriteStream => StreamInv'
    BY DEF CreateWriteStream, StreamInv
  <2>5. WriteAndEnd => Same
    BY DEF WriteAndEnd, Same, StreamInv
  <2> QED
    BY <1>1, <1>2, <1>10, <2>1, <2>2, <2>3, <2>4, <2>5 DEF Program
<1>11. CASE Meddle \/ DiskFills
  BY <1>1, <1>2, <1>11 DEF Meddle, DiskFills
<1>12. CASE CallHttp \/ Curl \/ UNCHANGED syncVars
  BY <1>1, <1>2, <1>12 DEF CallHttp, Curl, syncVars, vars
<1>13. CASE DoCurl
  <2>1. FindCurl \/ Forks \/ HttpReturns => (\E e : Throw(e)) \/ Return \/ Going
    BY Zenon DEF FindCurl, Forks, HttpReturns
  <2>2. WritesRequest => (\E e : Throw(e)) \/ Going
    BY Zenon DEF WritesRequest
  <2>3. Reaps \/ ReadsAnswer => (\E e : Throw(e)) \/ Going
    BY Zenon DEF Reaps, ReadsAnswer
  <2>4. WaitIsInterrupted => UNCHANGED ws
    BY DEF WaitIsInterrupted
  <2> QED
    BY <1>1, <1>2, <1>5, <1>6, <1>7, <1>13, <2>1, <2>2, <2>3, <2>4 DEF DoCurl
<1> QED
  BY <1>8, <1>9, <1>10, <1>11, <1>12, <1>13 DEF SyncNext, Files, Next

----------------------------------------------------------------------------
(* http.getSync and http.postSync *)
\* The frame of a request, which has a descriptor while it waits for curl.
LEMMA HttpFrames ==
  ASSUME FdInv, stack # <<>>, Top.op = "http"
  PROVE  /\ {"op", "at", "fd"} \subseteq DOMAIN Top /\ IsKernel(os) /\ "fds" \in DOMAIN os
         /\ Top.at # "read" => Owned(Top) = {} /\ Open(os) = mine
         /\ Top.at = "read" => /\ Top.fd \in Fds /\ Owned(Top) = {Top.fd}
                               /\ Open(os) = mine \cup {Top.fd} /\ Top.fd \notin mine
<1>1. {"op", "at", "fd"} \subseteq DOMAIN Top /\ (Top.at = "read" => Top.fd \in Fds)
  BY TopIs DEF IsFrame
<1>2. Top.at # "read" => Owned(Top) = {}
  BY DEF Owned
<1>3. Top.at = "read" => Owned(Top) = {Top.fd}
  BY <1>1 DEF Owned
<1> QED
  BY <1>1, <1>2, <1>3 DEF FdInv, IsKernel

\* A step of a request that leaves the descriptors alone.
LEMMA RequestKeeps ==
  ASSUME FdInv, stack # <<>>, Top.op = "http", Top.at # "read", os' = os,
         \/ Return
         \/ \E e : Throw(e)
         \/ Going /\ \E f : /\ Change(f) /\ f.op = "http" /\ f.at # "read"
                            /\ {"op", "at", "fd"} \subseteq DOMAIN f
  PROVE  FdInv'
<1>1. "fds" \in DOMAIN os' /\ os'.fds = os.fds /\ Owned(Top) = {}
  BY HttpFrames
<1>2. Plainly /\ mine' = mine
  <2>1. ASSUME NEW f, Change(f), f.op = "http", f.at # "read", {"op", "at", "fd"} \subseteq DOMAIN f
        PROVE  Plainly
    BY <2>1, IdleFrames DEF Plainly
  <2>2. Return \/ (\E e : Throw(e)) => Plainly /\ mine' = mine
    BY EndsLeave DEF Plainly
  <2>3. Going => mine' = mine
    BY DEF Going
  <2> QED
    BY <2>1, <2>2, <2>3
<1> QED
  BY <1>1, <1>2, PlainlyKeeps

LEMMA ForksKeeps == FdInv /\ Forks => FdInv'
<1> SUFFICES ASSUME FdInv, Forks PROVE FdInv'
  OBVIOUS
<1>1. stack # <<>> /\ Top.op = "http" /\ Top.at # "read"
  BY DEF Forks, InHttp
<1>2. CASE \E e : Throw(e) /\ os' = os
  BY <1>1, <1>2, RequestKeeps
<1>3. CASE /\ ~(Cardinality(FreeFds(os)) < 2)
           /\ os' = [os EXCEPT !.fds[LowestFd(os)] = Pipe("read")]
           /\ Change([Top EXCEPT !.at = "read", !.fd = LowestFd(os)]) /\ Going
  <2> DEFINE d == LowestFd(os)
             f == [Top EXCEPT !.at = "read", !.fd = d]
  <2>1. FreeFds(os) # {}
    BY <1>3, FS_EmptySet
  <2>2. d \in Fds \ Open(os)
    BY <2>1, LowestIsFree DEF FreeFds, Open
  <2>3. {"op", "at", "fd"} \subseteq DOMAIN Top /\ IsKernel(os) /\ "fds" \in DOMAIN os /\ Open(os) = mine
    BY <1>1, HttpFrames
  <2>4. "flags" \in DOMAIN Pipe("read") /\ Pipe("read").flags # {"closed"}
    BY DEF Pipe
  <2>5. "fds" \in DOMAIN os' /\ os'.fds = [os.fds EXCEPT ![d] = Pipe("read")]
    BY <1>3, <2>3
  <2> HIDE DEF d
  <2>6. IsKernel(os') /\ Open(os') = Open(os) \cup {d}
    BY <2>2, <2>3, <2>4, <2>5, OpenedIs
  <2>7. {"op", "at", "fd"} \subseteq DOMAIN f /\ f.op = "http" /\ f.at = "read" /\ f.fd = d
    BY <1>1, <2>3
  <2>8. Change(f) /\ mine' = mine
    BY <1>3 DEF Going, d
  <2> HIDE DEF f
  <2>9. IsFrame(f) /\ Owned(f) = {d}
    BY <2>2, <2>7 DEF IsFrame, Owned
  <2> QED
    BY <1>1, <2>2, <2>3, <2>6, <2>8, <2>9, ChangeKeeps
<1> QED
  BY <1>2, <1>3, Zenon DEF Forks

\* The answer of curl is there: its pipe is closed.
LEMMA ReapKeeps == FdInv /\ (Reaps \/ WaitIsInterrupted) => FdInv'
<1> SUFFICES ASSUME FdInv, Reaps \/ WaitIsInterrupted PROVE FdInv'
  OBVIOUS
<1> DEFINE f == [Top EXCEPT !.at = "answer"]
<1>1. stack # <<>> /\ Top.op = "http" /\ Top.at = "read" /\ os' = KClose(os, Top.fd)
  BY DEF Reaps, WaitIsInterrupted, InHttp
<1>2. /\ {"op", "at", "fd"} \subseteq DOMAIN Top /\ IsKernel(os) /\ Top.fd \in Fds
      /\ Open(os) = mine \cup {Top.fd} /\ Top.fd \notin mine
  BY <1>1, HttpFrames
<1>3. IsKernel(os') /\ Open(os') = Open(os) \ {Top.fd}
  BY <1>1, <1>2, ClosedIs
<1>4. Open(os') = mine
  BY <1>2, <1>3
<1>5. CASE \E e : Throw(e)
  BY <1>1, <1>3, <1>4, <1>5, EndsLeave, LeaveKeeps
<1>6. CASE Change(f) /\ mine' = mine
  <2>1. {"op", "at", "fd"} \subseteq DOMAIN f /\ f.op = "http" /\ f.at = "answer"
    BY <1>1, <1>2
  <2>2. Change(f) /\ mine' = mine
    BY <1>6
  <2> HIDE DEF f
  <2>3. IsFrame(f) /\ Owned(f) = {}
    BY <2>1, IdleFrames
  <2> QED
    BY <1>1, <1>3, <1>4, <2>2, <2>3, ChangeKeeps
<1>7. (\E e : Throw(e)) \/ (Change(f) /\ mine' = mine)
  <2>1. Reaps => (\E e : Throw(e)) \/ (Change(f) /\ Going)
    BY Zenon DEF Reaps
  <2>2. WaitIsInterrupted => Change(f) /\ mine' = mine
    BY Zenon DEF WaitIsInterrupted
  <2>3. Going => mine' = mine
    BY DEF Going
  <2> HIDE DEF f
  <2> QED
    BY <2>1, <2>2, <2>3
<1> QED
  BY <1>5, <1>6, <1>7

LEMMA HttpKeeps == FdInv /\ (FindCurl \/ WritesRequest \/ ReadsAnswer \/ HttpReturns) => FdInv'
<1> SUFFICES ASSUME FdInv, FindCurl \/ WritesRequest \/ ReadsAnswer \/ HttpReturns PROVE FdInv'
  OBVIOUS
<1>1. stack # <<>> /\ Top.op = "http" /\ Top.at # "read" /\ os' = os
  BY DEF FindCurl, WritesRequest, ReadsAnswer, HttpReturns, InHttp
<1>2. {"op", "at", "fd"} \subseteq DOMAIN Top
  BY <1>1, HttpFrames
<1> DEFINE Is(f) == f.op = "http" /\ f.at # "read" /\ {"op", "at", "fd"} \subseteq DOMAIN f
<1>3. \A at : at # "read" => Is([Top EXCEPT !.at = at])
  BY <1>1, <1>2
<1>4. \A answer : Is([Top EXCEPT !.at = "mop up", !.answer = answer])
  BY <1>1, <1>2
<1>5. CASE FindCurl
  <2>1. (\E e : Throw(e)) \/ (Going /\ Change([Top EXCEPT !.at = IF Top.post THEN "request" ELSE "fork"]))
    BY <1>5, Zenon DEF FindCurl
  <2> DEFINE at == IF Top.post THEN "request" ELSE "fork"
             f == [Top EXCEPT !.at = at]
  <2>2. at # "read"
    OBVIOUS
  <2> HIDE DEF at
  <2>3. Is(f)
    BY <1>3, <2>2
  <2>4. (\E e : Throw(e)) \/ (Going /\ Change(f))
    BY <2>1 DEF at
  <2> HIDE DEF f
  <2> QED
    BY <1>1, <2>3, <2>4, RequestKeeps
<1>6. CASE WritesRequest
  <2> DEFINE f == [Top EXCEPT !.at = "fork"]
  <2>1. (\E e : Throw(e)) \/ (Going /\ Change(f))
    BY <1>6, Zenon DEF WritesRequest
  <2>2. Is(f)
    BY <1>3
  <2> HIDE DEF f
  <2> QED
    BY <1>1, <2>1, <2>2, RequestKeeps
<1>7. CASE ReadsAnswer
  <2>1. Going /\ \E answer : Change([Top EXCEPT !.at = "mop up", !.answer = answer])
    BY <1>7, Zenon DEF ReadsAnswer
  <2>2. PICK answer : Change([Top EXCEPT !.at = "mop up", !.answer = answer])
    BY <2>1
  <2> DEFINE f == [Top EXCEPT !.at = "mop up", !.answer = answer]
  <2>3. Is(f) /\ Change(f) /\ Going
    BY <1>4, <2>1, <2>2
  <2> HIDE DEF f
  <2> QED
    BY <1>1, <2>3, RequestKeeps
<1>8. CASE HttpReturns
  BY <1>1, <1>8, RequestKeeps DEF HttpReturns
<1> QED
  BY <1>5, <1>6, <1>7, <1>8

LEMMA CallHttpKeeps == FdInv /\ CallHttp => FdInv'
<1> SUFFICES ASSUME FdInv, CallHttp PROVE FdInv'
  OBVIOUS
<1>1. UNCHANGED <<os, mine>>
  BY DEF CallHttp
<1>2. \E call, post : Begin(call, HttpFrame(post))
  BY Zenon DEF CallHttp, HttpGetSync, HttpPostSync
<1> QED
  BY <1>1, <1>2, FirstFrames, BeginsKeep

----------------------------------------------------------------------------
(* All together *)
LEMMA FdStep == FdInv /\ StreamInv /\ [SyncNext]_syncVars => FdInv'
<1> SUFFICES ASSUME FdInv, StreamInv, [SyncNext]_syncVars PROVE FdInv'
  OBVIOUS
<1>1. CASE Native
  BY <1>1, ReadOpensKeeps, ReadReadsKeeps, WriteOpensKeeps, WriteWritesKeeps, WriteDoneKeeps,
     CopyOpensKeeps, CopyCreatesKeeps, CopyReadsKeeps, CopyWritesKeeps, MkdirKeeps, RmKeeps, CpKeeps
     DEF Native
<1>2. CASE Program
  BY <1>2, CallsKeep, OpenSyncKeeps, CloseSyncKeeps, CallLongKeeps, StreamsKeep DEF Program
<1>3. CASE Immediate \/ Meddle \/ DiskFills
  BY <1>3, ImmediateKeeps, WorldKeeps
<1>4. CASE DoCurl
  BY <1>4, ForksKeeps, ReapKeeps, HttpKeeps DEF DoCurl
<1>5. CASE CallHttp
  BY <1>5, CallHttpKeeps
<1>6. CASE Curl \/ UNCHANGED syncVars
  <2>1. UNCHANGED <<os, stack, mine>>
    BY <1>6 DEF Curl, syncVars, vars
  <2> QED
    BY <2>1, StandingKeeps DEF FdInv, IsKernel
<1> QED
  BY <1>1, <1>2, <1>3, <1>4, <1>5, <1>6 DEF SyncNext, Files, Next

LEMMA FdStart == SyncInit => FdInv /\ StreamInv
<1> SUFFICES ASSUME SyncInit PROVE FdInv /\ StreamInv
  OBVIOUS
<1>1. stack = <<>> /\ mine = {} /\ ws = NoStream
  BY DEF SyncInit, Init
<1>2. "fds" \in DOMAIN os /\ os.fds = [f \in Fds |-> Closed]
  BY DEF SyncInit, Init
<1>3. IsKernel(os) /\ Open(os) = {}
  BY <1>2 DEF IsKernel, Open, Closed
<1>4. stack \in Seq(Range(stack)) /\ Len(stack) = 0 /\ DOMAIN stack = {}
  BY <1>1
<1> QED
  BY <1>1, <1>3, <1>4 DEF FdInv, StreamInv, NoStream

\* Whatever calls the program makes of the fs module and of getSync and postSync,
\* whatever fails in the middle of them and whatever another process does to the
\* files, between calls the process has open exactly the descriptors the program
\* opened itself and has not closed.
THEOREM DescriptorsComeBack == SyncSpec => []DescriptorsReturned
<1>1. FdInv => DescriptorsReturned
  BY DEF FdInv, DescriptorsReturned, Open, IsOpen
<1> QED
  BY <1>1, FdStart, FdStep, StreamStep, PTL DEF SyncSpec

----------------------------------------------------------------------------
(* What system calls do to the names, *)
LEMMA SameNames ==
  ASSUME NEW k, NEW j, \A q : Follow(j, q) = Follow(k, q)
  PROVE  \A p : Real(j, p) = Real(k, p)
<1> SUFFICES ASSUME NEW p PROVE Real(j, p) = Real(k, p)
  OBVIOUS
<1> DEFINE Body(i, k0, f) == IF i = 0 THEN <<>> ELSE Follow(k0, Append(f[i - 1], p[i]))
           Is(f, k0) == f = [i \in 0..Len(p) |-> Body(i, k0, f)]
<1>1. \A f : Is(f, j) <=> Is(f, k)
  <2>1. \A f, i : Body(i, j, f) = Body(i, k, f)
    OBVIOUS
  <2> HIDE DEF Body
  <2> QED
    BY <2>1
<1>2. (CHOOSE f : Is(f, j)) = (CHOOSE f : Is(f, k))
  <2> HIDE DEF Is
  <2> QED
    BY <1>1, Zenon
<1>3. Real(j, p) = (CHOOSE f : Is(f, j))[Len(p)] /\ Real(k, p) = (CHOOSE f : Is(f, k))[Len(p)]
  BY Zenon DEF Real
<1> QED
  BY <1>2, <1>3

LEMMA SameTree ==
  ASSUME NEW k, NEW j, j.tree = k.tree
  PROVE  \A p : Real(j, p) = Real(k, p) /\ Entry(j, p) = Entry(k, p) /\ At(j, p) = At(k, p)
<1>1. \A q : Follow(j, q) = Follow(k, q)
  BY DEF Follow
<1>2. \A p : Real(j, p) = Real(k, p)
  BY <1>1, SameNames, Zenon
<1> QED
  BY <1>2 DEF At, Entry

\* A new name that is not a link changes what no other name leads to.
Adds(k, j, q, e) ==
  /\ q \notin DOMAIN k.tree /\ e.kind # "link" /\ DOMAIN j.tree = DOMAIN k.tree \cup {q}
  /\ \A x \in DOMAIN j.tree : j.tree[x] = IF x = q THEN e ELSE k.tree[x]
LEMMA NewName ==
  ASSUME NEW k, NEW j, NEW q, NEW e, Adds(k, j, q, e)
  PROVE  \A p : /\ Real(j, p) = Real(k, p)
                /\ Real(k, p) = q => At(j, p) = e
                /\ Entry(j, p) = IF p = q THEN e ELSE Entry(k, p)
<1>1. \A x : Follow(j, x) = Follow(k, x)
  BY DEF Follow, Adds
<1>2. \A p : Real(j, p) = Real(k, p)
  BY <1>1, SameNames, Zenon
<1> QED
  BY <1>2 DEF At, Entry, Adds
----------------------------------------------------------------------------
(* sequences, *)
LEMMA CutAndJoined ==
  ASSUME NEW s \in Seq(Nat), NEW n \in 1..Len(s)
  PROVE  /\ SubSeq(s, 1, n) \in Seq(Nat) /\ SubSeq(s, n + 1, Len(s)) \in Seq(Nat)
         /\ SubSeq(s, 1, n) \o SubSeq(s, n + 1, Len(s)) = s
<1>1. 1 \in 1..(Len(s) + 1) /\ n \in 0..Len(s) /\ Len(s) \in n..Len(s) /\ 1 - 1 = 0
  OBVIOUS
<1>2. SubSeq(s, 1, n) \o SubSeq(s, n + 1, Len(s)) = SubSeq(s, 1, Len(s))
  BY <1>1, ConcatAdjacentSubSeq, Zenon
<1>3. SubSeq(s, 1, Len(s)) = s
  BY SubSeqFull
<1>4. SubSeq(s, 1, n) \in Seq(Nat) /\ SubSeq(s, n + 1, Len(s)) \in Seq(Nat)
  OBVIOUS
<1> QED
  BY <1>2, <1>3, <1>4

LEMMA Joins ==
  ASSUME NEW s \in Seq(Nat), NEW t \in Seq(Nat), NEW u \in Seq(Nat)
  PROVE  (s \o t) \o u = s \o (t \o u)
BY ConcatAssociative

\* What is read next follows on what was read.
LEMMA ReadFollows ==
  ASSUME NEW s \in Seq(Nat), NEW m \in Nat, NEW n \in Nat, m <= n, n <= Len(s)
  PROVE  /\ SubSeq(s, 1, m) \o SubSeq(s, m + 1, n) = SubSeq(s, 1, n)
         /\ Len(SubSeq(s, m + 1, n)) = n - m /\ SubSeq(s, m + 1, n) \in Seq(Nat)
<1>1. 1 \in 1..(Len(s) + 1) /\ m \in 0..Len(s) /\ n \in m..Len(s) /\ 1 - 1 = 0
  OBVIOUS
<1>2. SubSeq(s, 1, m) \o SubSeq(s, m + 1, n) = SubSeq(s, 1, n)
  BY <1>1, ConcatAdjacentSubSeq, Zenon
<1> QED
  BY <1>2

----------------------------------------------------------------------------
(* and the disk. *)
\* What the table says of a descriptor.
FdShape == [ino : Inodes \cup {0}, pos : Nat, flags : SUBSET Modes]
\* A disk with other names, bytes or descriptors.
LEMMA DiskIs ==
  ASSUME NEW k, IsDisk(k), NEW j, {"tree", "data", "fds", "full"} \subseteq DOMAIN j,
         \A q \in DOMAIN j.tree : IsEntry(j.tree[q]),
         j.data \in [Inodes \cup {0} -> Seq(Nat)],
         j.fds = k.fds \/ \E f \in Fds, e \in FdShape :
           ("write" \in e.flags => e.ino \in Inodes) /\ j.fds = [k.fds EXCEPT ![f] = e]
  PROVE  IsDisk(j)
<1>1. j.fds \in [Fds -> FdShape] /\ \A f \in Fds : "write" \in j.fds[f].flags => j.fds[f].ino \in Inodes
  BY DEF IsDisk, FdShape
<1> QED
  BY <1>1 DEF IsDisk, FdShape

LEMMA CloseKeepsDisk ==
  ASSUME NEW k, IsDisk(k), NEW f \in Fds
  PROVE  /\ IsDisk(KClose(k, f)) /\ KClose(k, f).tree = k.tree /\ KClose(k, f).data = k.data
         /\ KClose(k, f).full = k.full
<1> DEFINE j == KClose(k, f)
<1>1. /\ {"tree", "data", "fds", "full"} \subseteq DOMAIN j
      /\ j.tree = k.tree /\ j.data = k.data /\ j.full = k.full /\ j.fds = [k.fds EXCEPT ![f] = Closed]
  BY DEF KClose, IsDisk
<1>2. Closed \in FdShape /\ "write" \notin Closed.flags
  BY DEF Closed, FdShape, Modes
<1> HIDE DEF j
<1>3. IsDisk(j)
  <2>1. \E g \in Fds, e \in FdShape :
          ("write" \in e.flags => e.ino \in Inodes) /\ j.fds = [k.fds EXCEPT ![g] = e]
    BY <1>1, <1>2, Zenon
  <2>2. (\A q \in DOMAIN j.tree : IsEntry(j.tree[q])) /\ j.data \in [Inodes \cup {0} -> Seq(Nat)]
    BY <1>1 DEF IsDisk
  <2> QED
    BY <1>1, <2>1, <2>2, DiskIs, Zenon
<1> QED
  BY <1>1, <1>3 DEF j

\* lseek(), or the end of a read().
Moved(k, f, n) == [k EXCEPT !.fds[f].pos = n]
LEMMA MoveKeepsDisk ==
  ASSUME NEW k, IsDisk(k), NEW f \in Fds, NEW n \in Nat
  PROVE  LET j == Moved(k, f, n) IN
         /\ IsDisk(j) /\ j.tree = k.tree /\ j.data = k.data /\ j.full = k.full
         /\ \A g \in Fds : /\ j.fds[g].ino = k.fds[g].ino /\ j.fds[g].flags = k.fds[g].flags
                           /\ g # f => j.fds[g] = k.fds[g]
         /\ j.fds[f].pos = n
<1> DEFINE j == Moved(k, f, n)
           e == [k.fds[f] EXCEPT !.pos = n]
<1>1. /\ {"tree", "data", "fds", "full"} \subseteq DOMAIN j
      /\ j.tree = k.tree /\ j.data = k.data /\ j.full = k.full /\ j.fds = [k.fds EXCEPT ![f] = e]
  BY DEF IsDisk, Moved
<1>2. k.fds \in [Fds -> FdShape] /\ k.fds[f] \in FdShape /\ ("write" \in k.fds[f].flags => k.fds[f].ino \in Inodes)
  BY DEF IsDisk, FdShape
<1>3. e \in FdShape /\ e.flags = k.fds[f].flags /\ e.ino = k.fds[f].ino /\ e.pos = n
  BY <1>2 DEF FdShape
<1> HIDE DEF e, j
<1>4. IsDisk(j)
  <2>1. \E g \in Fds, d \in FdShape :
          ("write" \in d.flags => d.ino \in Inodes) /\ j.fds = [k.fds EXCEPT ![g] = d]
    BY <1>1, <1>2, <1>3, Zenon
  <2>2. (\A q \in DOMAIN j.tree : IsEntry(j.tree[q])) /\ j.data \in [Inodes \cup {0} -> Seq(Nat)]
    BY <1>1 DEF IsDisk
  <2> QED
    BY <1>1, <2>1, <2>2, DiskIs, Zenon
<1>5. \A g \in Fds : j.fds[g] = IF g = f THEN e ELSE k.fds[g]
  BY <1>1, <1>2
<1> QED
  BY <1>1, <1>3, <1>4, <1>5 DEF j

\* write(): the bytes lie over the old ones,
Over(old, bytes, pos, end) ==
  [n \in 1..(IF end > Len(old) THEN end ELSE Len(old)) |->
     IF n \in (pos + 1)..end THEN bytes[n - pos] ELSE IF n <= Len(old) THEN old[n] ELSE 0]
LEMMA OverIs ==
  ASSUME NEW old \in Seq(Nat), NEW bytes \in Seq(Nat), NEW pos \in Nat, NEW end, end = pos + Len(bytes)
  PROVE  /\ end \in Nat /\ Over(old, bytes, pos, end) \in Seq(Nat)
         /\ pos = Len(old) => Over(old, bytes, pos, end) = old \o bytes /\ end = Len(old \o bytes)
<1> DEFINE size == IF end > Len(old) THEN end ELSE Len(old)
           new == [n \in 1..size |-> IF n \in (pos + 1)..end THEN bytes[n - pos]
                                     ELSE IF n <= Len(old) THEN old[n] ELSE 0]
<1>1. Len(old) \in Nat /\ Len(bytes) \in Nat /\ end \in Nat /\ size \in Nat
  OBVIOUS
<1> HIDE DEF size
<1>2. \A n \in (pos + 1)..end : n - pos \in 1..Len(bytes)
  BY <1>1
<1>3. \A n \in 1..size : n <= Len(old) => n \in 1..Len(old)
  BY <1>1
<1>4. (\A n \in 1..Len(bytes) : bytes[n] \in Nat) /\ (\A n \in 1..Len(old) : old[n] \in Nat)
  OBVIOUS
<1>5. \A n \in 1..size : new[n] \in Nat
  BY <1>2, <1>3, <1>4
<1>6. new \in Seq(Nat) /\ Len(new) = size
  BY <1>1, <1>5
<1>7. ASSUME pos = Len(old) PROVE new = old \o bytes /\ end = Len(old \o bytes)
  <2>1. size = end
    BY <1>1, <1>7 DEF size
  <2>2. old \o bytes \in Seq(Nat) /\ Len(old \o bytes) = Len(old) + Len(bytes)
        /\ \A n \in 1..(Len(old) + Len(bytes)) :
             (old \o bytes)[n] = IF n <= Len(old) THEN old[n] ELSE bytes[n - Len(old)]
    BY ConcatProperties
  <2>3. \A n \in 1..size : n \in (pos + 1)..end <=> ~(n <= Len(old))
    BY <1>1, <1>7, <2>1
  <2>4. \A n \in 1..size : new[n] = (old \o bytes)[n]
    BY <1>1, <1>7, <2>1, <2>2, <2>3
  <2> HIDE DEF new
  <2>5. new = old \o bytes
    BY <1>6, <1>7, <2>1, <2>2, <2>4, SeqEqual
  <2> QED
    BY <1>7, <2>2, <2>5
<1>8. Over(old, bytes, pos, end) = new
  BY DEF Over, size
<1> HIDE DEF new
<1> QED
  BY <1>1, <1>6, <1>7, <1>8

\* and follow on them at the end of the file.
Written(k, j, f, bytes) ==
  LET i == k.fds[f].ino
      old == k.data[i]
  IN  /\ IsDisk(j) /\ j.tree = k.tree /\ j.full = k.full
      /\ \A x \in Inodes \cup {0} : x # i => j.data[x] = k.data[x]
      /\ \A g \in Fds : /\ j.fds[g].ino = k.fds[g].ino /\ j.fds[g].flags = k.fds[g].flags
                        /\ g # f => j.fds[g] = k.fds[g]
      /\ "append" \in k.fds[f].flags \/ k.fds[f].pos = Len(old) =>
           j.data[i] = old \o bytes /\ j.fds[f].pos = Len(old \o bytes)
LEMMA WriteKeepsDisk ==
  ASSUME NEW k, IsDisk(k), NEW f \in Fds, k.fds[f].ino \in Inodes, NEW bytes \in Seq(Nat)
  PROVE  Written(k, KWrite(k, f, bytes), f, bytes)
<1> DEFINE j == KWrite(k, f, bytes)
           i == k.fds[f].ino
           old == k.data[i]
           pos == IF "append" \in k.fds[f].flags THEN Len(old) ELSE k.fds[f].pos
           end == pos + Len(bytes)
           new == Over(old, bytes, pos, end)
           e == [k.fds[f] EXCEPT !.pos = end]
<1>1. i \in Inodes /\ old \in Seq(Nat) /\ k.fds[f] \in FdShape /\ k.fds \in [Fds -> FdShape]
  BY DEF IsDisk, FdShape
<1>2. pos \in Nat
  BY <1>1 DEF FdShape
<1>4. end \in Nat /\ new \in Seq(Nat)
  BY <1>1, <1>2, OverIs
<1>5. pos = Len(old) => new = old \o bytes /\ end = Len(old \o bytes)
  BY <1>1, <1>2, OverIs
<1>6. /\ {"tree", "data", "fds", "full"} \subseteq DOMAIN j /\ j.tree = k.tree /\ j.full = k.full
      /\ j.data = [k.data EXCEPT ![i] = new] /\ j.fds = [k.fds EXCEPT ![f].pos = end]
  BY DEF KWrite, Over, IsDisk
<1>7. j.fds = [k.fds EXCEPT ![f] = e]
  BY <1>6
<1>8. e \in FdShape /\ e.ino = k.fds[f].ino /\ e.flags = k.fds[f].flags /\ e.pos = end
  BY <1>1, <1>4 DEF FdShape
<1> HIDE DEF j, new, e, end
<1>9. j.data \in [Inodes \cup {0} -> Seq(Nat)] /\ j.data[i] = new /\ \A x \in Inodes \cup {0} : x # i => j.data[x] = k.data[x]
  BY <1>1, <1>4, <1>6 DEF IsDisk
<1>10. IsDisk(j)
  <2>1. \E g \in Fds, d \in FdShape :
          ("write" \in d.flags => d.ino \in Inodes) /\ j.fds = [k.fds EXCEPT ![g] = d]
    BY <1>1, <1>7, <1>8
  <2>2. \A q \in DOMAIN j.tree : IsEntry(j.tree[q])
    BY <1>6 DEF IsDisk
  <2> QED
    BY <1>6, <1>9, <2>1, <2>2, DiskIs, Zenon
<1>11. \A g \in Fds : /\ j.fds[g].ino = k.fds[g].ino /\ j.fds[g].flags = k.fds[g].flags
                      /\ g # f => j.fds[g] = k.fds[g]
                      /\ g = f => j.fds[g] = e
  BY <1>1, <1>7, <1>8
<1>12. "append" \in k.fds[f].flags \/ k.fds[f].pos = Len(old) =>
         j.data[i] = old \o bytes /\ j.fds[f].pos = Len(old \o bytes)
  BY <1>5, <1>8, <1>9, <1>11
<1> QED
  BY <1>6, <1>9, <1>10, <1>11, <1>12 DEF j, Written

\* open() makes, empties or leaves the file.
OpensNew(k, q, i) ==
  /\ q \notin DOMAIN os.tree /\ i \in Inodes /\ i \notin Used(os)
  /\ k.tree = [x \in DOMAIN os.tree \cup {q} |-> IF x = q THEN File(i) ELSE os.tree[x]]
  /\ k.data = [os.data EXCEPT ![i] = <<>>]
OpensDir(k, q, i) == q \in DOMAIN os.tree /\ os.tree[q] = Dir /\ i = 0 /\ k.tree = os.tree /\ k.data = os.data
OpensOld(k, q, i, flags) ==
  /\ q \in DOMAIN os.tree /\ i \in Inodes /\ os.tree[q] = File(i) /\ k.tree = os.tree
  /\ k.data = IF "trunc" \in flags THEN [os.data EXCEPT ![i] = <<>>] ELSE os.data
Fd(i, flags) == [ino |-> i, pos |-> 0, flags |-> flags]
LEMMA KOpenKeepsDisk ==
  ASSUME IsDisk(os), IsKernel(os), NEW p, NEW flags \in SUBSET Modes, flags # {"closed"}
  PROVE  LET r == KOpen(os, p, flags)
             q == Real(os, p)
         IN /\ IsDisk(r.k)
            /\ r.err # "" => r.k = os
            /\ r.err = "" =>
                 /\ r.k.full = os.full
                 /\ \E i \in Inodes \cup {0} :
                      /\ r.k.fds = [os.fds EXCEPT ![NewFd(r)] = Fd(i, flags)]
                      /\ NewFd(r) \in Fds
                      /\ \/ OpensNew(r.k, q, i) /\ "creat" \in flags
                         \/ OpensDir(r.k, q, i) /\ "write" \notin flags
                         \/ OpensOld(r.k, q, i, flags)
<1> DEFINE r == KOpen(os, p, flags)
           q == Real(os, p)
           l == LowestFd(os)
           Shape(k) == {"tree", "data", "fds", "full"} \subseteq DOMAIN k
<1>1. (r.err # "" => r.k = os) /\ (r.err = "" => NewFd(r) \in Fds \ Open(os) /\ Open(r.k) = Open(os) \cup {NewFd(r)})
  BY KOpenIs
<1>2. CASE r.err # ""
  BY <1>1, <1>2
<1>3. CASE r.err = ""
  <2>1. \A e : Fails(e).err = e
    BY DEF Fails
  <2>2. r \notin Refused
    BY <1>3, <2>1 DEF Refused
  <2>3. \A k : Ok(k).k = k
    BY DEF Ok
  <2>4. \A i : LET k == Opened(os, i, flags) IN
          /\ Shape(k) /\ k.tree = os.tree /\ k.data = os.data /\ k.full = os.full
          /\ k.fds = [os.fds EXCEPT ![l] = Fd(i, flags)]
    BY DEF Opened, Fd, IsDisk
  <2>5. \A i : LET k == MakesFile(q, i, flags) IN
          /\ Shape(k) /\ k.full = os.full /\ k.fds = [os.fds EXCEPT ![l] = Fd(i, flags)]
          /\ k.tree = [x \in DOMAIN os.tree \cup {q} |-> IF x = q THEN File(i) ELSE os.tree[x]]
          /\ k.data = [os.data EXCEPT ![i] = <<>>]
    <3> TAKE i
    <3> DEFINE o == Opened(os, i, flags)
    <3>1. Shape(o) /\ o.tree = os.tree /\ o.data = os.data /\ o.full = os.full
          /\ o.fds = [os.fds EXCEPT ![l] = Fd(i, flags)]
      BY <2>4
    <3> HIDE DEF o, q, l
    <3>2. LET k == [With(o, q, File(i)) EXCEPT !.data[i] = <<>>] IN
          /\ Shape(k) /\ k.full = o.full /\ k.fds = o.fds
          /\ k.tree = [x \in DOMAIN o.tree \cup {q} |-> IF x = q THEN File(i) ELSE o.tree[x]]
          /\ k.data = [o.data EXCEPT ![i] = <<>>]
      BY <3>1 DEF With
    <3> QED
      BY <3>1, <3>2 DEF MakesFile, o
  <2>6. \A i : LET k == OpensFile(i, flags) IN
          /\ Shape(k) /\ k.tree = os.tree /\ k.full = os.full /\ k.fds = [os.fds EXCEPT ![l] = Fd(i, flags)]
          /\ k.data = IF "trunc" \in flags THEN [os.data EXCEPT ![i] = <<>>] ELSE os.data
    <3> TAKE i
    <3> DEFINE o == Opened(os, i, flags)
    <3>1. Shape(o) /\ o.tree = os.tree /\ o.data = os.data /\ o.full = os.full
          /\ o.fds = [os.fds EXCEPT ![l] = Fd(i, flags)]
      BY <2>4
    <3> HIDE DEF o, l
    <3> QED
      BY <3>1 DEF OpensFile, o
  <2> HIDE DEF l, r
  <2>7. FreeFds(os) # {} /\ \E i \in Inodes \cup {0} :
          /\ Shape(r.k) /\ r.k.full = os.full /\ r.k.fds = [os.fds EXCEPT ![l] = Fd(i, flags)]
          /\ \/ OpensNew(r.k, q, i) /\ "creat" \in flags
             \/ OpensDir(r.k, q, i) /\ "write" \notin flags
             \/ OpensOld(r.k, q, i, flags)
    <3> HIDE DEF q
    <3>1. CASE FreeFds(os) # {} /\ q \notin DOMAIN os.tree /\ "creat" \in flags /\ \E i \in Inodes \ Used(os) : r = Ok(MakesFile(q, i, flags))
      <4>1. PICK i \in Inodes \ Used(os) : r = Ok(MakesFile(q, i, flags))
        BY <3>1
      <4>2. r.k = MakesFile(q, i, flags)
        BY <2>3, <4>1
      <4>3. OpensNew(r.k, q, i) /\ Shape(r.k) /\ r.k.full = os.full /\ r.k.fds = [os.fds EXCEPT ![l] = Fd(i, flags)]
        BY <2>5, <3>1, <4>1, <4>2 DEF OpensNew
      <4> QED
        BY <3>1, <4>1, <4>3
    <3>2. CASE /\ FreeFds(os) # {} /\ q \in DOMAIN os.tree /\ os.tree[q] = Dir /\ "write" \notin flags
               /\ r = Ok(Opened(os, 0, flags))
      <4>1. r.k = Opened(os, 0, flags)
        BY <2>3, <3>2
      <4>2. OpensDir(r.k, q, 0) /\ Shape(r.k) /\ r.k.full = os.full /\ r.k.fds = [os.fds EXCEPT ![l] = Fd(0, flags)]
        BY <2>4, <3>2, <4>1 DEF OpensDir
      <4> QED
        BY <3>2, <4>2
    <3>3. CASE /\ FreeFds(os) # {} /\ q \in DOMAIN os.tree /\ os.tree[q] # Dir /\ os.tree[q].kind # "link"
               /\ r = Ok(OpensFile(os.tree[q].ino, flags))
      <4>1. PICK i \in Inodes : os.tree[q] = File(i)
        BY <3>3 DEF IsDisk, IsEntry
      <4>2. r.k = OpensFile(i, flags)
        BY <2>3, <3>3, <4>1 DEF File
      <4>3. OpensOld(r.k, q, i, flags) /\ Shape(r.k) /\ r.k.full = os.full /\ r.k.fds = [os.fds EXCEPT ![l] = Fd(i, flags)]
        BY <2>6, <3>3, <4>1, <4>2 DEF OpensOld
      <4> QED
        BY <3>3, <4>3
    <3> QED
      BY <2>2, <3>1, <3>2, <3>3, KOpenCases DEF q, r
  <2>8. l \in Fds \ Open(os)
    BY <2>7, LowestIsFree DEF FreeFds, Open, l
  <2>9. PICK i \in Inodes \cup {0} :
          /\ Shape(r.k) /\ r.k.full = os.full /\ r.k.fds = [os.fds EXCEPT ![l] = Fd(i, flags)]
          /\ \/ OpensNew(r.k, q, i) /\ "creat" \in flags
             \/ OpensDir(r.k, q, i) /\ "write" \notin flags
             \/ OpensOld(r.k, q, i, flags)
    BY <2>7
  <2>10. NewFd(r) = l
    <3>1. Fd(i, flags) # Closed
      BY DEF Fd, Closed
    <3>2. l \in Open(r.k)
      BY <2>8, <2>9, <3>1 DEF Open, IsKernel
    <3> QED
      BY <1>1, <1>3, <2>8, <3>2
  <2>11. IsDisk(r.k)
    <3>1. Fd(i, flags) \in FdShape /\ Fd(i, flags).flags = flags /\ Fd(i, flags).ino = i
      BY DEF Fd, FdShape
    <3>2. "write" \in flags => i \in Inodes
      BY <2>9 DEF OpensNew, OpensOld
    <3>3. \E g \in Fds, d \in FdShape :
            ("write" \in d.flags => d.ino \in Inodes) /\ r.k.fds = [os.fds EXCEPT ![g] = d]
      BY <2>8, <2>9, <3>1, <3>2
    <3>4. <<>> \in Seq(Nat)
      OBVIOUS
    <3>5. r.k.data \in [Inodes \cup {0} -> Seq(Nat)]
      BY <2>9, <3>4 DEF OpensNew, OpensDir, OpensOld, IsDisk
    <3>6. i \in Inodes => IsEntry(File(i))
      BY DEF IsEntry
    <3>7. \A x \in DOMAIN r.k.tree : IsEntry(r.k.tree[x])
      <4>1. \A x \in DOMAIN os.tree : IsEntry(os.tree[x])
        BY DEF IsDisk
      <4>2. CASE OpensNew(r.k, q, i)
        BY <3>6, <4>1, <4>2 DEF OpensNew
      <4>3. CASE r.k.tree = os.tree
        BY <4>1, <4>3
      <4> QED
        BY <2>9, <4>2, <4>3 DEF OpensDir, OpensOld
    <3> QED
      BY <2>9, <3>3, <3>5, <3>7, DiskIs, Zenon
  <2> QED
    BY <1>3, <2>8, <2>9, <2>10, <2>11 DEF r
<1> QED
  BY <1>2, <1>3

\* The calls of one system call keep a disk.
LEMMA NamesKeepDisk ==
  ASSUME NEW k, IsDisk(k), NEW q
  PROVE  /\ IsDisk(Without(k, q)) /\ \A e : IsEntry(e) => IsDisk(With(k, q, e))
<1>1. Without(k, q).fds = k.fds /\ Without(k, q).data = k.data
      /\ {"tree", "data", "fds", "full"} \subseteq DOMAIN Without(k, q)
      /\ Without(k, q).tree = [x \in DOMAIN k.tree \ {q} |-> k.tree[x]]
  BY DEF Without, IsDisk
<1>2. \A e : /\ With(k, q, e).fds = k.fds /\ With(k, q, e).data = k.data
             /\ {"tree", "data", "fds", "full"} \subseteq DOMAIN With(k, q, e)
             /\ With(k, q, e).tree = [x \in DOMAIN k.tree \cup {q} |-> IF x = q THEN e ELSE k.tree[x]]
  BY DEF With, IsDisk
<1>3. (\A x \in DOMAIN k.tree : IsEntry(k.tree[x])) /\ k.data \in [Inodes \cup {0} -> Seq(Nat)]
  BY DEF IsDisk
<1>4. IsDisk(Without(k, q))
  BY <1>1, <1>3, DiskIs
<1>5. ASSUME NEW e, IsEntry(e) PROVE IsDisk(With(k, q, e))
  <2> DEFINE j == With(k, q, e)
  <2>1. j.fds = k.fds /\ j.data = k.data /\ {"tree", "data", "fds", "full"} \subseteq DOMAIN j
        /\ j.tree = [x \in DOMAIN k.tree \cup {q} |-> IF x = q THEN e ELSE k.tree[x]]
    BY <1>2
  <2> HIDE DEF j
  <2>2. \A x \in DOMAIN j.tree : j.tree[x] = e \/ (x \in DOMAIN k.tree /\ j.tree[x] = k.tree[x])
    <3> SUFFICES ASSUME NEW x \in DOMAIN j.tree
                 PROVE  j.tree[x] = e \/ (x \in DOMAIN k.tree /\ j.tree[x] = k.tree[x])
      OBVIOUS
    <3>1. x \in DOMAIN k.tree \cup {q}
      BY <2>1
    <3>2. j.tree[x] = IF x = q THEN e ELSE k.tree[x]
      BY <2>1, <3>1
    <3> QED
      BY <3>1, <3>2
  <2>3. \A x \in DOMAIN j.tree : IsEntry(j.tree[x])
    BY <1>3, <1>5, <2>2, Zenon
  <2> QED
    BY <1>3, <2>1, <2>3, DiskIs DEF j
<1> QED
  BY <1>4, <1>5

LEMMA EntriesAre ==
  /\ IsEntry(Dir) /\ \A x : IsEntry(Link(x))
  /\ IsDisk(os) => \A q : Entry(os, q) = Absent \/ IsEntry(Entry(os, q))
<1>1. IsEntry(Dir) /\ \A x : IsEntry(Link(x))
  BY DEF IsEntry, Link
<1> QED
  BY <1>1 DEF Entry, IsDisk

LEMMA EmptiedKeepsDisk ==
  ASSUME IsDisk(os), NEW i
  PROVE  IsDisk([os EXCEPT !.data[i] = <<>>])
<1> DEFINE j == [os EXCEPT !.data[i] = <<>>]
<1>1. /\ {"tree", "data", "fds", "full"} \subseteq DOMAIN j /\ j.tree = os.tree /\ j.fds = os.fds
      /\ j.data = [os.data EXCEPT ![i] = <<>>]
  BY DEF IsDisk
<1>2. <<>> \in Seq(Nat)
  OBVIOUS
<1>3. j.data \in [Inodes \cup {0} -> Seq(Nat)] /\ \A q \in DOMAIN j.tree : IsEntry(j.tree[q])
  BY <1>1, <1>2 DEF IsDisk
<1> HIDE DEF j
<1> QED
  BY <1>1, <1>3, DiskIs DEF j

\* The result of a system call leaves a disk.
Keeps(r) == IsDisk(r.k)
LEMMA SimpleResults ==
  ASSUME IsDisk(os)
  PROVE  /\ Keeps(Ok(os)) /\ (\A e : Keeps(Fails(e))) /\ \A k : Keeps(Ok(k)) <=> IsDisk(k)
         /\ \A q : Keeps(Ok(Without(os, q)))
         /\ \A q, e : IsEntry(e) => Keeps(Ok(With(os, q, e)))
         /\ \A q, y, e : IsEntry(e) => Keeps(Ok(With(Without(os, q), y, e)))
         /\ \A i : Keeps(Ok([os EXCEPT !.data[i] = <<>>]))
<1>1. (\A k : Ok(k).k = k) /\ \A e : Fails(e).k = os
  BY DEF Ok, Fails
<1>2. \A q : IsDisk(Without(os, q)) /\ \A e : IsEntry(e) => IsDisk(With(os, q, e))
  BY NamesKeepDisk
<1>3. \A q, y, e : IsEntry(e) => IsDisk(With(Without(os, q), y, e))
  BY <1>2, NamesKeepDisk
<1>4. \A i : IsDisk([os EXCEPT !.data[i] = <<>>])
  BY EmptiedKeepsDisk
<1>5. (\A k : Keeps(Ok(k)) <=> IsDisk(k)) /\ \A e : Keeps(Fails(e)) <=> IsDisk(os)
  BY <1>1, Zenon DEF Keeps
<1> QED
  BY <1>2, <1>3, <1>4, <1>5, Zenon

LEMMA PathCallsKeepDisk ==
  ASSUME IsDisk(os), NEW p, NEW r \in OnPath(p)
  PROVE  Keeps(r)
<1>1. UnlinkSync(p) \in {Fails("ENOENT"), Fails("EPERM"), Ok(Without(os, Name(os, p)))}
  BY Zenon DEF UnlinkSync
<1>2. Mkdir(p) \in {Fails("ENOENT"), Fails("ENOTDIR"), Fails("EEXIST"), Ok(With(os, Name(os, p), Dir))}
  BY Zenon DEF Mkdir
<1>3. RmdirSync(p) \in {Fails("ENOENT"), Fails("ENOTDIR"), Fails("ENOTEMPTY"), Ok(Without(os, Name(os, p)))}
  BY Zenon DEF RmdirSync
<1>4. ReadlinkSync(p) \in {Fails("ENOENT"), Ok(os), Fails("EINVAL")}
  BY Zenon DEF ReadlinkSync
<1>5. Keeps(UnlinkSync(p)) /\ Keeps(Mkdir(p)) /\ Keeps(RmdirSync(p)) /\ Keeps(ReadlinkSync(p))
  BY <1>1, <1>2, <1>3, <1>4, SimpleResults, EntriesAre
<1>6. Keeps(TruncateSync(p))
  BY SimpleResults, Zenon DEF TruncateSync, Existing
<1>7. Keeps(StatSync(p)) /\ Keeps(ReaddirSync(p)) /\ Keeps(ChmodSync(p)) /\ Keeps(UtimesSync(p))
  BY SimpleResults DEF StatSync, ReaddirSync, ChmodSync, UtimesSync, Existing
<1>8. \A same : Keeps(ChownSync(p, same))
  BY SimpleResults DEF ChownSync, Existing
<1> QED
  BY <1>5, <1>6, <1>7, <1>8 DEF OnPath

LEMMA TwoPathCallsKeepDisk ==
  ASSUME IsDisk(os)
  PROVE  (\A r \in OnTwoPaths : Keeps(r)) /\ \A to, p : Keeps(SymlinkSync(to, p))
<1>1. ASSUME NEW p, NEW q PROVE Keeps(LinkSync(p, q))
  <2>1. \/ LinkSync(p, q) \in {Fails("ENOENT"), Fails("EPERM"), Fails("EEXIST")}
        \/ At(os, p) # Absent /\ LinkSync(p, q) = Ok(With(os, Name(os, q), At(os, p)))
    BY Zenon DEF LinkSync
  <2>2. At(os, p) # Absent => IsEntry(At(os, p))
    BY EntriesAre DEF At
  <2> QED
    BY <2>1, <2>2, SimpleResults
<1>2. ASSUME NEW p, NEW q PROVE Keeps(RenameSync(p, q))
  <2> DEFINE e == Entry(os, Name(os, p))
  <2>1. \/ RenameSync(p, q) = Fails("no code") \/ RenameSync(p, q) = Ok(os)
        \/ e.kind = "file" /\ RenameSync(p, q) = Ok(With(Without(os, Name(os, p)), Name(os, q), e))
    BY DEF RenameSync
  <2>2. e.kind = "file" => IsEntry(e)
    BY EntriesAre DEF Absent
  <2> QED
    BY <2>1, <2>2, SimpleResults
<1>3. ASSUME NEW to, NEW p PROVE Keeps(SymlinkSync(to, p))
  <2>1. SymlinkSync(to, p) \in {Fails("ENOENT"), Fails("EEXIST"), Ok(With(os, Name(os, p), Link(to)))}
    BY Zenon DEF SymlinkSync
  <2> QED
    BY <2>1, SimpleResults, EntriesAre
<1> QED
  BY <1>1, <1>2, <1>3 DEF OnTwoPaths

\* read() reads up to the end, from where the descriptor is.
LEMMA KReadIs ==
  ASSUME NEW k, IsDisk(k), NEW f \in Fds, NEW n \in Nat
  PROVE  LET s == k.data[k.fds[f].ino]
             pos == k.fds[f].pos
             b == KRead(k, f, n)
         IN /\ s \in Seq(Nat) /\ pos \in Nat /\ b \in Seq(Nat) /\ Len(b) \in Nat
            /\ pos <= Len(s) => /\ pos + Len(b) <= Len(s) /\ b = SubSeq(s, pos + 1, pos + Len(b))
                               /\ (b = <<>> /\ n > 0 => pos = Len(s))
<1> DEFINE s == k.data[k.fds[f].ino]
           pos == k.fds[f].pos
           m == IF pos + n < Len(s) THEN pos + n ELSE Len(s)
<1>1. k.fds[f].ino \in Inodes \cup {0} /\ pos \in Nat
  BY DEF IsDisk
<1>2. s \in Seq(Nat)
  BY <1>1 DEF IsDisk
<1>3. KRead(k, f, n) = SubSeq(s, pos + 1, m)
  BY DEF KRead
<1> HIDE DEF s, pos
<1>4. Len(s) \in Nat /\ m \in Nat /\ m <= Len(s) /\ (pos <= Len(s) => pos <= m) /\ m <= pos + n
      /\ (m <= pos /\ n > 0 => Len(s) <= pos)
  BY <1>1, <1>2
<1> HIDE DEF m
<1>5. SubSeq(s, pos + 1, m) \in Seq(Nat)
  BY <1>1, <1>2, <1>4
<1>6. ASSUME pos <= Len(s) PROVE Len(SubSeq(s, pos + 1, m)) = m - pos
  BY <1>1, <1>2, <1>4, <1>6, ReadFollows
<1>7. Len(SubSeq(s, pos + 1, m)) \in Nat
  BY <1>5
<1>8. ASSUME pos <= Len(s) PROVE pos + (m - pos) = m /\ (m - pos = 0 => m = pos)
  BY <1>1, <1>4, <1>8
<1>9. Len(<<>>) = 0
  OBVIOUS
<1>10. ASSUME pos <= Len(s), SubSeq(s, pos + 1, m) = <<>>, n > 0 PROVE pos = Len(s)
  BY <1>1, <1>4, <1>6, <1>8, <1>9, <1>10
<1> QED
  BY <1>1, <1>2, <1>3, <1>4, <1>5, <1>6, <1>7, <1>8, <1>10 DEF s, pos

LEMMA DescriptorCallsKeepDisk ==
  ASSUME IsDisk(os), NEW f \in Fds, NEW r \in OnDescriptor(f)
  PROVE  Keeps(r)
<1>1. CASE r \in OwnersOf(f)
  BY <1>1, SimpleResults DEF OwnersOf, FchmodSync, FutimesSync, FchownSync, OnFd
<1>2. ASSUME NEW n, n \in 1..2, NEW at \in BOOLEAN, r = ReadSync(f, n, at) PROVE Keeps(r)
  <2> DEFINE m == os.fds[f].pos + Len(KRead(os, f, n))
  <2>1. \/ r \in {Fails("EBADF"), Fails("EISDIR"), Ok(os)}
        \/ r = Ok([os EXCEPT !.fds[f].pos = @ + Len(KRead(os, f, n))])
    BY <1>2, Zenon DEF ReadSync
  <2>2. m \in Nat
    <3>1. os.fds[f].pos \in Nat
      BY DEF IsDisk
    <3>3. Len(KRead(os, f, n)) \in Nat
      BY <1>2, KReadIs
    <3> QED
      BY <3>1, <3>3
  <2>3. [os EXCEPT !.fds[f].pos = @ + Len(KRead(os, f, n))] = Moved(os, f, m)
    BY DEF IsDisk, Moved
  <2>4. IsDisk(Moved(os, f, m))
    BY <2>2, MoveKeepsDisk
  <2> HIDE DEF m
  <2> QED
    BY <2>1, <2>3, <2>4, SimpleResults
<1>3. ASSUME NEW at \in BOOLEAN, r = WriteSync(f, Bytes, at) PROVE Keeps(r)
  <2> DEFINE start == IF at THEN Moved(os, f, 0) ELSE os
             after == KWrite(start, f, Bytes)
             end == IF at THEN Moved(after, f, os.fds[f].pos) ELSE after
  <2>1. r = Fails("EBADF") \/ ("write" \in os.fds[f].flags /\ r = Ok(end))
    <3>1. CASE IsOpen(f) /\ "write" \in os.fds[f].flags
      <4>1. WriteSync(f, Bytes, at) = Ok(end)
        BY <3>1, Zenon DEF WriteSync, Moved
      <4> HIDE DEF end
      <4> QED
        BY <1>3, <3>1, <4>1
    <3>2. CASE ~(IsOpen(f) /\ "write" \in os.fds[f].flags)
      <4>1. WriteSync(f, Bytes, at) = Fails("EBADF")
        BY <3>2, Zenon DEF WriteSync
      <4> QED
        BY <1>3, <4>1
    <3> QED
      BY <3>1, <3>2
  <2>2. ASSUME "write" \in os.fds[f].flags PROVE IsDisk(end)
    <3>1. IsDisk(start) /\ start.fds[f].ino \in Inodes
      <4>1. os.fds[f].ino \in Inodes
        BY <2>2 DEF IsDisk
      <4>2. IsDisk(Moved(os, f, 0)) /\ Moved(os, f, 0).fds[f].ino = os.fds[f].ino
        BY MoveKeepsDisk
      <4> QED
        BY <4>1, <4>2
    <3> HIDE DEF start
    <3>2. IsDisk(after)
      BY <3>1, WriteKeepsDisk, FileSystemAssumption DEF Written
    <3>3. os.fds[f].pos \in Nat
      BY DEF IsDisk
    <3> HIDE DEF after
    <3>4. IsDisk(Moved(after, f, os.fds[f].pos))
      BY <3>2, <3>3, MoveKeepsDisk
    <3> QED
      BY <3>2, <3>4
  <2> HIDE DEF end
  <2> QED
    BY <2>1, <2>2, SimpleResults
<1> QED
  BY <1>1, <1>2, <1>3 DEF OnDescriptor, ReadsOf, WritesOf

----------------------------------------------------------------------------
(* The streams *)
\* What setImmediate is given.
Chores == {"callback", "open", "flush", "chunk"}
\* The streams as they are, or as a step leaves them.
StreamsAre(r, w, queue) ==
  /\ r = NoStream \/ (IsReader(r) /\ (r.piped => IsWriter(w)))
  /\ w = NoStream \/ IsWriter(w)
  /\ queue \in Seq(Chores)
  /\ \A i \in DOMAIN queue :
       /\ (queue[i] \in {"open", "chunk"} => IsReader(r))
       /\ queue[i] = "flush" => IsWriter(w)
\* The stream a call is made for is there.
Origin(a, r, w) ==
  /\ a.mode = "read stream" => IsReader(r)
  /\ a.mode = "write stream" => IsWriter(w)
LEMMA StreamsInvIs ==
  /\ StreamsInv <=> StreamsAre(rs, ws, immediates) /\ (stack # <<>> => Origin(api, rs, ws))
  /\ StreamsInv' <=> StreamsAre(rs', ws', immediates') /\ (stack' # <<>> => Origin(api', rs', ws'))
BY DEF StreamsInv, StreamsAre, Origin, Chores

\* A queue that grows or shrinks.
LEMMA QueueIs ==
  ASSUME NEW r, NEW w, NEW queue, StreamsAre(r, w, queue)
  PROVE  /\ StreamsAre(r, w, Append(queue, "callback"))
         /\ (IsReader(r) => StreamsAre(r, w, Append(queue, "open")) /\ StreamsAre(r, w, Append(queue, "chunk")))
         /\ IsWriter(w) => StreamsAre(r, w, Append(queue, "flush"))
         /\ queue # <<>> =>
              /\ StreamsAre(r, w, Tail(queue))
              /\ Head(queue) \in {"open", "chunk"} => IsReader(r)
              /\ Head(queue) = "flush" => IsWriter(w)
<1> DEFINE Good(c) == /\ c \in {"open", "chunk"} => IsReader(r)
                      /\ c = "flush" => IsWriter(w)
           All(q) == q \in Seq(Chores) /\ \A i \in DOMAIN q : Good(q[i])
<1>1. All(queue) /\ \A q : All(q) => StreamsAre(r, w, q)
  BY DEF StreamsAre
<1> HIDE DEF Good
<1>2. ASSUME NEW c \in Chores, Good(c) PROVE All(Append(queue, c))
  BY <1>1, <1>2
<1>3. ASSUME queue # <<>> PROVE All(Tail(queue)) /\ Good(Head(queue))
  BY <1>1, <1>3
<1> HIDE DEF All
<1>4. Good("callback") /\ (IsReader(r) => Good("open") /\ Good("chunk")) /\ (IsWriter(w) => Good("flush"))
  BY DEF Good
<1>5. {"callback", "open", "chunk", "flush"} \subseteq Chores
  BY DEF Chores
<1>6. StreamsAre(r, w, Append(queue, "callback"))
  BY <1>1, <1>2, <1>4, <1>5
<1>7. IsReader(r) => StreamsAre(r, w, Append(queue, "open")) /\ StreamsAre(r, w, Append(queue, "chunk"))
  BY <1>1, <1>2, <1>4, <1>5
<1>8. IsWriter(w) => StreamsAre(r, w, Append(queue, "flush"))
  BY <1>1, <1>2, <1>4, <1>5
<1>9. ASSUME queue # <<>>
      PROVE  /\ StreamsAre(r, w, Tail(queue))
             /\ Head(queue) \in {"open", "chunk"} => IsReader(r)
             /\ Head(queue) = "flush" => IsWriter(w)
  BY <1>1, <1>3, <1>9 DEF Good
<1> QED
  BY <1>6, <1>7, <1>8, <1>9

\* A read stream, or a write stream, in another state.
LEMMA OtherStreams ==
  ASSUME NEW r, NEW w, NEW queue, StreamsAre(r, w, queue)
  PROVE  /\ \A s : IsReader(s) /\ (s.piped => IsWriter(w)) => StreamsAre(s, w, queue)
         /\ \A v : IsWriter(v) => StreamsAre(r, v, queue)
         /\ IsReader(r) /\ r.piped => IsWriter(w)
<1>1. NoStream.at = "none" /\ ~("path" \in DOMAIN NoStream)
  BY DEF NoStream
<1>2. ~IsReader(NoStream) /\ ~IsWriter(NoStream)
  BY <1>1 DEF IsReader, IsWriter
<1> QED
  BY <1>2 DEF StreamsAre

LEMMA ReadersAre ==
  ASSUME NEW s, IsReader(s)
  PROVE  /\ \A at : LET r == [s EXCEPT !.at = at] IN IsReader(r) /\ r.piped = s.piped
         /\ \A n, x : n \in Nat => LET r == [s EXCEPT !.pos = n, !.out = x] IN IsReader(r) /\ r.piped = s.piped
         /\ \A d : d \in Seq(Nat) => LET r == [s EXCEPT !.data = d] IN IsReader(r) /\ r.piped = s.piped
<1>1. \A at : LET r == [s EXCEPT !.at = at] IN IsReader(r) /\ r.piped = s.piped
  BY DEF IsReader
<1>2. \A n, x : n \in Nat => LET r == [s EXCEPT !.pos = n, !.out = x] IN IsReader(r) /\ r.piped = s.piped
  BY DEF IsReader
<1>3. \A d : d \in Seq(Nat) => LET r == [s EXCEPT !.data = d] IN IsReader(r) /\ r.piped = s.piped
  BY DEF IsReader
<1> QED
  BY <1>1, <1>2, <1>3

LEMMA WritersAre ==
  ASSUME NEW v, IsWriter(v)
  PROVE  /\ \A at : IsWriter([v EXCEPT !.at = at])
         /\ \A b : IsWriter([v EXCEPT !.ending = b])
         /\ \A b, at : IsWriter([v EXCEPT !.writable = b, !.at = at])
         /\ \A x : x \in Seq(Nat) => IsWriter([v EXCEPT !.parts = x])
         /\ \A x, b : x \in Seq(Nat) => IsWriter([v EXCEPT !.parts = x, !.ending = b])
<1>1. \A at : IsWriter([v EXCEPT !.at = at])
  BY DEF IsWriter
<1>2. \A b : IsWriter([v EXCEPT !.ending = b])
  BY DEF IsWriter
<1>3. \A b, at : IsWriter([v EXCEPT !.writable = b, !.at = at])
  BY DEF IsWriter
<1>4. \A x : x \in Seq(Nat) => IsWriter([v EXCEPT !.parts = x])
  BY DEF IsWriter
<1>5. \A x, b : x \in Seq(Nat) => IsWriter([v EXCEPT !.parts = x, !.ending = b])
  BY DEF IsWriter
<1> QED
  BY <1>1, <1>2, <1>3, <1>4, <1>5

\* The next chunk of a read stream, or its end.
LEMMA EmitKeeps ==
  ASSUME NEW s, IsReader(s), s.piped => IsWriter(ws), NEW r, NEW queue,
         StreamsAre(r, ws, queue), EmitChunk(s, queue)
  PROVE  StreamsAre(rs', ws', immediates')
<1>1. StreamsAre(s, ws, queue)
  BY OtherStreams
<1>2. CASE s.at = "destroyed"
  BY <1>1, <1>2 DEF EmitChunk
<1>3. CASE s.at # "destroyed" /\ AtEnd(s)
  <2> DEFINE t == [s EXCEPT !.at = "ended"]
             w == [ws EXCEPT !.ending = TRUE]
  <2>1. /\ rs' = t /\ ws' = IF s.piped THEN w ELSE ws
        /\ immediates' = IF s.piped THEN Append(queue, "flush") ELSE queue
    BY <1>3 DEF EmitChunk
  <2>2. IsReader(t) /\ t.piped = s.piped
    BY ReadersAre
  <2>3. s.piped => IsWriter(w)
    BY WritersAre
  <2> HIDE DEF t, w
  <2>4. StreamsAre(t, ws, queue)
    BY <1>1, <2>2, OtherStreams
  <2>5. ASSUME s.piped PROVE StreamsAre(t, w, Append(queue, "flush"))
    BY <2>3, <2>4, <2>5, OtherStreams, QueueIs
  <2> QED
    BY <2>1, <2>4, <2>5
<1>4. CASE s.at # "destroyed" /\ ~AtEnd(s)
  <2> DEFINE chunk == s.data[s.pos + 1]
             t == [s EXCEPT !.pos = s.pos + 1, !.out = Append(s.out, chunk)]
             w == [ws EXCEPT !.parts = Append(ws.parts, chunk)]
  <2>1. /\ rs' = t /\ ws' = IF s.piped /\ ws.writable THEN w ELSE ws
        /\ immediates' = Append(queue, "chunk")
    BY <1>4 DEF EmitChunk, NextChunk
  <2>2. chunk \in Nat /\ s.pos + 1 \in Nat
    <3>1. s.data \in Seq(Nat) /\ s.pos \in Nat /\ s.pos < Len(s.data)
      BY <1>4 DEF AtEnd, IsReader
    <3>2. s.pos + 1 \in 1..Len(s.data) /\ s.pos + 1 \in Nat
      BY <3>1
    <3>3. \A x \in Seq(Nat) : \A i \in 1..Len(x) : x[i] \in Nat
      OBVIOUS
    <3> QED
      BY <3>1, <3>2, <3>3, Zenon
  <2> HIDE DEF chunk
  <2>3. IsReader(t) /\ t.piped = s.piped
    <3>1. \A n, x : n \in Nat => LET u == [s EXCEPT !.pos = n, !.out = x] IN IsReader(u) /\ u.piped = s.piped
      BY ReadersAre
    <3>2. LET u == [s EXCEPT !.pos = s.pos + 1, !.out = Append(s.out, chunk)] IN IsReader(u) /\ u.piped = s.piped
      BY <2>2, <3>1, Zenon
    <3> QED
      BY <3>2
  <2>4. s.piped => Append(ws.parts, chunk) \in Seq(Nat)
    BY <2>2 DEF IsWriter
  <2>5. s.piped => IsWriter(w)
    BY <2>4, WritersAre
  <2> HIDE DEF t, w
  <2>6. StreamsAre(t, ws, Append(queue, "chunk"))
    BY <1>1, <2>3, OtherStreams, QueueIs
  <2>7. s.piped => StreamsAre(t, w, Append(queue, "chunk"))
    BY <2>5, <2>6, OtherStreams
  <2> QED
    BY <2>1, <2>6, <2>7
<1> QED
  BY <1>2, <1>3, <1>4

----------------------------------------------------------------------------
(* How a step of a call leaves the stack *)
\* What holds of the streams and of the call in progress; the calls that are loops.
Calm == StreamsInv /\ BytesInv /\ CallInv /\ WholeInv
Flat == {"write", "copy", "mkdir"}

LEMMA IdleIsCalm ==
  ASSUME stack' = <<>>, api' = NoCall, StreamsAre(rs', ws', immediates')
  PROVE  Calm'
BY StreamsInvIs DEF Calm, BytesInv, CallInv, WholeInv

LEMMA FinishKeeps ==
  ASSUME Calm, stack # <<>>, NEW e, NEW b \in Seq(Nat), Finish(e, b)
  PROVE  Calm' /\ stack' = <<>> /\ api' = NoCall /\ told' = e
<1>1. StreamsAre(rs, ws, immediates) /\ Origin(api, rs, ws)
  BY StreamsInvIs DEF Calm
<1>2. stack' = <<>> /\ api' = NoCall /\ told' = e
  BY Zenon DEF Finish
<1>3. StreamsAre(rs', ws', immediates')
  <2>3. CASE api.mode = "program" /\ Deliver /\ UNCHANGED <<rs, ws>>
    BY <1>1, <2>3, QueueIs DEF Deliver
  <2>4. CASE api.mode = "sync" /\ UNCHANGED <<immediates, rs, ws>>
    BY <1>1, <2>4
  <2>5. CASE /\ api.mode = "read stream"
             /\ IF e # "" THEN rs' = [rs EXCEPT !.at = "failed"] /\ UNCHANGED <<ws, immediates>>
                ELSE EmitChunk([rs EXCEPT !.data = SubSeq(b, rs.start + 1, Len(b))], immediates)
    <3> DEFINE r == [rs EXCEPT !.at = "failed"]
               d == SubSeq(b, rs.start + 1, Len(b))
               s == [rs EXCEPT !.data = d]
    <3>1. IsReader(rs) /\ (rs.piped => IsWriter(ws))
      BY <1>1, <2>5, OtherStreams DEF Origin
    <3>2. d \in Seq(Nat)
      BY <3>1 DEF IsReader
    <3>3. IsReader(r) /\ r.piped = rs.piped /\ IsReader(s) /\ s.piped = rs.piped
      BY <3>1, <3>2, ReadersAre
    <3>4. \/ rs' = r /\ UNCHANGED <<ws, immediates>>
          \/ EmitChunk(s, immediates)
      BY <2>5
    <3> HIDE DEF r, s
    <3>5. StreamsAre(r, ws, immediates)
      BY <1>1, <3>1, <3>3, OtherStreams
    <3>6. CASE EmitChunk(s, immediates)
      BY <1>1, <3>1, <3>3, <3>6, EmitKeeps
    <3> QED
      BY <3>4, <3>5, <3>6
  <2>6. CASE /\ api.mode = "write stream"
             /\ ws' = IF e = "" THEN [ws EXCEPT !.writable = FALSE, !.at = "finished"]
                      ELSE [ws EXCEPT !.at = "failed"]
             /\ UNCHANGED <<rs, immediates>>
    <3>1. IsWriter(ws')
      BY <1>1, <2>6, WritersAre DEF Origin
    <3> QED
      BY <1>1, <2>6, <3>1, OtherStreams
  <2> QED
    BY <2>3, <2>4, <2>5, <2>6 DEF Finish
<1> QED
  BY <1>2, <1>3, IdleIsCalm

\* The frame below, of rmSync or cpSync, goes on.
LEMMA PopKeeps ==
  ASSUME FdInv, Calm, stack # <<>>, Len(stack) # 1, stack' = Front(stack), UNCHANGED <<api, immediates, rs, ws>>
  PROVE  Calm' /\ stack' # <<>>
<1> DEFINE n == Len(stack)
<1>1. n \in Nat /\ n > 1 /\ stack \in Seq(Range(stack)) /\ DOMAIN stack = 1..n
  <2>1. stack \in Seq(Range(stack))
    BY DEF FdInv
  <2>2. Len(stack) \in Nat /\ Len(stack) > 0 /\ DOMAIN stack = 1..Len(stack)
    BY <2>1
  <2> QED
    BY <2>1, <2>2
<1>2. Len(stack') = n - 1 /\ \A i \in 1..(n - 1) : stack'[i] = stack[i]
  BY <1>1, FrontFacts
<1>3. stack' # <<>> /\ n - 1 \in 1..(n - 1)
  BY <1>1, <1>2
<1>4. Top'.op \in {"rm", "cp"}
  BY <1>1, <1>2, <1>3 DEF Top, Last, FdInv
<1>5. api # NoCall /\ Fields \subseteq DOMAIN api /\ api.op \notin Flat
  BY DEF Calm, CallInv, Flat
<1>6. StreamsInv'
  BY StreamsInvIs DEF Calm
<1>7. BytesInv'
  BY <1>4 DEF BytesInv, BytesOf
<1>8. CallInv'
  BY <1>3, <1>5 DEF CallInv, OfCall, Flat
<1>9. WholeInv'
  BY <1>5 DEF WholeInv, WholeOf, Flat
<1> QED
  BY <1>3, <1>6, <1>7, <1>8, <1>9 DEF Calm

LEMMA ReturnKeeps ==
  ASSUME FdInv, Calm, stack # <<>>, Return
  PROVE  /\ Calm' /\ (Len(stack) = 1 => api' = NoCall /\ told' = "")
         /\ Len(stack) # 1 => api' = api /\ stack' # <<>>
<1>1. CASE Len(stack) = 1
  <2>1. Finish("", <<>>)
    BY <1>1, Zenon DEF Return
  <2>2. <<>> \in Seq(Nat)
    OBVIOUS
  <2> QED
    BY <1>1, <2>1, <2>2, FinishKeeps
<1>2. CASE Len(stack) # 1
  BY <1>2, PopKeeps DEF Return
<1> QED
  BY <1>1, <1>2

LEMMA ThrowKeeps ==
  ASSUME FdInv, Calm, stack # <<>>, NEW e, Throw(e)
  PROVE  /\ Calm'
         /\ api.op # "cp" => api' = NoCall /\ told' = e
<1>1. CASE Return /\ api.op = "cp"
  BY <1>1, ReturnKeeps
<1>2. CASE Finish(e, <<>>)
  <2>1. <<>> \in Seq(Nat)
    OBVIOUS
  <2> QED
    BY <1>2, <2>1, FinishKeeps
<1> QED
  BY <1>1, <1>2 DEF Throw

\* The innermost frame goes on,
LEMMA GoesKeeps ==
  ASSUME FdInv, Calm, stack # <<>>, NEW f, Change(f), UNCHANGED <<api, immediates, rs, ws>>,
         BytesOf(f, os'), OfCall(f, api), ~api.meddled => WholeOf(f, os', api)
  PROVE  Calm' /\ stack' # <<>>
<1> DEFINE n == Len(stack)
           S == Range(stack) \cup {f}
<1>1. n \in Nat /\ n > 0 /\ stack \in Seq(S)
  BY DEF FdInv, Range
<1>2. Front(stack) \in Seq(S) /\ Len(Front(stack)) = n - 1
  BY <1>1, FrontFacts
<1>3. stack' \in Seq(S) /\ Len(stack') = n /\ stack'[n] = f
  BY <1>1, <1>2 DEF Change
<1>4. stack' # <<>> /\ Top' = f
  BY <1>1, <1>3 DEF Top, Last
<1>5. api # NoCall /\ Fields \subseteq DOMAIN api /\ (api.op \in Flat => n = 1)
  BY DEF Calm, CallInv, Flat
<1>6. StreamsInv'
  BY StreamsInvIs DEF Calm
<1>7. BytesInv'
  BY <1>4 DEF BytesInv
<1>8. CallInv'
  BY <1>3, <1>4, <1>5 DEF CallInv, Flat
<1>9. WholeInv'
  BY <1>4 DEF WholeInv
<1> QED
  BY <1>4, <1>6, <1>7, <1>8, <1>9 DEF Calm

\* and another frame above it.
LEMMA CallsKeepCalm ==
  ASSUME FdInv, Calm, stack # <<>>, NEW f, NEW g, stack' = Append(Append(Front(stack), f), g),
         UNCHANGED <<api, immediates, rs, ws>>, BytesOf(g, os'), api.op \notin Flat
  PROVE  Calm' /\ stack' # <<>>
<1> DEFINE n == Len(stack)
           S == Range(stack) \cup {f, g}
<1>1. n \in Nat /\ n > 0 /\ stack \in Seq(S)
  BY DEF FdInv, Range
<1>2. Front(stack) \in Seq(S) /\ Len(Front(stack)) = n - 1
  BY <1>1, FrontFacts
<1>3. Append(Front(stack), f) \in Seq(S) /\ Len(Append(Front(stack), f)) = n
  BY <1>1, <1>2
<1>4. stack' \in Seq(S) /\ Len(stack') = n + 1 /\ stack'[n + 1] = g
  BY <1>1, <1>3
<1>5. stack' # <<>> /\ Top' = g
  BY <1>1, <1>4 DEF Top, Last
<1>6. api # NoCall /\ Fields \subseteq DOMAIN api
  BY DEF Calm, CallInv
<1>7. StreamsInv'
  BY StreamsInvIs DEF Calm
<1>8. BytesInv'
  BY <1>5 DEF BytesInv
<1>9. CallInv'
  BY <1>5, <1>6 DEF CallInv, OfCall, Flat
<1>10. WholeInv'
  BY <1>5 DEF WholeInv, WholeOf, Flat
<1> QED
  BY <1>5, <1>7, <1>8, <1>9, <1>10 DEF Calm

----------------------------------------------------------------------------
(* What a step must do: keep the disk and the invariant, and, if a call ends in it *)
(* without an error, leave what that call promised.                                *)
Sound == FdInv /\ IsDisk(os) /\ Calm
Kept == Succeeds => FileKept(api, os')
Fine == IsDisk(os') /\ Calm' /\ Kept

\* Other calls than those on one file promise nothing here.
LEMMA NotFlat ==
  ASSUME api.op \notin Flat
  PROVE  Kept /\ \A f, k : OfCall(f, api) /\ WholeOf(f, k, api)
<1>1. \A k : FileKept(api, k)
  BY Zenon DEF FileKept, Flat
<1> QED
  BY <1>1 DEF Kept, OfCall, WholeOf, Flat

LEMMA TopIsOfCall ==
  ASSUME CallInv, stack # <<>>
  PROVE  /\ api # NoCall /\ Fields \subseteq DOMAIN api /\ OfCall(Top, api)
         /\ Top.op \notin Flat => api.op \notin Flat
BY DEF CallInv, OfCall, Flat

LEMMA IdleIsFine ==
  ASSUME Sound, stack = <<>>, IsDisk(os'), Calm'
  PROVE  Fine
BY DEF Sound, Calm, CallInv, Fine, Kept, Succeeds

LEMMA GoesFine ==
  ASSUME Sound, stack # <<>>, NEW f, Change(f), Going, IsDisk(os'), BytesOf(f, os'),
         OfCall(f, api), ~api.meddled => WholeOf(f, os', api)
  PROVE  Fine
<1>1. UNCHANGED <<api, immediates, rs, ws>>
  BY DEF Going
<1>2. Calm'
  BY <1>1, GoesKeeps DEF Sound
<1>3. api' # NoCall
  BY <1>1, TopIsOfCall DEF Sound, Calm
<1> QED
  BY <1>2, <1>3 DEF Fine, Kept, Succeeds

\* A frame that holds no file goes on, in a call on more than one file.
LEMMA GoesPlainly ==
  ASSUME Sound, stack # <<>>, NEW f, Change(f), Going, IsDisk(os'),
         f.op \notin {"read", "write", "copy"}, api.op \notin Flat
  PROVE  Fine
<1>1. BytesOf(f, os')
  BY DEF BytesOf
<1> QED
  BY <1>1, GoesFine, NotFlat

LEMMA CallsFine ==
  ASSUME Sound, stack # <<>>, NEW f, NEW g, stack' = Append(Append(Front(stack), f), g),
         Going, IsDisk(os'), BytesOf(g, os'), api.op \notin Flat
  PROVE  Fine
<1>1. UNCHANGED <<api, immediates, rs, ws>>
  BY DEF Going
<1>2. Calm'
  BY <1>1, CallsKeepCalm DEF Sound
<1> QED
  BY <1>2, NotFlat DEF Fine

LEMMA ReturnFine ==
  ASSUME Sound, stack # <<>>, Return, IsDisk(os'), api.op \in Flat /\ ~api.meddled => FileKept(api, os')
  PROVE  Fine
<1>1. Calm'
  BY ReturnKeeps DEF Sound
<1>2. Kept
  BY NotFlat DEF Kept, Succeeds
<1> QED
  BY <1>1, <1>2 DEF Fine

LEMMA ThrowFine ==
  ASSUME Sound, stack # <<>>, NEW e, Throw(e), e # "", IsDisk(os')
  PROVE  Fine
<1>1. Calm' /\ (api.op # "cp" => told' = e)
  BY ThrowKeeps DEF Sound
<1>2. CASE api.op = "cp"
  <2>1. api.op \notin Flat
    BY <1>2 DEF Flat
  <2> QED
    BY <1>1, <2>1, NotFlat DEF Fine
<1>3. CASE api.op # "cp"
  BY <1>1, <1>3 DEF Fine, Kept, Succeeds
<1> QED
  BY <1>2, <1>3

----------------------------------------------------------------------------
(* readFileSync *)
LEMMA ReadFine ==
  ASSUME Sound, ReadOpens \/ ReadReads
  PROVE  Fine
<1>1. stack # <<>> /\ Top.op = "read"
  BY DEF ReadOpens, ReadReads
<1>2. /\ IsFrame(Top) /\ IsKernel(os) /\ IsDisk(os) /\ BytesOf(Top, os)
      /\ {"op", "fd", "size"} \subseteq DOMAIN Top /\ Top.fd \in Fds \cup {0}
  BY <1>1, TopIs DEF Sound, Calm, BytesInv, BytesOf, IsFrame, FdInv
<1>3. api.op \notin Flat
  BY <1>1, TopIsOfCall DEF Sound, Calm, Flat
<1>4. CASE ReadOpens
  <2> DEFINE r == KOpen(os, Top.path, {"read"})
             i == r.k.fds[NewFd(r)].ino
             f == [Top EXCEPT !.fd = NewFd(r), !.size = IF i = 0 THEN 0 ELSE Len(os.data[i])]
  <2>1. {"read"} \in SUBSET Modes /\ {"read"} # {"closed"}
    <3>1. "read" # "closed"
      OBVIOUS
    <3> QED
      BY <3>1 DEF Modes
  <2>2. IsDisk(r.k) /\ (r.err # "" => r.k = os)
    BY <1>2, <2>1, KOpenKeepsDisk
  <2>3. IF r.err # "" THEN os' = os /\ Throw(r.err) ELSE os' = r.k /\ Going /\ Change(f)
    BY <1>4 DEF ReadOpens
  <2>4. CASE r.err # ""
    <3> HIDE DEF r
    <3> QED
      BY <1>1, <1>2, <2>3, <2>4, ThrowFine
  <2>5. CASE r.err = ""
    <3>1. NewFd(r) \in Fds /\ NewFd(r) # 0
      BY <1>2, <2>1, <2>5, KOpenIs, FileSystemAssumption
    <3>2. i \in Inodes \cup {0}
      BY <2>2, <3>1 DEF IsDisk
    <3>3. os.data[i] \in Seq(Nat)
      BY <1>2, <3>2 DEF IsDisk
    <3> HIDE DEF i, r
    <3>4. f.op = "read" /\ "size" \in DOMAIN f /\ f.size \in Nat
      BY <1>1, <1>2, <3>3
    <3> HIDE DEF f
    <3>5. BytesOf(f, os')
      BY <3>4 DEF BytesOf
    <3>6. OfCall(f, api) /\ WholeOf(f, os', api)
      BY <1>3, NotFlat
    <3> QED
      BY <1>1, <2>2, <2>3, <2>5, <3>5, <3>6, GoesFine
  <2> QED
    BY <2>4, <2>5
<1>5. CASE ReadReads
  <2> DEFINE i == os.fds[Top.fd].ino
             b == SubSeq(os.data[i], 1, Top.size)
  <2>1. Top.fd \in Fds /\ Top.size \in Nat /\ os' = KClose(os, Top.fd)
    BY <1>1, <1>2, <1>5 DEF ReadReads, BytesOf
  <2>2. IsDisk(os')
    BY <1>2, <2>1, CloseKeepsDisk
  <2>3. \/ Finish("ENOENT", <<>>)
        \/ i # 0 /\ ~(Len(os.data[i]) < Top.size) /\ Finish("", b)
    BY <1>5, Zenon DEF ReadReads
  <2>4. i \in Inodes \cup {0} /\ os.data[i] \in Seq(Nat)
    BY <1>2, <2>1 DEF IsDisk
  <2> HIDE DEF i
  <2>5. ~(Len(os.data[i]) < Top.size) => b \in Seq(Nat)
    BY <2>1, <2>4
  <2>6. <<>> \in Seq(Nat)
    OBVIOUS
  <2> HIDE DEF b
  <2>7. Calm'
    BY <1>1, <2>3, <2>5, <2>6, FinishKeeps DEF Sound
  <2> QED
    BY <1>3, <2>2, <2>7, NotFlat DEF Fine
<1> QED
  BY <1>4, <1>5

----------------------------------------------------------------------------
(* rmSync and cpSync *)
LEMMA RmFine ==
  ASSUME Sound, RmStats \/ RmReads \/ RmEntry \/ RmRemoves
  PROVE  Fine
<1>1. stack # <<>> /\ Top.op = "rm" /\ IsDisk(os) /\ FdInv
  BY DEF RmStats, RmReads, RmEntry, RmRemoves, Sound
<1>2. api.op \notin Flat
  BY <1>1, TopIsOfCall DEF Sound, Calm, Flat
<1> DEFINE r == IF Top.at = "unlink" THEN UnlinkSync(Top.path) ELSE RmdirSync(Top.path)
<1>3. \/ os' = os
      \/ os' = r.k
  BY DEF RmStats, RmReads, RmEntry, RmRemoves
<1>4. Keeps(r)
  BY <1>1, PathCallsKeepDisk DEF OnPath
<1>5. IsDisk(os')
  BY <1>1, <1>3, <1>4 DEF Keeps
<1> HIDE DEF r
<1>6. \A e : RmGone(e) => Return \/ Throw(e)
  BY DEF RmGone
<1>7. \/ Return
      \/ \E e : Throw(e) /\ e # ""
      \/ Going /\ \E f : Change(f) /\ f.op = "rm"
      \/ Going /\ \E f, p : stack' = Append(Append(Front(stack), f), RmFrame(p))
  <2>0. /\ \A at : [Top EXCEPT !.at = at].op = "rm"
        /\ \A at, rest : [Top EXCEPT !.at = at, !.rest = rest].op = "rm"
    BY <1>1
  <2>1. ASSUME RmStats
        PROVE  RmGone("ENOENT") \/ Throw("EISDIR") \/ (Going /\ \E at : Change([Top EXCEPT !.at = at]))
    BY <2>1, Zenon DEF RmStats
  <2>2. ASSUME RmStats
        PROVE  Return \/ (\E e : Throw(e) /\ e # "") \/ (Going /\ \E f : Change(f) /\ f.op = "rm")
    <3>1. "ENOENT" # "" /\ "EISDIR" # ""
      OBVIOUS
    <3> QED
      BY <1>6, <2>0, <2>1, <2>2, <3>1, Zenon
  <2>3. ASSUME RmReads
        PROVE  (\E e : Throw(e) /\ e # "") \/ (Going /\ \E at, rest : Change([Top EXCEPT !.at = at, !.rest = rest]))
    BY <2>3, Zenon DEF RmReads
  <2>4. ASSUME RmReads
        PROVE  (\E e : Throw(e) /\ e # "") \/ (Going /\ \E f : Change(f) /\ f.op = "rm")
    BY <2>0, <2>3, <2>4, Zenon
  <2>5. ASSUME RmEntry PROVE Going /\ \E f, p : stack' = Append(Append(Front(stack), f), RmFrame(p))
    BY <2>5, Zenon DEF RmEntry
  <2>6. ASSUME RmRemoves PROVE Return \/ (\E e : Throw(e) /\ e # "")
    <3>1. Return \/ \E e : e # "" /\ RmGone(e)
      BY <2>6, Zenon DEF RmRemoves
    <3> QED
      BY <1>6, <3>1, Zenon
  <2> QED
    BY <2>2, <2>4, <2>5, <2>6
<1>8. CASE Return
  BY <1>1, <1>2, <1>5, <1>8, ReturnFine
<1>9. CASE \E e : Throw(e) /\ e # ""
  BY <1>1, <1>5, <1>9, ThrowFine
<1>10. CASE Going /\ \E f : Change(f) /\ f.op = "rm"
  BY <1>1, <1>2, <1>5, <1>10, GoesPlainly
<1>11. CASE Going /\ \E f, p : stack' = Append(Append(Front(stack), f), RmFrame(p))
  <2>1. \A p : BytesOf(RmFrame(p), os')
    BY DEF BytesOf, RmFrame
  <2> QED
    BY <1>1, <1>2, <1>5, <1>11, <2>1, CallsFine
<1> QED
  BY <1>7, <1>8, <1>9, <1>10, <1>11

LEMMA CpFine ==
  ASSUME Sound, CpStats \/ CpReads \/ CpEntry
  PROVE  Fine
<1>1. stack # <<>> /\ Top.op = "cp" /\ os' = os /\ IsDisk(os')
  BY DEF CpStats, CpReads, CpEntry, Sound
<1>2. api.op \notin Flat
  BY <1>1, TopIsOfCall DEF Sound, Calm, Flat
<1> DEFINE Calls3(g) == \E f : stack' = Append(Append(Front(stack), f), g)
<1>3. /\ \A at : [Top EXCEPT !.at = at].op = "cp"
      /\ \A at, rest : [Top EXCEPT !.at = at, !.rest = rest].op = "cp"
  BY <1>1
<1>4. "ENOENT" # "" /\ "EISDIR" # ""
  OBVIOUS
<1>5. \/ Return
      \/ \E e : Throw(e) /\ e # ""
      \/ Going /\ \E f : Change(f) /\ f.op = "cp"
      \/ Going /\ \E p, q : Change(CopyFrame(p, q))
      \/ Going /\ \E p, q : Calls3(MkdirFrame(p)) \/ Calls3(CpFrame(p, q))
  <2>1. ASSUME CpStats
        PROVE  \/ Throw("ENOENT") \/ Throw("EISDIR")
               \/ Going /\ \/ Change([Top EXCEPT !.at = "readdir"])
                           \/ Calls3(MkdirFrame(Top.dst))
                           \/ Change(CopyFrame(Top.path, Top.dst))
    BY <2>1, Zenon DEF CpStats
  <2>2. CASE CpStats
    BY <1>3, <1>4, <2>1, <2>2, Zenon
  <2>3. CASE CpReads
    <3>1. (\E e : Throw(e) /\ e # "") \/ (Going /\ \E at, rest : Change([Top EXCEPT !.at = at, !.rest = rest]))
      BY <2>3, Zenon DEF CpReads
    <3> QED
      BY <1>3, <3>1, Zenon
  <2>4. CASE CpEntry
    BY <2>4, Zenon DEF CpEntry
  <2> QED
    BY <2>2, <2>3, <2>4
<1>6. CASE Return
  BY <1>1, <1>2, <1>6, ReturnFine
<1>7. CASE \E e : Throw(e) /\ e # ""
  BY <1>1, <1>7, ThrowFine
<1>8. CASE Going /\ \E f : Change(f) /\ f.op = "cp"
  BY <1>1, <1>2, <1>8, GoesPlainly
<1>9. CASE Going /\ \E p, q : Change(CopyFrame(p, q))
  <2>1. \A p, q : BytesOf(CopyFrame(p, q), os')
    <3>1. <<>> \in Seq(Nat)
      OBVIOUS
    <3> QED
      BY <3>1 DEF BytesOf, CopyFrame
  <2>2. \A f : OfCall(f, api) /\ WholeOf(f, os', api)
    BY <1>2, NotFlat
  <2> QED
    BY <1>1, <1>9, <2>1, <2>2, GoesFine
<1>10. CASE Going /\ \E p, q : Calls3(MkdirFrame(p)) \/ Calls3(CpFrame(p, q))
  <2>1. \A p, q : BytesOf(MkdirFrame(p), os') /\ BytesOf(CpFrame(p, q), os')
    BY DEF BytesOf, MkdirFrame, CpFrame
  <2> QED
    BY <1>1, <1>2, <1>10, <2>1, CallsFine
<1> QED
  BY <1>5, <1>6, <1>7, <1>8, <1>9, <1>10

----------------------------------------------------------------------------
(* The program *)
\* A call of one system call.
LEMMA SimpleFine ==
  ASSUME Sound, NEW r, Simple(r), Keeps(r)
  PROVE  Fine
<1>1. stack = <<>> /\ stack' = <<>> /\ api' = api /\ os' = r.k /\ UNCHANGED <<rs, ws>> /\ Deliver
  BY DEF Simple
<1>2. api' = NoCall
  BY <1>1 DEF Sound, Calm, CallInv
<1>3. StreamsAre(rs', ws', immediates')
  BY <1>1, StreamsInvIs, QueueIs DEF Sound, Calm, Deliver
<1>4. Calm'
  BY <1>1, <1>2, <1>3, IdleIsCalm
<1> QED
  BY <1>1, <1>4, IdleIsFine DEF Keeps

LEMMA FlagsAre ==
  ASSUME NEW s \in {"r", "r+", "w", "wx", "w+", "a", "ax"}
  PROVE  ParseOpenFlags[s] \in SUBSET Modes /\ ParseOpenFlags[s] # {"closed"}
<1>1. ParseOpenFlags[s] \in SUBSET Modes
  BY Zenon DEF ParseOpenFlags, Modes
<1> QED
  BY <1>1, FlagsAreOpen

LEMMA OneCallFine ==
  ASSUME Sound, CallPath \/ CallTwoPaths \/ CallSymlink \/ CallDescriptor \/ OpenSync \/ CloseSync
  PROVE  Fine
<1>1. IsDisk(os) /\ IsKernel(os)
  BY DEF Sound, FdInv
<1>2. CASE CallPath
  BY <1>1, <1>2, PathCallsKeepDisk, SimpleFine DEF CallPath
<1>3. CASE CallTwoPaths
  BY <1>1, <1>3, TwoPathCallsKeepDisk, SimpleFine DEF CallTwoPaths
<1>4. CASE CallSymlink
  BY <1>1, <1>4, TwoPathCallsKeepDisk, SimpleFine DEF CallSymlink
<1>5. CASE CallDescriptor
  BY <1>1, <1>5, DescriptorCallsKeepDisk, SimpleFine DEF CallDescriptor
<1>6. CASE OpenSync
  <2>1. PICK p \in Paths, s \in Flags : Simple(KOpen(os, p, ParseOpenFlags[s]))
    BY <1>6 DEF OpenSync
  <2>2. ParseOpenFlags[s] \in SUBSET Modes /\ ParseOpenFlags[s] # {"closed"}
    BY FlagsAre, FileSystemAssumption
  <2>3. Keeps(KOpen(os, p, ParseOpenFlags[s]))
    BY <1>1, <2>2, KOpenKeepsDisk DEF Keeps
  <2> QED
    BY <2>1, <2>3, SimpleFine
<1>7. CASE CloseSync
  <2>1. PICK f \in Fds : Simple(OnFd(f, Ok(KClose(os, f))))
    BY <1>7 DEF CloseSync
  <2>2. IsDisk(KClose(os, f))
    BY <1>1, CloseKeepsDisk
  <2>3. Keeps(OnFd(f, Ok(KClose(os, f))))
    BY <1>1, <2>2, SimpleResults DEF OnFd
  <2> QED
    BY <2>1, <2>3, SimpleFine
<1> QED
  BY <1>2, <1>3, <1>4, <1>5, <1>6, <1>7

\* A call begins with the files as they are.
LEMMA BeginsFine ==
  ASSUME Sound, NEW call, NEW f, Begin(call, f), os' = os, StreamsAre(rs', ws', immediates'),
         Origin(call, rs', ws'), Fields \subseteq DOMAIN call,
         BytesOf(f, os), OfCall(f, call), WholeOf(f, os, call)
  PROVE  Fine
<1>1. stack = <<>> /\ stack' = <<f>> /\ api' = call /\ stack' # <<>> /\ Top' = f /\ Len(stack') = 1
  BY DEF Begin, Top, Last
<1>2. call # NoCall
  <2>1. "mode" \in DOMAIN call /\ ~("mode" \in DOMAIN NoCall)
    BY DEF Fields, NoCall
  <2> QED
    BY <2>1
<1>3. StreamsInv'
  BY <1>1, StreamsInvIs
<1>4. BytesInv'
  BY <1>1 DEF BytesInv
<1>5. CallInv'
  BY <1>1, <1>2 DEF CallInv
<1>6. WholeInv'
  BY <1>1 DEF WholeInv
<1>7. IsDisk(os') /\ Calm'
  BY <1>3, <1>4, <1>5, <1>6 DEF Calm, Sound
<1> QED
  BY <1>1, <1>7, IdleIsFine

\* What BeginsFine asks of a call and of its frame.
Starts(c, f, mode) ==
  /\ Fields \subseteq DOMAIN c /\ c.mode = mode
  /\ BytesOf(f, os) /\ OfCall(f, c) /\ WholeOf(f, os, c)
LEMMA ReadCallIs ==
  ASSUME NEW p, NEW mode
  PROVE  Starts(ReadCall(mode, p), ReadFrame(p), mode)
<1> DEFINE c == ReadCall(mode, p)
<1>1. Fields \subseteq DOMAIN c /\ c.op = "read" /\ c.mode = mode
  BY DEF Call, Fields, ReadCall
<1>2. BytesOf(ReadFrame(p), os)
  BY DEF BytesOf, ReadFrame
<1> HIDE DEF c
<1>3. \A f : OfCall(f, c) /\ WholeOf(f, os, c)
  BY <1>1 DEF OfCall, WholeOf
<1> QED
  BY <1>1, <1>2, <1>3 DEF Starts, c

LEMMA WriteCallIs ==
  ASSUME NEW p, NEW mode, NEW bytes \in Seq(Nat), NEW flag
  PROVE  Starts(WriteCall(mode, p, bytes, flag), WriteFrame(p, bytes, flag), mode)
<1> DEFINE c == WriteCall(mode, p, bytes, flag)
           f == WriteFrame(p, bytes, flag)
           b == Call("write", mode, FALSE, FALSE, p)
<1>1. /\ Fields \subseteq DOMAIN c /\ c.op = "write" /\ c.mode = mode /\ c.path = p
      /\ c.bytes = bytes /\ c.flag = flag /\ c.was = os
  <2>1. DOMAIN b = Fields /\ b.op = "write" /\ b.mode = mode /\ b.path = p /\ b.was = os
    BY DEF Call, Fields
  <2>2. c = [b EXCEPT !.bytes = bytes, !.flag = flag]
    BY DEF WriteCall
  <2> HIDE DEF b, c
  <2> QED
    BY <2>1, <2>2 DEF Fields
<1>2. {"op", "path", "rest", "flag", "fd"} \subseteq DOMAIN f /\ f.op = "write" /\ f.path = p /\ f.rest = bytes
      /\ f.flag = flag /\ f.fd = 0
  BY DEF WriteFrame
<1> HIDE DEF c, f
<1>3. BytesOf(f, os)
  BY <1>2 DEF BytesOf
<1>4. OfCall(f, c)
  BY <1>1, <1>2 DEF OfCall
<1>5. WholeOf(f, os, c)
  BY <1>1, <1>2 DEF WholeOf, WriteGoes, Untouched
<1> QED
  BY <1>1, <1>3, <1>4, <1>5 DEF Starts, c, f

LEMMA PathCallIs ==
  ASSUME NEW op, op \in {"mkdir", "rm", "http"}, NEW mode, NEW force, NEW recursive,
         NEW p \in Seq(STRING), NEW f, op = "mkdir" => f = MkdirFrame(p), f.op \notin {"read", "write", "copy"}
  PROVE  Starts(Call(op, mode, force, recursive, p), f, mode)
<1> DEFINE c == Call(op, mode, force, recursive, p)
<1>1. Fields \subseteq DOMAIN c /\ c.op = op /\ c.mode = mode /\ c.path = p
  BY DEF Call, Fields
<1>2. BytesOf(f, os)
  BY DEF BytesOf
<1> HIDE DEF c
<1>3. op = "mkdir" => {"op", "path", "i"} \subseteq DOMAIN f /\ f.op = "mkdir" /\ f.path = p
  BY DEF MkdirFrame
<1>4. OfCall(f, c)
  <2>1. CASE op = "mkdir"
    <3>1. /\ {"op", "path"} \subseteq DOMAIN f /\ "i" \in DOMAIN f
          /\ f.op = c.op /\ f.path = c.path /\ c.op # "write" /\ c.op # "copy"
          /\ c.path \in Seq(STRING)
      BY <1>1, <1>3, <2>1
    <3> QED
      BY <3>1, Zenon DEF OfCall
  <2>2. CASE op # "mkdir"
    <3>1. c.op \notin {"write", "copy", "mkdir"}
      BY <1>1, <2>2
    <3> QED
      BY <3>1 DEF OfCall
  <2> QED
    BY <2>1, <2>2
<1>5. WholeOf(f, os, c)
  BY <1>1 DEF WholeOf
<1> QED
  BY <1>1, <1>2, <1>4, <1>5 DEF Starts, c

LEMMA CopyCallIs ==
  ASSUME NEW op, op \in {"copy", "cp"}, NEW o, NEW q, NEW f,
         op = "copy" => f = CopyFrame(q[1], q[2]), op = "cp" => f.op = "cp"
  PROVE  Starts(CopyCall(op, o, q), f, "program")
<1> DEFINE c == CopyCall(op, o, q)
           b == Call(op, "program", o[1], o[2], q[1])
<1>1. Fields \subseteq DOMAIN c /\ c.op = op /\ c.mode = "program" /\ c.path = q[1] /\ c.dst = q[2] /\ c.was = os
  <2>1. DOMAIN b = Fields /\ b.op = op /\ b.mode = "program" /\ b.path = q[1] /\ b.was = os
    BY DEF Call, Fields
  <2>2. c = [b EXCEPT !.dst = q[2]]
    BY DEF CopyCall
  <2> HIDE DEF b, c
  <2> QED
    BY <2>1, <2>2 DEF Fields
<1>2. op = "copy" => /\ {"op", "path", "dst", "rest", "fd", "dfd"} \subseteq DOMAIN f /\ f.op = "copy"
                     /\ f.path = q[1] /\ f.dst = q[2] /\ f.rest = <<>> /\ f.fd = 0 /\ f.dfd = 0
  BY DEF CopyFrame
<1>3. <<>> \in Seq(Nat)
  OBVIOUS
<1> HIDE DEF c
<1>4. BytesOf(f, os)
  BY <1>2, <1>3 DEF BytesOf
<1>5. OfCall(f, c)
  BY <1>1, <1>2 DEF OfCall
<1>6. WholeOf(f, os, c)
  BY <1>1, <1>2 DEF WholeOf, CopyGoes, Untouched
<1> QED
  BY <1>1, <1>4, <1>5, <1>6 DEF Starts, c

LEMMA CallLongFine ==
  ASSUME Sound, CallLong
  PROVE  Fine
<1>1. os' = os /\ UNCHANGED <<rs, ws, immediates>>
  BY DEF CallLong
<1>2. StreamsAre(rs', ws', immediates')
  BY <1>1, StreamsInvIs DEF Sound, Calm
<1>3. ASSUME NEW c, NEW f, Begin(c, f), Starts(c, f, "program") PROVE Fine
  <2>1. Origin(c, rs', ws')
    BY <1>3 DEF Origin, Starts
  <2> QED
    BY <1>1, <1>2, <1>3, <2>1, BeginsFine DEF Starts
<1>4. PICK o \in Options, p \in Paths, c \in Copies, flag \in {"w", "a"} : LongCall(o, p, c, flag)
  BY DEF CallLong
<1>5. Starts(ReadCall("program", p), ReadFrame(p), "program")
  BY ReadCallIs, Zenon
<1>6. Starts(WriteCall("program", p, Bytes, flag), WriteFrame(p, Bytes, flag), "program")
  <2>1. Bytes \in Seq(Nat)
    BY FileSystemAssumption
  <2> QED
    BY <2>1, WriteCallIs, Zenon
<1>7. Starts(Call("mkdir", "program", FALSE, TRUE, p), MkdirFrame(p), "program")
  <2>1. MkdirFrame(p).op \notin {"read", "write", "copy"}
    BY DEF MkdirFrame
  <2>2. "mkdir" \in {"mkdir", "rm", "http"} /\ "rm" \in {"mkdir", "rm", "http"} /\ "rm" # "mkdir"
    OBVIOUS
  <2>3. p \in Seq(STRING)
    BY FileSystemAssumption
  <2> QED
    BY <2>1, <2>2, <2>3, PathCallIs, Zenon
<1>8. Starts(Call("rm", "program", o[1], o[2], p), RmFrame(p), "program")
  <2>1. RmFrame(p).op \notin {"read", "write", "copy"}
    BY DEF RmFrame
  <2>2. "mkdir" \in {"mkdir", "rm", "http"} /\ "rm" \in {"mkdir", "rm", "http"} /\ "rm" # "mkdir"
    OBVIOUS
  <2>3. p \in Seq(STRING)
    BY FileSystemAssumption
  <2> QED
    BY <2>1, <2>2, <2>3, PathCallIs, Zenon
<1>9. Starts(CopyCall("copy", <<FALSE, FALSE>>, c), CopyFrame(c[1], c[2]), "program")
  BY CopyCallIs
<1>10. Starts(CopyCall("cp", o, c), CpFrame(c[1], c[2]), "program")
  <2>1. CpFrame(c[1], c[2]).op = "cp"
    BY DEF CpFrame
  <2> QED
    BY <2>1, CopyCallIs
<1> QED
  BY <1>3, <1>4, <1>5, <1>6, <1>7, <1>8, <1>9, <1>10 DEF LongCall

LEMMA StreamCallsFine ==
  ASSUME Sound, CreateReadStream \/ DestroyReadStream \/ CreateWriteStream \/ WriteAndEnd
  PROVE  Fine
<1>1. stack = <<>> /\ stack' = <<>> /\ api' = api /\ os' = os
  BY DEF CreateReadStream, DestroyReadStream, CreateWriteStream, WriteAndEnd
<1>2. StreamsAre(rs, ws, immediates) /\ api = NoCall
  BY <1>1, StreamsInvIs DEF Sound, Calm, CallInv
<1>3. NoStream.at = "none"
  BY DEF NoStream
<1>4. (rs.at = "open" => IsReader(rs)) /\ (ws.at = "open" => IsWriter(ws))
  BY <1>2, <1>3 DEF StreamsAre
<1>5. CASE CreateReadStream
  <2>1. PICK p \in Paths, start \in 0..1, piped \in BOOLEAN :
          /\ piped => ws.at = "open" /\ ~ws.ending
          /\ rs' = [at |-> "open", path |-> p, start |-> start, piped |-> piped,
                    data |-> <<>>, pos |-> 0, out |-> <<>>]
    BY <1>5 DEF CreateReadStream
  <2>2. IsReader(rs') /\ rs'.piped = piped
    <3>1. <<>> \in Seq(Nat)
      OBVIOUS
    <3> QED
      BY <2>1, <3>1 DEF IsReader
  <2>3. StreamsAre(rs', ws, immediates)
    BY <1>2, <1>4, <2>1, <2>2, OtherStreams
  <2>4. immediates' = Append(immediates, "open") /\ ws' = ws
    BY <1>5 DEF CreateReadStream
  <2>5. StreamsAre(rs', ws', immediates')
    BY <2>2, <2>3, <2>4, QueueIs
  <2> QED
    BY <1>1, <1>2, <2>5, IdleIsCalm, IdleIsFine DEF Sound
<1>6. CASE DestroyReadStream
  <2>1. IsReader(rs) /\ rs' = [rs EXCEPT !.at = "destroyed"] /\ UNCHANGED <<ws, immediates>>
    BY <1>4, <1>6 DEF DestroyReadStream
  <2>2. IsReader(rs') /\ rs'.piped = rs.piped
    BY <2>1, ReadersAre
  <2>3. StreamsAre(rs', ws', immediates')
    BY <1>2, <2>1, <2>2, OtherStreams
  <2> QED
    BY <1>1, <1>2, <2>3, IdleIsCalm, IdleIsFine DEF Sound
<1>7. CASE CreateWriteStream
  <2>1. IsWriter(ws') /\ UNCHANGED <<rs, immediates>>
    <3>1. <<>> \in Seq(Nat)
      OBVIOUS
    <3> QED
      BY <1>7, <3>1 DEF CreateWriteStream, IsWriter
  <2>2. StreamsAre(rs', ws', immediates')
    BY <1>2, <2>1, OtherStreams
  <2> QED
    BY <1>1, <1>2, <2>2, IdleIsCalm, IdleIsFine DEF Sound
<1>8. CASE WriteAndEnd
  <2>1. /\ IsWriter(ws) /\ rs' = rs /\ immediates' = Append(immediates, "flush")
        /\ ws' = [ws EXCEPT !.parts = ws.parts \o Bytes, !.ending = TRUE]
    BY <1>4, <1>8 DEF WriteAndEnd
  <2>2. ws.parts \o Bytes \in Seq(Nat)
    BY <2>1, FileSystemAssumption DEF IsWriter
  <2>3. IsWriter(ws')
    BY <2>1, <2>2, WritersAre
  <2>4. StreamsAre(rs', ws', immediates')
    BY <1>2, <2>1, <2>3, OtherStreams, QueueIs
  <2> QED
    BY <1>1, <1>2, <2>4, IdleIsCalm, IdleIsFine DEF Sound
<1> QED
  BY <1>5, <1>6, <1>7, <1>8

LEMMA ImmediateFine ==
  ASSUME Sound, Immediate
  PROVE  Fine
<1>1. stack = <<>> /\ os' = os /\ immediates # <<>>
  BY DEF Immediate
<1>2. /\ StreamsAre(rs, ws, immediates) /\ api = NoCall
      /\ StreamsAre(rs, ws, Tail(immediates))
      /\ Head(immediates) \in {"open", "chunk"} => IsReader(rs)
      /\ Head(immediates) = "flush" => IsWriter(ws)
  BY <1>1, StreamsInvIs, QueueIs DEF Sound, Calm, CallInv
<1>3. CASE immediates' = Tail(immediates) /\ UNCHANGED <<stack, api, rs, ws>>
  BY <1>1, <1>2, <1>3, IdleIsCalm, IdleIsFine DEF Sound
<1>4. CASE /\ Head(immediates) = "open"
           /\ Begin(ReadCall("read stream", rs.path), ReadFrame(rs.path))
           /\ immediates' = Tail(immediates) /\ UNCHANGED <<rs, ws>>
  <2> DEFINE c == ReadCall("read stream", rs.path)
             f == ReadFrame(rs.path)
  <2>1. Starts(c, f, "read stream")
    BY ReadCallIs
  <2>2. Begin(c, f)
    BY <1>4
  <2> HIDE DEF c, f
  <2>3. Origin(c, rs', ws') /\ StreamsAre(rs', ws', immediates')
    BY <1>2, <1>4, <2>1 DEF Origin, Starts
  <2> QED
    BY <1>1, <2>1, <2>2, <2>3, BeginsFine DEF Starts
<1>5. CASE /\ Head(immediates) = "flush"
           /\ Begin(WriteCall("write stream", ws.path, ws.parts, ws.flag),
                    WriteFrame(ws.path, ws.parts, ws.flag))
           /\ immediates' = Tail(immediates) /\ UNCHANGED <<rs, ws>>
  <2> DEFINE c == WriteCall("write stream", ws.path, ws.parts, ws.flag)
             f == WriteFrame(ws.path, ws.parts, ws.flag)
  <2>1. ws.parts \in Seq(Nat)
    BY <1>2, <1>5 DEF IsWriter
  <2>2. Starts(c, f, "write stream")
    BY <2>1, WriteCallIs
  <2>3. Begin(c, f)
    BY <1>5
  <2> HIDE DEF c, f
  <2>4. Origin(c, rs', ws') /\ StreamsAre(rs', ws', immediates')
    BY <1>2, <1>5, <2>2 DEF Origin, Starts
  <2> QED
    BY <1>1, <2>2, <2>3, <2>4, BeginsFine DEF Starts
<1>6. CASE Head(immediates) = "chunk" /\ EmitChunk(rs, Tail(immediates)) /\ UNCHANGED <<stack, api>>
  <2>1. rs.piped => IsWriter(ws)
    BY <1>2, <1>6, OtherStreams
  <2>2. StreamsAre(rs', ws', immediates')
    BY <1>2, <1>6, <2>1, EmitKeeps
  <2> QED
    BY <1>1, <1>2, <1>6, <2>2, IdleIsCalm, IdleIsFine DEF Sound
<1> QED
  BY <1>3, <1>4, <1>5, <1>6, Zenon DEF Immediate

----------------------------------------------------------------------------
(* Other processes, and the disk *)
\* What a call has done rests on the names, the bytes and the descriptors alone.
LEMMA SameWhole ==
  ASSUME NEW k, NEW j, j.tree = k.tree, j.data = k.data, j.fds = k.fds, NEW f, NEW call
  PROVE  /\ BytesOf(f, k) => BytesOf(f, j)
         /\ WholeOf(f, k, call) => WholeOf(f, j, call)
<1>1. \A p : At(j, p) = At(k, p)
  BY SameTree
<1>2. BytesOf(f, k) => BytesOf(f, j)
  BY DEF BytesOf
<1>3. WholeOf(f, k, call) => WholeOf(f, j, call)
  <2>1. WriteGoes(f, k, call) => WriteGoes(f, j, call)
    BY <1>1 DEF WriteGoes, Untouched
  <2>2. CopyGoes(f, k, call) => CopyGoes(f, j, call)
    <3>1. Untouched(k, call) => Untouched(j, call)
      BY DEF Untouched
    <3>2. Copied(f, k, call) => Copied(f, j, call)
      BY <1>1 DEF Copied
    <3> QED
      BY <3>1, <3>2 DEF CopyGoes
  <2> QED
    BY <2>1, <2>2 DEF WholeOf
<1> QED
  BY <1>2, <1>3

LEMMA DiskFillsFine ==
  ASSUME Sound, DiskFills
  PROVE  Fine
<1>1. stack # <<>> /\ UNCHANGED <<stack, api, immediates, rs, ws>> /\ os' = [os EXCEPT !.full = TRUE] /\ IsDisk(os)
  BY DEF DiskFills, Sound
<1>2. os'.tree = os.tree /\ os'.data = os.data /\ os'.fds = os.fds /\ {"tree", "data", "fds", "full"} \subseteq DOMAIN os'
  BY <1>1 DEF IsDisk
<1>3. IsDisk(os')
  BY <1>1, <1>2 DEF IsDisk
<1>4. Top' = Top
  BY <1>1 DEF Top
<1>5. StreamsInv'
  BY <1>1, StreamsInvIs DEF Sound, Calm
<1>6. BytesInv'
  BY <1>1, <1>2, <1>4, SameWhole DEF BytesInv, Sound, Calm
<1>7. CallInv'
  BY <1>1, <1>4 DEF CallInv, Sound, Calm
<1>8. WholeInv'
  BY <1>1, <1>2, <1>4, SameWhole DEF WholeInv, Sound, Calm
<1>9. Kept
  BY <1>1 DEF Kept, Succeeds
<1> QED
  BY <1>3, <1>5, <1>6, <1>7, <1>8, <1>9 DEF Fine, Calm

\* From here on nothing is promised of the call.
LEMMA MeddledIs ==
  ASSUME Sound, stack # <<>>
  PROVE  LET a == [api EXCEPT !.meddled = TRUE] IN
         /\ a.meddled /\ a # NoCall /\ Fields \subseteq DOMAIN a /\ a.op = api.op /\ a.mode = api.mode
         /\ \A f : OfCall(f, api) => OfCall(f, a)
<1> DEFINE a == [api EXCEPT !.meddled = TRUE]
<1>1. Fields \subseteq DOMAIN api
  BY TopIsOfCall DEF Sound, Calm
<1>2. a.meddled /\ Fields \subseteq DOMAIN a /\ \A x \in Fields : x # "meddled" => a[x] = api[x]
  BY <1>1 DEF Fields
<1>3. a.op = api.op /\ a.mode = api.mode /\ a.path = api.path /\ a.dst = api.dst /\ a.bytes = api.bytes
      /\ a.flag = api.flag
  BY <1>2 DEF Fields
<1>4. a # NoCall
  <2>1. "mode" \in DOMAIN a /\ ~("mode" \in DOMAIN NoCall)
    BY <1>2 DEF Fields, NoCall
  <2> QED
    BY <2>1
<1> HIDE DEF a
<1>5. \A f : OfCall(f, api) => OfCall(f, a)
  BY <1>3 DEF OfCall
<1> QED
  BY <1>2, <1>3, <1>4, <1>5 DEF a

\* What another process makes of the files.
LEMMA OthersFiles ==
  ASSUME Sound, Meddle
  PROVE  \E k : IsDisk(k) /\ os' = [k EXCEPT !.fds = os.fds]
<1> DEFINE flags == {"write", "creat", "excl"}
<1>1. IsDisk(os) /\ IsKernel(os)
  BY DEF Sound, FdInv
<1>2. PICK p \in Paths : \E r \in {UnlinkSync(p), Mkdir(p), TruncateSync(p), KOpen(os, p, flags)} :
                           os' = [r.k EXCEPT !.fds = os.fds]
  BY DEF Meddle
<1>3. PICK r \in {UnlinkSync(p), Mkdir(p), TruncateSync(p), KOpen(os, p, flags)} :
        os' = [r.k EXCEPT !.fds = os.fds]
  BY <1>2
<1>4. Keeps(r)
  <2>1. flags \in SUBSET Modes /\ flags # {"closed"}
    <3>1. "write" # "closed"
      OBVIOUS
    <3> QED
      BY <3>1 DEF Modes
  <2> HIDE DEF flags
  <2>2. Keeps(KOpen(os, p, flags))
    BY <1>1, <2>1, KOpenKeepsDisk DEF Keeps
  <2>3. \A x \in {UnlinkSync(p), Mkdir(p), TruncateSync(p)} : Keeps(x)
    BY <1>1, PathCallsKeepDisk DEF OnPath
  <2> QED
    BY <1>3, <2>2, <2>3
<1> QED
  BY <1>3, <1>4 DEF Keeps

LEMMA MeddleFine ==
  ASSUME Sound, Meddle
  PROVE  Fine
<1> DEFINE a == [api EXCEPT !.meddled = TRUE]
<1>1. stack # <<>> /\ UNCHANGED <<stack, immediates, rs, ws>> /\ IsDisk(os) /\ IsKernel(os)
  BY DEF Meddle, Sound, FdInv
<1>2. api # NoCall
  BY <1>1, TopIsOfCall DEF Sound, Calm
<1>3. api' = a
  BY <1>2 DEF Meddle
<1>4. PICK k : IsDisk(k) /\ os' = [k EXCEPT !.fds = os.fds]
  BY OthersFiles
<1>7. /\ {"tree", "data", "fds", "full"} \subseteq DOMAIN os' /\ os'.fds = os.fds
      /\ os'.tree = k.tree /\ os'.data = k.data
  BY <1>4 DEF IsDisk
<1>8. IsDisk(os')
  BY <1>1, <1>4, <1>7 DEF IsDisk
<1>9. Top' = Top
  BY <1>1 DEF Top
<1>10. /\ a.meddled /\ a # NoCall /\ Fields \subseteq DOMAIN a /\ a.op = api.op /\ a.mode = api.mode
       /\ \A f : OfCall(f, api) => OfCall(f, a)
  BY <1>1, MeddledIs
<1> HIDE DEF a
<1>11. StreamsInv'
  BY <1>1, <1>3, <1>10, StreamsInvIs DEF Sound, Calm, Origin
<1>12. BytesInv'
  BY <1>1, <1>7, <1>9 DEF BytesInv, BytesOf, Sound, Calm
<1>13. CallInv'
  BY <1>1, <1>3, <1>9, <1>10 DEF CallInv, Sound, Calm
<1>14. WholeInv'
  BY <1>3, <1>10 DEF WholeInv
<1>15. Kept
  BY <1>3, <1>10 DEF Kept, Succeeds
<1> QED
  BY <1>8, <1>11, <1>12, <1>13, <1>14, <1>15 DEF Fine, Calm

----------------------------------------------------------------------------
(* writeFileSync and appendFileSync do all of it *)
\* What a path leads to has these bytes.
LEMMA ContentIs ==
  ASSUME NEW k, NEW p
  PROVE  /\ \A i : At(k, p) = File(i) => Content(k, p) = k.data[i]
         /\ At(k, p) \in {Absent, Dir} => Content(k, p) = <<>>
<1>1. Absent.kind # "file" /\ Dir.kind # "file" /\ \A i : File(i).kind = "file" /\ File(i).ino = i
  BY DEF Absent, Dir, File
<1> QED
  BY <1>1 DEF Content

LEMMA UntouchedIs ==
  ASSUME NEW k, NEW call, Untouched(k, call)
  PROVE  \A p : At(k, p) = At(call.was, p) /\ Content(k, p) = Content(call.was, p)
<1>1. \A p : At(k, p) = At(call.was, p)
  BY SameTree DEF Untouched
<1> QED
  BY <1>1 DEF Content, Untouched

LEMMA FdIs == \A i, flags : Fd(i, flags).ino = i /\ Fd(i, flags).pos = 0 /\ Fd(i, flags).flags = flags
BY DEF Fd

LEMMA NewNameLeads ==
  ASSUME NEW k, NEW j, NEW p, NEW e, Adds(k, j, Real(k, p), e)
  PROVE  At(j, p) = e
BY NewName

\* A file that was opened to be written: a new one, or the old one.
WritesTo(k, f, i, p, flags) ==
  /\ f \in Fds \ Open(os) /\ f # 0 /\ k.fds = [os.fds EXCEPT ![f] = Fd(i, flags)]
  /\ At(k, p) = File(i) /\ \A x \in Inodes \cup {0} : x # i => k.data[x] = os.data[x]
  /\ \/ At(os, p) = Absent /\ i \notin Used(os) /\ k.data[i] = <<>>
     \/ At(os, p) = File(i) /\ k.data[i] = IF "trunc" \in flags THEN <<>> ELSE os.data[i]
LEMMA OpenedToWrite ==
  ASSUME IsDisk(os), IsKernel(os), NEW p, NEW flags \in SUBSET Modes, flags # {"closed"}, "write" \in flags,
         KOpen(os, p, flags).err = ""
  PROVE  \E i \in Inodes : WritesTo(KOpen(os, p, flags).k, NewFd(KOpen(os, p, flags)), i, p, flags)
<1> DEFINE r == KOpen(os, p, flags)
           q == Real(os, p)
<1>1. PICK i \in Inodes \cup {0} :
        /\ r.k.fds = [os.fds EXCEPT ![NewFd(r)] = Fd(i, flags)]
        /\ OpensNew(r.k, q, i) \/ OpensOld(r.k, q, i, flags)
  BY KOpenKeepsDisk
<1>2. NewFd(r) \in Fds \ Open(os) /\ NewFd(r) # 0
  BY KOpenIs, FileSystemAssumption
<1>3. File(i).kind # "link" /\ os.data \in [Inodes \cup {0} -> Seq(Nat)]
  BY DEF File, IsDisk
<1>4. At(os, p) = Entry(os, q)
  BY DEF At
<1> HIDE DEF r
<1>5. CASE OpensNew(r.k, q, i)
  <2>1. /\ q \notin DOMAIN os.tree /\ i \in Inodes /\ i \notin Used(os)
        /\ r.k.tree = [x \in DOMAIN os.tree \cup {q} |-> IF x = q THEN File(i) ELSE os.tree[x]]
        /\ r.k.data = [os.data EXCEPT ![i] = <<>>]
    BY <1>5 DEF OpensNew
  <2>2. At(r.k, p) = File(i)
    <3>1. Adds(os, r.k, Real(os, p), File(i))
      BY <1>3, <2>1 DEF Adds
    <3> QED
      BY <3>1, NewNameLeads, Zenon
  <2>3. At(os, p) = Absent
    BY <1>4, <2>1 DEF Entry
  <2>4. r.k.data[i] = <<>> /\ \A x \in Inodes \cup {0} : x # i => r.k.data[x] = os.data[x]
    BY <1>3, <2>1
  <2> QED
    BY <1>1, <1>2, <2>1, <2>2, <2>3, <2>4 DEF WritesTo, r
<1>6. CASE OpensOld(r.k, q, i, flags)
  <2>1. /\ q \in DOMAIN os.tree /\ i \in Inodes /\ os.tree[q] = File(i) /\ r.k.tree = os.tree
        /\ r.k.data = IF "trunc" \in flags THEN [os.data EXCEPT ![i] = <<>>] ELSE os.data
    BY <1>6 DEF OpensOld
  <2>2. At(os, p) = File(i)
    BY <1>4, <2>1 DEF Entry
  <2>3. At(r.k, p) = File(i)
    BY <2>1, <2>2, SameTree
  <2>4. /\ r.k.data[i] = IF "trunc" \in flags THEN <<>> ELSE os.data[i]
        /\ \A x \in Inodes \cup {0} : x # i => r.k.data[x] = os.data[x]
    BY <1>3, <2>1
  <2> QED
    BY <1>1, <1>2, <2>1, <2>2, <2>3, <2>4 DEF WritesTo, r
<1> QED
  BY <1>1, <1>5, <1>6

LEMMA TheFlags ==
  /\ ParseOpenFlags["w"] = {"write", "creat", "trunc"} /\ ParseOpenFlags["a"] = {"write", "creat", "append"}
  /\ \A s \in {"w", "a"} :
       /\ "write" \in ParseOpenFlags[s] /\ ParseOpenFlags[s] \in SUBSET Modes /\ ParseOpenFlags[s] # {"closed"}
       /\ "append" \in ParseOpenFlags[s] <=> s = "a"
       /\ "trunc" \in ParseOpenFlags[s] <=> s = "w"
<1>1. ParseOpenFlags["w"] = {"write", "creat", "trunc"} /\ ParseOpenFlags["a"] = {"write", "creat", "append"}
  BY Zenon DEF ParseOpenFlags
<1>2. \A s \in {"w", "a"} : ParseOpenFlags[s] \in SUBSET Modes /\ ParseOpenFlags[s] # {"closed"}
  BY FlagsAre
<1> QED
  BY <1>1, <1>2

LEMMA WriteTop ==
  ASSUME Sound, stack # <<>>, Top.op = "write"
  PROVE  /\ IsDisk(os) /\ IsKernel(os) /\ BytesOf(Top, os)
         /\ {"op", "fd", "flag", "rest"} \subseteq DOMAIN Top /\ Top.rest \in Seq(Nat) /\ Top.flag \in {"w", "a"}
         /\ Top.fd # 0 => Top.fd \in Fds /\ "write" \in os.fds[Top.fd].flags /\ os.fds[Top.fd].ino \in Inodes
         /\ api.op \notin Flat \/ (api.op = "write" /\ Top.path = api.path /\ Top.flag = api.flag /\ api.bytes \in Seq(Nat))
         /\ api.op = "write" /\ ~api.meddled => WriteGoes(Top, os, api)
<1>1. IsFrame(Top) /\ IsDisk(os) /\ IsKernel(os) /\ BytesOf(Top, os) /\ OfCall(Top, api)
  BY TopIs, TopIsOfCall DEF Sound, Calm, BytesInv, FdInv
<1>2. ~api.meddled => WholeOf(Top, os, api)
  BY DEF Sound, Calm, WholeInv
<1>3. {"op", "fd", "flag", "rest"} \subseteq DOMAIN Top /\ Top.rest \in Seq(Nat) /\ Top.flag \in {"w", "a"}
      /\ Top.fd \in Fds \cup {0}
  BY <1>1 DEF IsFrame, BytesOf
<1>4. Top.fd # 0 => Top.fd \in Fds /\ "write" \in os.fds[Top.fd].flags
  BY <1>1, <1>3 DEF BytesOf
<1>5. Top.fd # 0 => os.fds[Top.fd].ino \in Inodes
  BY <1>1, <1>4 DEF IsDisk
<1>6. api.op \notin Flat \/ (api.op = "write" /\ Top.path = api.path /\ Top.flag = api.flag /\ api.bytes \in Seq(Nat))
  BY <1>1 DEF OfCall, Flat
<1>7. api.op = "write" /\ ~api.meddled => WriteGoes(Top, os, api)
  BY <1>2 DEF WholeOf
<1> QED
  BY <1>1, <1>3, <1>4, <1>5, <1>6, <1>7

\* The frame of a write with another descriptor, or less to write.
LEMMA WriteGoesOn ==
  ASSUME Sound, stack # <<>>, Top.op = "write", Going, IsDisk(os'), NEW f, Change(f),
         (\E g : f = [Top EXCEPT !.fd = g]) \/ \E x : f = [Top EXCEPT !.rest = x],
         f.rest \in Seq(Nat), f.fd # 0 => "write" \in os'.fds[f.fd].flags,
         api.op = "write" /\ ~api.meddled => WriteGoes(f, os', api)
  PROVE  Fine
<1>1. /\ {"op", "fd", "flag", "rest"} \subseteq DOMAIN Top
      /\ api.op \notin Flat \/ (api.op = "write" /\ Top.path = api.path /\ Top.flag = api.flag /\ api.bytes \in Seq(Nat))
  BY WriteTop
<1>2. OfCall(Top, api)
  BY TopIsOfCall DEF Sound, Calm
<1>3. f.op = "write" /\ DOMAIN f = DOMAIN Top /\ f.flag = Top.flag
      /\ ("path" \in DOMAIN Top => f.path = Top.path)
  BY <1>1
<1>4. BytesOf(f, os')
  BY <1>1, <1>3 DEF BytesOf
<1>5. CASE api.op \notin Flat
  BY <1>4, <1>5, NotFlat, GoesFine
<1>6. CASE api.op = "write" /\ Top.path = api.path /\ Top.flag = api.flag /\ api.bytes \in Seq(Nat)
  <2>1. {"op", "path"} \subseteq DOMAIN Top
    BY <1>2, <1>6 DEF OfCall
  <2>2. OfCall(f, api)
    BY <1>3, <1>6, <2>1 DEF OfCall
  <2>3. ~api.meddled => WholeOf(f, os', api)
    BY <1>6 DEF WholeOf
  <2> QED
    BY <1>4, <2>2, <2>3, GoesFine
<1> QED
  BY <1>1, <1>5, <1>6

LEMMA WriteOpensFine ==
  ASSUME Sound, WriteOpens
  PROVE  Fine
<1> DEFINE flags == ParseOpenFlags[Top.flag]
           r == KOpen(os, Top.path, flags)
           f == [Top EXCEPT !.fd = NewFd(r)]
<1>1. /\ stack # <<>> /\ Top.op = "write" /\ Top.fd = 0
      /\ IF r.err # "" THEN os' = os /\ Throw(r.err) ELSE os' = r.k /\ Change(f) /\ Going
  BY DEF WriteOpens
<1>2. /\ IsDisk(os) /\ IsKernel(os) /\ {"op", "fd", "flag", "rest"} \subseteq DOMAIN Top
      /\ Top.rest \in Seq(Nat) /\ Top.flag \in {"w", "a"}
      /\ api.op \notin Flat \/ (api.op = "write" /\ Top.path = api.path /\ Top.flag = api.flag /\ api.bytes \in Seq(Nat))
      /\ api.op = "write" /\ ~api.meddled => WriteGoes(Top, os, api)
  BY <1>1, WriteTop
<1>3. /\ "write" \in flags /\ flags \in SUBSET Modes /\ flags # {"closed"}
      /\ "append" \in flags <=> Top.flag = "a"
      /\ "trunc" \in flags <=> Top.flag = "w"
  BY <1>2, TheFlags
<1> HIDE DEF flags
<1>4. IsDisk(r.k)
  BY <1>2, <1>3, KOpenKeepsDisk
<1>5. CASE r.err # ""
  <2> HIDE DEF r
  <2> QED
    BY <1>1, <1>2, <1>5, ThrowFine
<1>6. CASE r.err = ""
  <2>1. PICK i \in Inodes : WritesTo(r.k, NewFd(r), i, Top.path, flags)
    BY <1>2, <1>3, <1>6, OpenedToWrite
  <2> DEFINE g == NewFd(r)
  <2>2. os' = r.k /\ Change(f) /\ Going
    BY <1>1, <1>6
  <2> HIDE DEF r
  <2>3. g \in Fds /\ g # 0 /\ os'.fds[g] = Fd(i, flags)
    BY <1>2, <2>1, <2>2 DEF WritesTo, IsDisk
  <2> HIDE DEF g
  <2>4. f = [Top EXCEPT !.fd = g] /\ f.fd = g /\ f.rest = Top.rest
    BY <1>2 DEF g
  <2> HIDE DEF f
  <2>5. ASSUME api.op = "write", ~api.meddled PROVE WriteGoes(f, os', api)
    <3> DEFINE before == IF api.flag = "a" THEN Content(api.was, api.path) ELSE <<>>
    <3>1. Top.path = api.path /\ Top.flag = api.flag /\ Untouched(os, api) /\ Top.rest = api.bytes
      BY <1>1, <1>2, <2>5 DEF Flat, WriteGoes
    <3>2. Content(api.was, api.path) = Content(os, api.path)
      BY <3>1, UntouchedIs
    <3>3. os'.data[i] = before /\ At(os', api.path) = File(i)
      <4>1. CASE At(os, api.path) = Absent /\ os'.data[i] = <<>>
        BY <2>1, <2>2, <3>1, <3>2, <4>1, ContentIs DEF WritesTo
      <4>2. CASE At(os, api.path) = File(i) /\ os'.data[i] = IF "trunc" \in flags THEN <<>> ELSE os.data[i]
        <5>1. Content(os, api.path) = os.data[i]
          BY <4>2, ContentIs
        <5>2. At(os', api.path) = File(i)
          BY <2>1, <2>2, <3>1 DEF WritesTo
        <5>3. "trunc" \in flags <=> api.flag # "a"
          BY <1>2, <1>3, <3>1
        <5> QED
          BY <3>2, <4>2, <5>1, <5>2, <5>3
      <4> QED
        BY <2>1, <2>2, <3>1, <4>1, <4>2 DEF WritesTo
    <3>4. "append" \in os'.fds[f.fd].flags \/ os'.fds[f.fd].pos = Len(os'.data[i])
      <4>1. CASE api.flag = "a"
        BY <1>3, <2>3, <2>4, <3>1, <4>1, FdIs
      <4>2. CASE api.flag # "a"
        <5>1. os'.data[i] = <<>> /\ Len(<<>>) = 0
          BY <3>3, <4>2
        <5> QED
          BY <2>3, <2>4, <5>1, FdIs
      <4> QED
        BY <4>1, <4>2
    <3>5. os'.fds[f.fd].ino = i
      BY <2>3, <2>4, FdIs
    <3> QED
      BY <2>3, <2>4, <3>1, <3>3, <3>4, <3>5 DEF WriteGoes
  <2>6. "write" \in os'.fds[f.fd].flags
    BY <1>3, <2>3, <2>4, FdIs
  <2>7. f.rest \in Seq(Nat) /\ (\E x : f = [Top EXCEPT !.fd = x])
    BY <1>2, <2>4
  <2> QED
    BY <1>1, <1>4, <2>2, <2>5, <2>6, <2>7, WriteGoesOn
<1> QED
  BY <1>5, <1>6

LEMMA WriteWritesFine ==
  ASSUME Sound, WriteWrites
  PROVE  Fine
<1>1. stack # <<>> /\ Top.op = "write" /\ Top.fd # 0 /\ Top.rest # <<>>
  BY DEF WriteWrites
<1>2. /\ IsDisk(os) /\ IsKernel(os) /\ {"op", "fd", "flag", "rest"} \subseteq DOMAIN Top
      /\ Top.rest \in Seq(Nat) /\ Top.flag \in {"w", "a"}
      /\ Top.fd \in Fds /\ "write" \in os.fds[Top.fd].flags /\ os.fds[Top.fd].ino \in Inodes
      /\ api.op \notin Flat \/ (api.op = "write" /\ Top.path = api.path /\ Top.flag = api.flag /\ api.bytes \in Seq(Nat))
      /\ api.op = "write" /\ ~api.meddled => WriteGoes(Top, os, api)
  BY <1>1, WriteTop
<1>3. CASE os' = KClose(os, Top.fd) /\ Throw("ENOSPC")
  <2>1. IsDisk(os') /\ "ENOSPC" # ""
    BY <1>2, <1>3, CloseKeepsDisk
  <2> QED
    BY <1>1, <1>3, <2>1, ThrowFine
<1>4. CASE \E n \in 1..Len(Top.rest) :
             /\ os' = KWrite(os, Top.fd, SubSeq(Top.rest, 1, n))
             /\ Change([Top EXCEPT !.rest = Advance(n, @)]) /\ Going
  <2>1. PICK n \in 1..Len(Top.rest) :
             /\ os' = KWrite(os, Top.fd, SubSeq(Top.rest, 1, n))
             /\ Change([Top EXCEPT !.rest = Advance(n, @)]) /\ Going
    BY <1>4
  <2> DEFINE cut == SubSeq(Top.rest, 1, n)
             rest == SubSeq(Top.rest, n + 1, Len(Top.rest))
             f == [Top EXCEPT !.rest = rest]
             i == os.fds[Top.fd].ino
             old == os.data[i]
  <2>2. cut \in Seq(Nat) /\ rest \in Seq(Nat) /\ cut \o rest = Top.rest
    BY <1>2, CutAndJoined
  <2>3. os' = KWrite(os, Top.fd, cut) /\ Change(f) /\ Going
    BY <2>1 DEF Advance
  <2> HIDE DEF cut, rest
  <2>4. f.rest = rest /\ f.fd = Top.fd /\ \E x : f = [Top EXCEPT !.rest = x]
    BY <1>2
  <2> HIDE DEF f
  <2>5. /\ IsDisk(os') /\ os'.tree = os.tree
        /\ os'.fds[Top.fd].ino = i /\ os'.fds[Top.fd].flags = os.fds[Top.fd].flags
        /\ "append" \in os.fds[Top.fd].flags \/ os.fds[Top.fd].pos = Len(old) =>
             os'.data[i] = old \o cut /\ os'.fds[Top.fd].pos = Len(old \o cut)
    <3>1. Written(os, os', Top.fd, cut)
      BY <1>2, <2>2, <2>3, WriteKeepsDisk
    <3> QED
      BY <1>2, <3>1 DEF Written
  <2>6. i \in Inodes /\ old \in Seq(Nat)
    BY <1>2 DEF IsDisk
  <2>7. ASSUME api.op = "write", ~api.meddled PROVE WriteGoes(f, os', api)
    <3> DEFINE before == IF api.flag = "a" THEN Content(api.was, api.path) ELSE <<>>
    <3>1. /\ At(os, api.path) = File(i) /\ old \o Top.rest = before \o api.bytes
          /\ "append" \in os.fds[Top.fd].flags \/ os.fds[Top.fd].pos = Len(old)
      BY <1>1, <1>2, <2>7 DEF WriteGoes
    <3>2. At(os', api.path) = File(i)
      BY <2>5, <3>1, SameTree
    <3> HIDE DEF i, old, before
    <3>3. (old \o cut) \o rest = old \o (cut \o rest)
      BY <2>2, <2>6, Joins
    <3>4. os'.data[i] \o f.rest = before \o api.bytes
      BY <2>2, <2>4, <2>5, <3>1, <3>3
    <3>5. "append" \in os'.fds[f.fd].flags \/ os'.fds[f.fd].pos = Len(os'.data[i])
      BY <2>4, <2>5, <3>1
    <3> QED
      BY <1>1, <2>4, <2>5, <3>2, <3>4, <3>5 DEF WriteGoes, before
  <2>8. f.rest \in Seq(Nat) /\ "write" \in os'.fds[f.fd].flags
    BY <1>2, <2>2, <2>4, <2>5
  <2> QED
    BY <1>1, <2>3, <2>4, <2>5, <2>7, <2>8, WriteGoesOn
<1> QED
  BY <1>3, <1>4 DEF WriteWrites

LEMMA WriteDoneFine ==
  ASSUME Sound, WriteDone
  PROVE  Fine
<1>1. stack # <<>> /\ Top.op = "write" /\ Top.fd # 0 /\ Top.rest = <<>> /\ os' = KClose(os, Top.fd) /\ Return
  BY DEF WriteDone
<1>2. /\ IsDisk(os) /\ Top.fd \in Fds /\ os.fds[Top.fd].ino \in Inodes
      /\ api.op \notin Flat \/ (api.op = "write" /\ Top.path = api.path /\ Top.flag = api.flag /\ api.bytes \in Seq(Nat))
      /\ api.op = "write" /\ ~api.meddled => WriteGoes(Top, os, api)
  BY <1>1, WriteTop
<1>3. IsDisk(os') /\ os'.tree = os.tree /\ os'.data = os.data
  BY <1>1, <1>2, CloseKeepsDisk
<1>4. ASSUME api.op \in Flat, ~api.meddled PROVE FileKept(api, os')
  <2> DEFINE i == os.fds[Top.fd].ino
             before == IF api.flag = "a" THEN Content(api.was, api.path) ELSE <<>>
  <2>1. api.op = "write" /\ At(os, api.path) = File(i) /\ os.data[i] \o Top.rest = before \o api.bytes
    BY <1>1, <1>2, <1>4 DEF WriteGoes
  <2>2. os.data[i] \in Seq(Nat)
    BY <1>2 DEF IsDisk
  <2>3. os.data[i] \o <<>> = os.data[i]
    BY <2>2, ConcatEmptySeq
  <2>4. At(os', api.path) = File(i)
    BY <1>3, <2>1, SameTree
  <2>5. Content(os', api.path) = os.data[i]
    BY <1>3, <2>4, ContentIs
  <2>6. Content(os', api.path) = before \o api.bytes
    BY <1>1, <2>1, <2>3, <2>5
  <2> QED
    BY <2>1, <2>6, Zenon DEF FileKept
<1> QED
  BY <1>1, <1>3, <1>4, ReturnFine

----------------------------------------------------------------------------
(* copyFileSync does all of it *)
\* A file, or a directory, that was opened to be read.
ReadsFrom(k, f, i, p) ==
  /\ f \in Fds \ Open(os) /\ f # 0 /\ k.fds = [os.fds EXCEPT ![f] = Fd(i, {"read"})]
  /\ k.tree = os.tree /\ k.data = os.data
  /\ At(os, p) = IF i = 0 THEN Dir ELSE File(i)
LEMMA ReadIsAMode == {"read"} \in SUBSET Modes /\ {"read"} # {"closed"} /\ "write" \notin {"read"} /\ "creat" \notin {"read"}
                     /\ "trunc" \notin {"read"}
<1>1. "read" # "closed"
  OBVIOUS
<1> QED
  BY <1>1 DEF Modes
LEMMA OpenedToRead ==
  ASSUME IsDisk(os), IsKernel(os), NEW p, KOpen(os, p, {"read"}).err = ""
  PROVE  \E i \in Inodes \cup {0} : ReadsFrom(KOpen(os, p, {"read"}).k, NewFd(KOpen(os, p, {"read"})), i, p)
<1> DEFINE flags == {"read"}
           r == KOpen(os, p, flags)
           q == Real(os, p)
<1>0. flags \in SUBSET Modes /\ flags # {"closed"} /\ "creat" \notin flags /\ "trunc" \notin flags
  BY ReadIsAMode
<1> HIDE DEF flags
<1>1. PICK i \in Inodes \cup {0} :
        /\ r.k.fds = [os.fds EXCEPT ![NewFd(r)] = Fd(i, flags)]
        /\ \/ OpensNew(r.k, q, i) /\ "creat" \in flags
           \/ OpensDir(r.k, q, i) /\ "write" \notin flags
           \/ OpensOld(r.k, q, i, flags)
  BY <1>0, KOpenKeepsDisk DEF flags
<1>2. NewFd(r) \in Fds \ Open(os) /\ NewFd(r) # 0
  BY <1>0, KOpenIs, FileSystemAssumption DEF flags
<1>3. At(os, p) = Entry(os, q)
  BY DEF At
<1> HIDE DEF r, q
<1>4. r.k.tree = os.tree /\ r.k.data = os.data /\ At(os, p) = IF i = 0 THEN Dir ELSE File(i)
  BY <1>0, <1>1, <1>3, FileSystemAssumption DEF OpensDir, OpensOld, Entry
<1> QED
  BY <1>1, <1>2, <1>4 DEF ReadsFrom, flags, r

\* A copy whose promise stands: nobody interfered and the files are two.
Copying == api.op = "copy" /\ ~api.meddled /\ At(api.was, api.path) # At(api.was, api.dst)
LEMMA CopyTop ==
  ASSUME Sound, stack # <<>>, Top.op = "copy"
  PROVE  /\ IsDisk(os) /\ IsKernel(os)
         /\ {"op", "fd", "dfd", "rest"} \subseteq DOMAIN Top /\ Top.rest \in Seq(Nat)
         /\ Top.fd \in Fds \cup {0} /\ (Top.fd # 0 => Top.fd \in Open(os))
         /\ Top.dfd # 0 => /\ Top.dfd \in Fds /\ Top.fd \in Fds /\ Top.fd # Top.dfd
                           /\ "write" \in os.fds[Top.dfd].flags /\ os.fds[Top.dfd].ino \in Inodes
         /\ Top.fd = 0 => Top.dfd = 0
         /\ Top.dfd = 0 => Top.rest = <<>>
         /\ api.op \notin Flat \/ (api.op = "copy" /\ Top.path = api.path /\ Top.dst = api.dst)
         /\ Copying => CopyGoes(Top, os, api)
<1>1. IsFrame(Top) /\ IsDisk(os) /\ IsKernel(os) /\ BytesOf(Top, os) /\ OfCall(Top, api)
  BY TopIs, TopIsOfCall DEF Sound, Calm, BytesInv, FdInv
<1>2. ~api.meddled => WholeOf(Top, os, api)
  BY DEF Sound, Calm, WholeInv
<1>3. /\ {"op", "fd", "dfd", "rest"} \subseteq DOMAIN Top /\ Top.rest \in Seq(Nat)
      /\ Top.fd \in Fds \cup {0} /\ Top.dfd \in Fds \cup {0}
      /\ Top.dfd # 0 => Top.fd # 0 /\ Top.fd # Top.dfd
      /\ Top.rest # <<>> => Top.dfd # 0
  BY <1>1 DEF IsFrame, BytesOf
<1>4. Top.dfd # 0 => "write" \in os.fds[Top.dfd].flags
  BY <1>1 DEF BytesOf
<1>5. Top.dfd # 0 => os.fds[Top.dfd].ino \in Inodes
  BY <1>1, <1>3, <1>4 DEF IsDisk
<1>6. Top.fd # 0 => Top.fd \in Open(os)
  BY <1>3 DEF Sound, FdInv, Owned
<1>7. api.op \notin Flat \/ (api.op = "copy" /\ Top.path = api.path /\ Top.dst = api.dst)
  BY <1>1 DEF OfCall, Flat
<1>8. Copying => CopyGoes(Top, os, api)
  BY <1>2 DEF WholeOf, Copying
<1> QED
  BY <1>1, <1>3, <1>4, <1>5, <1>6, <1>7, <1>8

\* The frame of a copy with another descriptor, or another block to write.
LEMMA CopyGoesOn ==
  ASSUME Sound, stack # <<>>, Top.op = "copy", Going, IsDisk(os'), NEW f, Change(f),
         \E g : f = [Top EXCEPT !.fd = g] \/ f = [Top EXCEPT !.dfd = g] \/ f = [Top EXCEPT !.rest = g],
         f.rest \in Seq(Nat), f.dfd # 0 => "write" \in os'.fds[f.dfd].flags,
         Copying => CopyGoes(f, os', api)
  PROVE  Fine
<1>1. /\ {"op", "fd", "dfd", "rest"} \subseteq DOMAIN Top
      /\ api.op \notin Flat \/ (api.op = "copy" /\ Top.path = api.path /\ Top.dst = api.dst)
  BY CopyTop
<1>2. OfCall(Top, api)
  BY TopIsOfCall DEF Sound, Calm
<1>3. f.op = "copy" /\ DOMAIN f = DOMAIN Top
      /\ ("path" \in DOMAIN Top => f.path = Top.path) /\ ("dst" \in DOMAIN Top => f.dst = Top.dst)
  BY <1>1
<1>4. BytesOf(f, os')
  BY <1>1, <1>3 DEF BytesOf
<1>5. CASE api.op \notin Flat
  BY <1>4, <1>5, NotFlat, GoesFine
<1>6. CASE api.op = "copy" /\ Top.path = api.path /\ Top.dst = api.dst
  <2>1. {"op", "path", "dst"} \subseteq DOMAIN Top
    BY <1>2, <1>6 DEF OfCall
  <2>2. OfCall(f, api)
    BY <1>3, <1>6, <2>1 DEF OfCall
  <2>3. ~api.meddled => WholeOf(f, os', api)
    BY <1>6 DEF WholeOf, Copying
  <2> QED
    BY <1>4, <2>2, <2>3, GoesFine
<1> QED
  BY <1>1, <1>5, <1>6

LEMMA CopyOpensFine ==
  ASSUME Sound, CopyOpens
  PROVE  Fine
<1> DEFINE r == KOpen(os, Top.path, {"read"})
           f == [Top EXCEPT !.fd = NewFd(r)]
<1>1. /\ stack # <<>> /\ Top.op = "copy" /\ Top.fd = 0
      /\ IF r.err # "" THEN os' = os /\ Throw(r.err) ELSE os' = r.k /\ Change(f) /\ Going
  BY DEF CopyOpens
<1>2. /\ IsDisk(os) /\ IsKernel(os) /\ {"op", "fd", "dfd", "rest"} \subseteq DOMAIN Top
      /\ Top.rest \in Seq(Nat) /\ Top.dfd = 0
      /\ api.op \notin Flat \/ (api.op = "copy" /\ Top.path = api.path /\ Top.dst = api.dst)
      /\ Copying => CopyGoes(Top, os, api)
  BY <1>1, CopyTop
<1>3. IsDisk(r.k)
  BY <1>2, ReadIsAMode, KOpenKeepsDisk
<1>4. CASE r.err # ""
  <2> HIDE DEF r
  <2> QED
    BY <1>1, <1>2, <1>4, ThrowFine
<1>5. CASE r.err = ""
  <2>1. PICK i \in Inodes \cup {0} : ReadsFrom(r.k, NewFd(r), i, Top.path)
    BY <1>2, <1>5, OpenedToRead
  <2> DEFINE g == NewFd(r)
  <2>2. os' = r.k /\ Change(f) /\ Going
    BY <1>1, <1>5
  <2> HIDE DEF r
  <2>3. g \in Fds /\ g # 0 /\ os'.fds[g] = Fd(i, {"read"})
    BY <1>2, <2>1, <2>2 DEF ReadsFrom, IsDisk
  <2> HIDE DEF g
  <2>4. f = [Top EXCEPT !.fd = g] /\ f.fd = g /\ f.rest = Top.rest /\ f.dfd = 0
    BY <1>2 DEF g
  <2> HIDE DEF f
  <2>5. ASSUME Copying PROVE CopyGoes(f, os', api)
    <3>1. Top.path = api.path /\ Untouched(os, api)
      BY <1>1, <1>2, <2>5 DEF Copying, Flat, CopyGoes
    <3>2. At(api.was, api.path) = IF i = 0 THEN Dir ELSE File(i)
      BY <2>1, <3>1, UntouchedIs DEF ReadsFrom
    <3>3. Untouched(os', api)
      BY <2>1, <2>2, <3>1 DEF ReadsFrom, Untouched
    <3>4. os'.fds[f.fd].ino = i /\ os'.fds[f.fd].pos = 0
      BY <2>3, <2>4, FdIs
    <3> QED
      BY <2>3, <2>4, <3>2, <3>3, <3>4 DEF CopyGoes, IsSource
  <2>6. f.rest \in Seq(Nat) /\ \E x : f = [Top EXCEPT !.fd = x] \/ f = [Top EXCEPT !.dfd = x] \/ f = [Top EXCEPT !.rest = x]
    BY <1>2, <2>4
  <2> QED
    BY <1>1, <1>3, <2>2, <2>4, <2>5, <2>6, CopyGoesOn
<1> QED
  BY <1>4, <1>5

----------------------------------------------------------------------------
LEMMA CopyCreatesFine ==
  ASSUME Sound, CopyCreates
  PROVE  Fine
<1> DEFINE flags == ParseOpenFlags["w"]
           r == KOpen(os, Top.dst, flags)
           f == [Top EXCEPT !.dfd = NewFd(r)]
           d == os.fds[Top.fd]
<1>1. /\ stack # <<>> /\ Top.op = "copy" /\ Top.fd # 0 /\ Top.dfd = 0
      /\ IF r.err # "" THEN os' = KClose(os, Top.fd) /\ Throw(r.err) ELSE os' = r.k /\ Change(f) /\ Going
  BY DEF CopyCreates, OpenFailed
<1>2. /\ IsDisk(os) /\ IsKernel(os) /\ {"op", "fd", "dfd", "rest"} \subseteq DOMAIN Top
      /\ Top.rest = <<>> /\ Top.rest \in Seq(Nat) /\ Top.fd \in Fds /\ Top.fd \in Open(os)
      /\ api.op \notin Flat \/ (api.op = "copy" /\ Top.path = api.path /\ Top.dst = api.dst)
      /\ Copying => CopyGoes(Top, os, api)
  BY <1>1, CopyTop
<1>3. /\ "write" \in flags /\ flags \in SUBSET Modes /\ flags # {"closed"} /\ "trunc" \in flags
  BY TheFlags
<1> HIDE DEF flags
<1>4. IsDisk(r.k)
  BY <1>2, <1>3, KOpenKeepsDisk
<1>5. CASE r.err # ""
  <2> HIDE DEF r
  <2>1. IsDisk(os')
    BY <1>1, <1>2, <1>5, CloseKeepsDisk
  <2> QED
    BY <1>1, <1>5, <2>1, ThrowFine
<1>6. CASE r.err = ""
  <2>1. PICK i \in Inodes : WritesTo(r.k, NewFd(r), i, Top.dst, flags)
    BY <1>2, <1>3, <1>6, OpenedToWrite
  <2> DEFINE g == NewFd(r)
  <2>2. os' = r.k /\ Change(f) /\ Going
    BY <1>1, <1>6
  <2> HIDE DEF r
  <2>3. g \in Fds /\ g # 0 /\ g # Top.fd /\ os'.fds[g] = Fd(i, flags) /\ os'.fds[Top.fd] = d
    BY <1>2, <2>1, <2>2 DEF WritesTo, IsDisk
  <2> HIDE DEF g
  <2>4. f = [Top EXCEPT !.dfd = g] /\ f.fd = Top.fd /\ f.dfd = g /\ f.rest = <<>>
    BY <1>2 DEF g
  <2> HIDE DEF f
  <2>5. ASSUME Copying PROVE CopyGoes(f, os', api)
    <3>1. /\ Top.dst = api.dst /\ Untouched(os, api) /\ IsSource(d, api) /\ d.pos = 0
      BY <1>1, <1>2, <2>5 DEF Copying, Flat, CopyGoes
    <3>2. d.ino \in Inodes \cup {0} /\ d.ino \in Used(os)
      BY <1>2 DEF IsDisk, Used
    <3>3. ASSUME d.ino # 0 PROVE i # d.ino
      <4>1. At(api.was, api.path) = File(d.ino) /\ At(api.was, api.dst) # File(d.ino)
        BY <2>5, <3>1, <3>3 DEF IsSource, Copying
      <4>2. At(os, api.dst) # File(d.ino)
        BY <3>1, <4>1, UntouchedIs
      <4> QED
        BY <2>1, <3>1, <3>2, <4>2 DEF WritesTo
    <3>4. /\ At(os', api.dst) = File(i) /\ os'.data[i] = <<>>
          /\ \A x \in Inodes \cup {0} : x # i => os'.data[x] = os.data[x]
      BY <1>3, <2>1, <2>2, <3>1 DEF WritesTo
    <3>5. os'.fds[f.dfd].ino = i /\ os'.fds[f.dfd].pos = 0
      BY <2>3, <2>4, FdIs
    <3>6. ASSUME d.ino # 0 PROVE Copied(f, os', api)
      <4> DEFINE s == os'.data[d.ino]
      <4>1. s = os.data[d.ino] /\ s = api.was.data[d.ino] /\ s \in Seq(Nat)
        BY <1>2, <3>1, <3>2, <3>3, <3>4, <3>6 DEF Untouched, IsDisk
      <4>2. d.pos <= Len(s) /\ SubSeq(s, 1, d.pos) = <<>>
        BY <3>1, <4>1
      <4>3. os'.data[i] \o f.rest = <<>> /\ Len(os'.data[i]) = 0
        BY <2>4, <3>4
      <4> HIDE DEF s
      <4>4. os'.fds[f.fd] = d
        BY <2>3, <2>4
      <4> HIDE DEF d
      <4> QED
        BY <3>3, <3>4, <3>5, <3>6, <4>1, <4>2, <4>3, <4>4 DEF Copied, s
    <3> QED
      BY <1>1, <2>3, <2>4, <3>1, <3>6 DEF CopyGoes
  <2>6. "write" \in os'.fds[f.dfd].flags
    BY <1>3, <2>3, <2>4, FdIs
  <2>7. f.rest \in Seq(Nat) /\ \E x : f = [Top EXCEPT !.fd = x] \/ f = [Top EXCEPT !.dfd = x] \/ f = [Top EXCEPT !.rest = x]
    BY <1>2, <2>4
  <2> QED
    BY <1>1, <1>4, <2>2, <2>5, <2>6, <2>7, CopyGoesOn
<1> QED
  BY <1>5, <1>6

\* Nothing but the descriptors changes when both are closed.
LEMMA BothClosed ==
  ASSUME IsDisk(os), Top.fd \in Fds, Top.dfd \in Fds
  PROVE  IsDisk(CloseBoth) /\ CloseBoth.tree = os.tree /\ CloseBoth.data = os.data
<1> DEFINE k == KClose(os, Top.fd)
<1>1. IsDisk(k) /\ k.tree = os.tree /\ k.data = os.data
  BY CloseKeepsDisk
<1> HIDE DEF k
<1>2. IsDisk(KClose(k, Top.dfd)) /\ KClose(k, Top.dfd).tree = k.tree /\ KClose(k, Top.dfd).data = k.data
  BY <1>1, CloseKeepsDisk
<1> QED
  BY <1>1, <1>2 DEF CloseBoth, k

\* At the end of the file all of it is in the copy.
LEMMA CopyIsDone ==
  ASSUME Copied(Top, os, api), IsSource(os.fds[Top.fd], api), os.fds[Top.fd].ino # 0, Top.rest = <<>>,
         os.fds[Top.fd].pos = Len(os.data[os.fds[Top.fd].ino]),
         os.data[os.fds[Top.fd].ino] \in Seq(Nat), os.data[os.fds[Top.dfd].ino] \in Seq(Nat),
         NEW k, k.tree = os.tree, k.data = os.data
  PROVE  Content(k, api.dst) = Content(api.was, api.path)
<1> DEFINE d == os.fds[Top.fd]
           e == os.fds[Top.dfd]
           s == os.data[d.ino]
<1>1. /\ s = api.was.data[d.ino] /\ At(os, api.dst) = File(e.ino)
      /\ os.data[e.ino] \o <<>> = SubSeq(s, 1, d.pos)
  BY DEF Copied
<1>2. At(api.was, api.path) = File(d.ino)
  BY DEF IsSource
<1>3. os.data[e.ino] \o <<>> = os.data[e.ino] /\ SubSeq(s, 1, Len(s)) = s
  BY ConcatEmptySeq, SubSeqFull
<1>4. At(k, api.dst) = File(e.ino)
  BY <1>1, SameTree
<1>5. Content(k, api.dst) = os.data[e.ino] /\ Content(api.was, api.path) = api.was.data[d.ino]
  BY <1>2, <1>4, ContentIs
<1> HIDE DEF d, e, s
<1> QED
  BY <1>1, <1>3, <1>5 DEF d, s

----------------------------------------------------------------------------
LEMMA CopyReadsFine ==
  ASSUME Sound, CopyReads
  PROVE  Fine
<1> DEFINE d == os.fds[Top.fd]
           e == os.fds[Top.dfd]
           s == os.data[d.ino]
           block == KRead(os, Top.fd, 2)
           n == d.pos + Len(block)
<1>1. /\ stack # <<>> /\ Top.op = "copy" /\ Top.dfd # 0 /\ Top.rest = <<>>
      /\ \/ d.ino = 0 /\ os' = CloseBoth /\ Throw("EISDIR")
         \/ d.ino # 0 /\ block = <<>> /\ os' = CloseBoth /\ Return
         \/ /\ d.ino # 0 /\ block # <<>> /\ os' = [os EXCEPT !.fds[Top.fd].pos = @ + Len(block)]
            /\ Change([Top EXCEPT !.rest = block]) /\ Going
  BY DEF CopyReads
<1>2. /\ IsDisk(os) /\ {"op", "fd", "dfd", "rest"} \subseteq DOMAIN Top
      /\ Top.dfd \in Fds /\ Top.fd \in Fds /\ Top.fd # Top.dfd
      /\ "write" \in e.flags /\ e.ino \in Inodes
      /\ api.op \notin Flat \/ (api.op = "copy" /\ Top.path = api.path /\ Top.dst = api.dst)
      /\ Copying => CopyGoes(Top, os, api)
  BY <1>1, CopyTop
<1>3. Copying => IsSource(d, api) /\ (d.ino # 0 => Copied(Top, os, api))
  BY <1>1, <1>2, FileSystemAssumption DEF CopyGoes
<1>4. /\ s \in Seq(Nat) /\ d.pos \in Nat /\ block \in Seq(Nat) /\ Len(block) \in Nat
      /\ d.pos <= Len(s) => /\ n <= Len(s) /\ block = SubSeq(s, d.pos + 1, n)
                            /\ (block = <<>> => d.pos = Len(s))
  BY <1>2, KReadIs
<1>5. os.data[e.ino] \in Seq(Nat)
  BY <1>2 DEF IsDisk
<1> HIDE DEF block
<1>6. CASE d.ino = 0 /\ os' = CloseBoth /\ Throw("EISDIR")
  <2>1. IsDisk(os') /\ "EISDIR" # ""
    BY <1>2, <1>6, BothClosed
  <2> QED
    BY <1>1, <1>6, <2>1, ThrowFine
<1>7. CASE d.ino # 0 /\ block = <<>> /\ os' = CloseBoth /\ Return
  <2>1. IsDisk(os') /\ os'.tree = os.tree /\ os'.data = os.data
    BY <1>2, <1>7, BothClosed
  <2>2. ASSUME api.op \in Flat, ~api.meddled PROVE FileKept(api, os')
    <3>1. api.op = "copy"
      BY <1>2, <2>2
    <3>2. ASSUME Copying PROVE Content(os', api.dst) = Content(api.was, api.path)
      <4>1. Copied(Top, os, api) /\ IsSource(d, api)
        BY <1>3, <1>7, <3>2
      <4>2. d.pos = Len(s)
        BY <1>4, <1>7, <4>1 DEF Copied
      <4> QED
        BY <1>1, <1>4, <1>5, <1>7, <2>1, <4>1, <4>2, CopyIsDone
    <3> QED
      BY <2>2, <3>1, <3>2, Zenon DEF FileKept, Copying
  <2> QED
    BY <1>1, <1>7, <2>1, <2>2, ReturnFine
<1>8. CASE /\ d.ino # 0 /\ block # <<>> /\ os' = [os EXCEPT !.fds[Top.fd].pos = @ + Len(block)]
           /\ Change([Top EXCEPT !.rest = block]) /\ Going
  <2> DEFINE f == [Top EXCEPT !.rest = block]
  <2>1. os' = Moved(os, Top.fd, n)
    BY <1>8 DEF Moved
  <2>2. n \in Nat
    BY <1>4
  <2>3. /\ IsDisk(os') /\ os'.tree = os.tree /\ os'.data = os.data
        /\ \A g \in Fds : /\ os'.fds[g].ino = os.fds[g].ino /\ os'.fds[g].flags = os.fds[g].flags
                          /\ g # Top.fd => os'.fds[g] = os.fds[g]
        /\ os'.fds[Top.fd].pos = n
    <3> HIDE DEF n
    <3> QED
      BY <1>2, <2>1, <2>2, MoveKeepsDisk
  <2>4. f.rest = block /\ f.fd = Top.fd /\ f.dfd = Top.dfd
    BY <1>2
  <2>5. Change(f) /\ Going /\ \E x : f = [Top EXCEPT !.fd = x] \/ f = [Top EXCEPT !.dfd = x] \/ f = [Top EXCEPT !.rest = x]
    BY <1>8
  <2> HIDE DEF f
  <2>6. os'.fds[f.dfd] = e /\ os'.fds[f.fd].ino = d.ino /\ os'.fds[f.fd].pos = n
    BY <1>2, <2>3, <2>4
  <2>7. ASSUME Copying PROVE CopyGoes(f, os', api)
    <3>1. Copied(Top, os, api) /\ IsSource(d, api)
      BY <1>3, <1>8, <2>7
    <3>2. /\ s = api.was.data[d.ino] /\ d.pos <= Len(s) /\ At(os, api.dst) = File(e.ino) /\ e.ino # d.ino
          /\ os.data[e.ino] \o <<>> = SubSeq(s, 1, d.pos) /\ e.pos = Len(os.data[e.ino])
      BY <1>1, <3>1 DEF Copied
    <3>11. os'.tree = os.tree
      BY <2>3
    <3>12. At(os', api.dst) = At(os, api.dst)
      BY <3>11, SameTree
    <3>3. At(os', api.dst) = File(e.ino)
      BY <3>2, <3>12
    <3>4. os.data[e.ino] \o <<>> = os.data[e.ino]
      BY <1>5, ConcatEmptySeq
    <3>13. d.pos <= Len(s)
      BY <3>2
    <3>5. d.pos <= n /\ n <= Len(s) /\ block = SubSeq(s, d.pos + 1, n)
      <4> HIDE DEF d, s
      <4> QED
        BY <1>4, <3>13
    <3> HIDE DEF n
    <3>6. SubSeq(s, 1, d.pos) \o block = SubSeq(s, 1, n)
      BY <1>4, <2>2, <3>5, ReadFollows, Zenon
    <3>7. os'.data[e.ino] \o f.rest = SubSeq(s, 1, n)
      BY <2>3, <2>4, <3>2, <3>4, <3>6
    <3>8. os'.data[d.ino] = s
      BY <2>3
    <3> HIDE DEF s, d, e
    <3>9. Copied(f, os', api)
      BY <2>3, <2>6, <3>2, <3>3, <3>5, <3>7, <3>8 DEF Copied
    <3>10. IsSource(os'.fds[f.fd], api)
      BY <2>6, <3>1 DEF IsSource
    <3> QED
      BY <1>1, <1>2, <2>4, <3>9, <3>10, FileSystemAssumption DEF CopyGoes
  <2>8. "write" \in os'.fds[f.dfd].flags
    BY <1>2, <2>6
  <2> QED
    BY <1>1, <1>4, <2>3, <2>4, <2>5, <2>7, <2>8, CopyGoesOn
<1> QED
  BY <1>1, <1>6, <1>7, <1>8

LEMMA CopyWritesFine ==
  ASSUME Sound, CopyWrites
  PROVE  Fine
<1>1. stack # <<>> /\ Top.op = "copy" /\ Top.rest # <<>>
  BY DEF CopyWrites
<1>2. /\ IsDisk(os) /\ {"op", "fd", "dfd", "rest"} \subseteq DOMAIN Top /\ Top.rest \in Seq(Nat)
      /\ Top.dfd # 0 /\ Top.dfd \in Fds /\ Top.fd \in Fds /\ Top.fd # Top.dfd
      /\ "write" \in os.fds[Top.dfd].flags /\ os.fds[Top.dfd].ino \in Inodes
      /\ Copying => CopyGoes(Top, os, api)
  BY <1>1, CopyTop
<1>3. CASE os' = CloseBoth /\ Throw("ENOSPC")
  <2>1. IsDisk(os') /\ "ENOSPC" # ""
    BY <1>2, <1>3, BothClosed
  <2> QED
    BY <1>1, <1>3, <2>1, ThrowFine
<1>4. CASE \E n \in 1..Len(Top.rest) :
             /\ os' = KWrite(os, Top.dfd, SubSeq(Top.rest, 1, n))
             /\ Change([Top EXCEPT !.rest = Advance(n, @)]) /\ Going
  <2>1. PICK n \in 1..Len(Top.rest) :
             /\ os' = KWrite(os, Top.dfd, SubSeq(Top.rest, 1, n))
             /\ Change([Top EXCEPT !.rest = Advance(n, @)]) /\ Going
    BY <1>4
  <2> DEFINE cut == SubSeq(Top.rest, 1, n)
             rest == SubSeq(Top.rest, n + 1, Len(Top.rest))
             f == [Top EXCEPT !.rest = rest]
             d == os.fds[Top.fd]
             e == os.fds[Top.dfd]
             old == os.data[e.ino]
  <2>2. cut \in Seq(Nat) /\ rest \in Seq(Nat) /\ cut \o rest = Top.rest
    BY <1>2, CutAndJoined
  <2>3. os' = KWrite(os, Top.dfd, cut) /\ Change(f) /\ Going
    BY <2>1 DEF Advance
  <2> HIDE DEF cut, rest
  <2>4. f.rest = rest /\ f.fd = Top.fd /\ f.dfd = Top.dfd
        /\ \E x : f = [Top EXCEPT !.fd = x] \/ f = [Top EXCEPT !.dfd = x] \/ f = [Top EXCEPT !.rest = x]
    BY <1>2
  <2> HIDE DEF f
  <2>5. /\ IsDisk(os') /\ os'.tree = os.tree /\ os'.fds[f.fd] = d
        /\ \A x \in Inodes \cup {0} : x # e.ino => os'.data[x] = os.data[x]
        /\ os'.fds[f.dfd].ino = e.ino /\ os'.fds[f.dfd].flags = e.flags
        /\ e.pos = Len(old) => os'.data[e.ino] = old \o cut /\ os'.fds[f.dfd].pos = Len(old \o cut)
    <3>1. Written(os, os', Top.dfd, cut)
      BY <1>2, <2>2, <2>3, WriteKeepsDisk
    <3> QED
      BY <1>2, <2>4, <3>1 DEF Written
  <2>6. e.ino \in Inodes /\ old \in Seq(Nat) /\ d.ino \in Inodes \cup {0}
    BY <1>2 DEF IsDisk
  <2>7. ASSUME Copying PROVE CopyGoes(f, os', api)
    <3>1. IsSource(d, api) /\ f.fd # 0 /\ f.dfd # 0
      BY <1>2, <2>4, <2>7, FileSystemAssumption DEF CopyGoes
    <3>2. ASSUME d.ino # 0 PROVE Copied(f, os', api)
      <4> DEFINE s == os.data[d.ino]
      <4>1. Copied(Top, os, api)
        BY <1>2, <2>7, <3>2, FileSystemAssumption DEF CopyGoes
      <4>2. /\ s = api.was.data[d.ino] /\ d.pos <= Len(s) /\ At(os, api.dst) = File(e.ino) /\ e.ino # d.ino
            /\ old \o Top.rest = SubSeq(s, 1, d.pos) /\ e.pos = Len(old)
        BY <4>1 DEF Copied
      <4>7. os'.tree = os.tree
        BY <2>5
      <4>8. At(os', api.dst) = At(os, api.dst)
        BY <4>7, SameTree
      <4>3. At(os', api.dst) = File(e.ino)
        BY <4>2, <4>8
      <4>4. os'.data[d.ino] = s
        BY <2>5, <2>6, <4>2
      <4> HIDE DEF s, d, e, old
      <4>5. (old \o cut) \o rest = old \o (cut \o rest)
        BY <2>2, <2>6, Joins
      <4>6. os'.data[e.ino] \o f.rest = SubSeq(s, 1, d.pos)
        BY <2>2, <2>4, <2>5, <4>2, <4>5
      <4> QED
        BY <2>5, <4>2, <4>3, <4>4, <4>6 DEF Copied
    <3> HIDE DEF d
    <3> QED
      BY <2>5, <3>1, <3>2 DEF CopyGoes
  <2>8. f.rest \in Seq(Nat) /\ "write" \in os'.fds[f.dfd].flags
    BY <1>2, <2>2, <2>4, <2>5
  <2> QED
    BY <1>1, <2>3, <2>4, <2>5, <2>7, <2>8, CopyGoesOn
<1> QED
  BY <1>3, <1>4 DEF CopyWrites

----------------------------------------------------------------------------
(* MkdirRecursive *)
LEMMA NewNameIs ==
  ASSUME NEW k, NEW j, NEW q, NEW e, Adds(k, j, q, e)
  PROVE  (\A p : Real(j, p) = Real(k, p)) /\ Entry(j, q) = e
BY NewName

\* mkdir() made the name, or it was there.
Makes(r) == r.err \in {"", "EEXIST"}
LEMMA MkdirMakes ==
  ASSUME IsDisk(os), NEW p, Makes(Mkdir(p))
  PROVE  Entry(Mkdir(p).k, Name(Mkdir(p).k, p)) # Absent
<1> DEFINE q == Name(os, p)
<1>1. \A k : Ok(k).k = k /\ Ok(k).err = ""
  BY DEF Ok
<1>2. \A e : Fails(e).k = os /\ Fails(e).err = e
  BY DEF Fails
<1>3. \/ Mkdir(p) = Fails("ENOENT") \/ Mkdir(p) = Fails("ENOTDIR")
      \/ Mkdir(p) = Fails("EEXIST") /\ Entry(os, q) # Absent
      \/ Mkdir(p) = Ok(With(os, q, Dir)) /\ Entry(os, q) = Absent
  <2>1. CASE Entry(os, q) = Absent
    <3>1. Mkdir(p) \in {Fails("ENOENT"), Fails("ENOTDIR"), Ok(With(os, q, Dir))}
      BY <2>1, Zenon DEF Mkdir
    <3> QED
      BY <2>1, <3>1
  <2>2. CASE Entry(os, q) # Absent
    <3>1. Mkdir(p) \in {Fails("ENOENT"), Fails("ENOTDIR"), Fails("EEXIST")}
      BY <2>2, Zenon DEF Mkdir
    <3> QED
      BY <2>2, <3>1
  <2> QED
    BY <2>1, <2>2
<1>4. CASE Mkdir(p) = Fails("EEXIST") /\ Entry(os, q) # Absent
  BY <1>2, <1>4
<1>5. CASE Mkdir(p) = Ok(With(os, q, Dir)) /\ Entry(os, q) = Absent
  <2> DEFINE k == With(os, q, Dir)
  <2>1. Mkdir(p).k = k
    BY <1>1, <1>5
  <2>0. Dir.kind = "dir" /\ Absent.kind = "absent" /\ \A i : File(i).kind = "file"
    BY DEF Absent, Dir, File
  <2>2. q \notin DOMAIN os.tree /\ Dir.kind # "link" /\ Dir # Absent
    <3>1. ~IsEntry(Absent)
      BY <2>0 DEF IsEntry
    <3> HIDE DEF q
    <3> QED
      BY <1>5, <2>0, <3>1 DEF Entry, IsDisk
  <2>3. k.tree = [x \in DOMAIN os.tree \cup {q} |-> IF x = q THEN Dir ELSE os.tree[x]]
    BY DEF With, IsDisk
  <2> HIDE DEF k, q
  <2>4. Adds(os, k, q, Dir)
    BY <2>2, <2>3 DEF Adds
  <2>5. Real(k, Front(p)) = Real(os, Front(p)) /\ Entry(k, q) = Dir
    BY <2>4, NewNameIs, Zenon
  <2>6. Name(k, p) = q
    BY <2>5 DEF Name, q
  <2>7. Entry(k, Name(k, p)) # Absent
    BY <2>2, <2>5, <2>6
  <2> QED
    BY <2>1, <2>7, Zenon
<1>6. Mkdir(p) # Fails("ENOENT") /\ Mkdir(p) # Fails("ENOTDIR")
  <2>1. Fails("ENOENT").err = "ENOENT" /\ Fails("ENOTDIR").err = "ENOTDIR"
    BY DEF Fails
  <2>2. "ENOENT" \notin {"", "EEXIST"} /\ "ENOTDIR" \notin {"", "EEXIST"}
    OBVIOUS
  <2> QED
    BY <2>1, <2>2 DEF Makes
<1> HIDE DEF q
<1> QED
  BY <1>3, <1>4, <1>5, <1>6

LEMMA MkdirFine ==
  ASSUME Sound, MkdirStep
  PROVE  Fine
<1> DEFINE part == SubSeq(Top.path, 1, Top.i)
           r == Mkdir(part)
           f == [Top EXCEPT !.i = @ + 1]
<1>1. /\ stack # <<>> /\ Top.op = "mkdir" /\ os' = r.k
      /\ \/ r.err \notin {"", "EEXIST"} /\ Throw(r.err)
         \/ r.err \in {"", "EEXIST"} /\ Top.i = Len(Top.path) /\ Return
         \/ Change(f) /\ Going
  BY DEF MkdirStep
<1>2. IsDisk(os) /\ IsFrame(Top) /\ OfCall(Top, api)
  BY <1>1, TopIs, TopIsOfCall DEF Sound, Calm
<1>3. "op" \in DOMAIN Top /\ (api.op \in Flat => api.op = "mkdir")
  BY <1>1, <1>2 DEF IsFrame, OfCall, Flat
<1>4. IsDisk(os')
  <2>1. r \in OnPath(part)
    BY DEF OnPath
  <2> HIDE DEF r
  <2> QED
    BY <1>1, <1>2, <2>1, PathCallsKeepDisk DEF Keeps
<1>5. CASE r.err \notin {"", "EEXIST"} /\ Throw(r.err)
  <2> HIDE DEF r
  <2> QED
    BY <1>1, <1>4, <1>5, ThrowFine
<1>6. CASE r.err \in {"", "EEXIST"} /\ Top.i = Len(Top.path) /\ Return
  <2>3. Entry(r.k, Name(r.k, part)) # Absent
    <3> HIDE DEF part
    <3>1. IsDisk(os)
      BY <1>2
    <3>2. Makes(Mkdir(part))
      BY <1>6 DEF Makes
    <3> QED
      BY <3>1, <3>2, MkdirMakes
  <2>1. Entry(os', Name(os', part)) # Absent
    BY <1>1, <2>3
  <2>2. ASSUME api.op \in Flat, ~api.meddled PROVE FileKept(api, os')
    <3>1. api.op = "mkdir" /\ Top.path = api.path /\ api.path \in Seq(STRING)
      BY <1>2, <1>3, <2>2 DEF OfCall
    <3>2. part = api.path
      BY <1>6, <3>1, SubSeqFull
    <3> HIDE DEF part
    <3> QED
      BY <2>1, <3>1, <3>2, Zenon DEF FileKept
  <2> QED
    BY <1>1, <1>4, <1>6, <2>2, ReturnFine
<1>7. CASE Change(f) /\ Going
  <2>1. f.op = "mkdir" /\ DOMAIN f = DOMAIN Top /\ \A x \in DOMAIN Top : x # "i" => f[x] = Top[x]
    BY <1>1, <1>3
  <2> HIDE DEF f
  <2>2. CASE api.op \notin Flat
    BY <1>1, <1>4, <1>7, <2>1, <2>2, GoesPlainly
  <2>3. CASE api.op = "mkdir"
    <3>1. OfCall(f, api)
      BY <1>2, <2>1, <2>3 DEF OfCall
    <3>2. BytesOf(f, os') /\ WholeOf(f, os', api)
      BY <2>1, <2>3 DEF BytesOf, WholeOf
    <3> QED
      BY <1>1, <1>4, <1>7, <3>1, <3>2, GoesFine
  <2> QED
    BY <1>3, <2>2, <2>3
<1> QED
  BY <1>1, <1>5, <1>6, <1>7

----------------------------------------------------------------------------
(* getSync and postSync *)
LEMMA HttpTop ==
  ASSUME Sound, stack # <<>>, Top.op = "http"
  PROVE  /\ IsDisk(os) /\ IsFrame(Top) /\ {"op", "at", "fd"} \subseteq DOMAIN Top
         /\ api # NoCall /\ api.op \notin Flat /\ (Top.at = "read" => Top.fd \in Fds)
<1>1. IsFrame(Top) /\ IsDisk(os) /\ api # NoCall /\ (Top.op \notin Flat => api.op \notin Flat)
  BY TopIs, TopIsOfCall DEF Sound, Calm
<1> QED
  BY <1>1 DEF IsFrame, Flat

\* The frame of a request goes on.
LEMMA RequestGoesOn ==
  ASSUME Sound, stack # <<>>, Top.op = "http", Going, IsDisk(os'), NEW f, Change(f), f.op = "http"
  PROVE  Fine
BY HttpTop, GoesPlainly

LEMMA ForksFine ==
  ASSUME Sound, Forks
  PROVE  Fine
<1>1. stack # <<>> /\ Top.op = "http"
  BY DEF Forks, InHttp
<1>2. IsDisk(os) /\ IsKernel(os) /\ {"op", "at", "fd"} \subseteq DOMAIN Top
  BY <1>1, HttpTop DEF Sound, FdInv
<1>3. \/ Throw("EMFILE") /\ os' = os
      \/ Throw("EAGAIN") /\ os' = os
      \/ /\ ~(Cardinality(FreeFds(os)) < 2)
         /\ os' = [os EXCEPT !.fds[LowestFd(os)] = Pipe("read")]
         /\ Change([Top EXCEPT !.at = "read", !.fd = LowestFd(os)]) /\ Going
  BY Zenon DEF Forks
<1>4. CASE Throw("EMFILE") /\ os' = os
  BY <1>1, <1>2, <1>4, ThrowFine
<1>5. CASE Throw("EAGAIN") /\ os' = os
  BY <1>1, <1>2, <1>5, ThrowFine
<1>6. CASE /\ ~(Cardinality(FreeFds(os)) < 2)
           /\ os' = [os EXCEPT !.fds[LowestFd(os)] = Pipe("read")]
           /\ Change([Top EXCEPT !.at = "read", !.fd = LowestFd(os)]) /\ Going
  <2> DEFINE l == LowestFd(os)
             g == [Top EXCEPT !.at = "read", !.fd = l]
             e == Pipe("read")
  <2>1. FreeFds(os) # {}
    BY <1>6, FS_EmptySet
  <2>2. l \in Fds
    BY <2>1, LowestIsFree DEF FreeFds, Open
  <2>3. e \in FdShape /\ "write" \notin e.flags
    BY DEF FdShape, Pipe, Modes
  <2>4. /\ {"tree", "data", "fds", "full"} \subseteq DOMAIN os' /\ os'.tree = os.tree /\ os'.data = os.data
        /\ os'.fds = [os.fds EXCEPT ![l] = e]
    BY <1>2, <1>6 DEF IsDisk
  <2>5. g.op = "http" /\ Change(g) /\ Going
    BY <1>1, <1>2, <1>6
  <2> HIDE DEF l, g, e
  <2>6. IsDisk(os')
    <3>1. \E y \in Fds, x \in FdShape : ("write" \in x.flags => x.ino \in Inodes) /\ os'.fds = [os.fds EXCEPT ![y] = x]
      BY <2>2, <2>3, <2>4
    <3>2. (\A q \in DOMAIN os'.tree : IsEntry(os'.tree[q])) /\ os'.data \in [Inodes \cup {0} -> Seq(Nat)]
      BY <1>2, <2>4 DEF IsDisk
    <3> QED
      BY <1>2, <2>4, <3>1, <3>2, DiskIs, Zenon
  <2> QED
    BY <1>1, <2>5, <2>6, RequestGoesOn
<1> QED
  BY <1>3, <1>4, <1>5, <1>6

LEMMA ReapsFine ==
  ASSUME Sound, Reaps
  PROVE  Fine
<1> DEFINE f == [Top EXCEPT !.at = "answer"]
<1>1. stack # <<>> /\ Top.op = "http" /\ Top.at = "read" /\ os' = KClose(os, Top.fd)
  BY DEF Reaps, InHttp
<1>2. Throw("curl exited") \/ (Change(f) /\ Going)
  BY Zenon DEF Reaps
<1>3. IsDisk(os) /\ Top.fd \in Fds /\ {"op", "at", "fd"} \subseteq DOMAIN Top
  BY <1>1, HttpTop
<1>4. IsDisk(os')
  BY <1>1, <1>3, CloseKeepsDisk
<1>5. f.op = "http"
  BY <1>1, <1>3
<1> HIDE DEF f
<1> QED
  BY <1>1, <1>2, <1>4, <1>5, ThrowFine, RequestGoesOn

LEMMA WaitIsInterruptedFine ==
  ASSUME Sound, WaitIsInterrupted
  PROVE  Fine
<1> DEFINE f == [Top EXCEPT !.at = "answer"]
           a == [api EXCEPT !.meddled = TRUE]
           n == Len(stack)
           S == Range(stack) \cup {f}
<1>1. /\ stack # <<>> /\ Top.op = "http" /\ Top.at = "read" /\ os' = KClose(os, Top.fd)
      /\ Change(f) /\ api' = a /\ UNCHANGED <<immediates, rs, ws>>
  BY DEF WaitIsInterrupted, InHttp
<1>2. IsDisk(os) /\ Top.fd \in Fds /\ {"op", "at", "fd"} \subseteq DOMAIN Top /\ api.op \notin Flat
  BY <1>1, HttpTop
<1>3. IsDisk(os')
  BY <1>1, <1>2, CloseKeepsDisk
<1>4. f.op = "http"
  BY <1>1, <1>2
<1>5. n \in Nat /\ n > 0 /\ stack \in Seq(S)
  BY <1>1 DEF Sound, FdInv, Range
<1>6. Front(stack) \in Seq(S) /\ Len(Front(stack)) = n - 1
  BY <1>1, <1>5, FrontFacts
<1>7. stack' \in Seq(S) /\ Len(stack') = n /\ stack'[n] = f
  BY <1>1, <1>5, <1>6 DEF Change
<1>8. stack' # <<>> /\ Top' = f
  BY <1>5, <1>7 DEF Top, Last
<1>9. a.meddled /\ a # NoCall /\ Fields \subseteq DOMAIN a /\ a.op = api.op /\ a.mode = api.mode
  BY <1>1, MeddledIs
<1> HIDE DEF f, a
<1>10. StreamsInv'
  BY <1>1, <1>9, StreamsInvIs DEF Sound, Calm, Origin
<1>11. BytesInv'
  BY <1>4, <1>8 DEF BytesInv, BytesOf
<1>12. CallInv'
  BY <1>1, <1>2, <1>8, <1>9 DEF CallInv, OfCall, Flat
<1>13. WholeInv'
  BY <1>1, <1>9 DEF WholeInv
<1>14. Kept
  BY <1>1, <1>9 DEF Kept, Succeeds
<1> QED
  BY <1>3, <1>10, <1>11, <1>12, <1>13, <1>14 DEF Fine, Calm

LEMMA HttpStepsFine ==
  ASSUME Sound, FindCurl \/ WritesRequest \/ ReadsAnswer \/ HttpReturns
  PROVE  Fine
<1>1. stack # <<>> /\ Top.op = "http" /\ os' = os
  BY DEF FindCurl, WritesRequest, ReadsAnswer, HttpReturns, InHttp
<1>2. {"op", "at", "fd"} \subseteq DOMAIN Top /\ IsDisk(os') /\ api.op \notin Flat
  BY <1>1, HttpTop
<1>3. /\ \A at : [Top EXCEPT !.at = at].op = "http"
      /\ \A answer : [Top EXCEPT !.at = "mop up", !.answer = answer].op = "http"
  BY <1>1, <1>2
<1>4. CASE FindCurl
  <2> DEFINE f == [Top EXCEPT !.at = IF Top.post THEN "request" ELSE "fork"]
  <2>1. Throw("no curl") \/ (Going /\ Change(f))
    BY <1>4, Zenon DEF FindCurl
  <2>2. f.op = "http"
    BY <1>3
  <2> HIDE DEF f
  <2> QED
    BY <1>1, <1>2, <2>1, <2>2, ThrowFine, RequestGoesOn
<1>5. CASE WritesRequest
  <2> DEFINE f == [Top EXCEPT !.at = "fork"]
  <2>1. Throw("EMFILE") \/ Throw("ENOSPC") \/ (Going /\ Change(f))
    BY <1>5, Zenon DEF WritesRequest
  <2>2. f.op = "http"
    BY <1>3
  <2> HIDE DEF f
  <2> QED
    BY <1>1, <1>2, <2>1, <2>2, ThrowFine, RequestGoesOn
<1>6. CASE ReadsAnswer
  <2>1. Going /\ \E answer : Change([Top EXCEPT !.at = "mop up", !.answer = answer])
    BY <1>6, Zenon DEF ReadsAnswer
  <2>2. PICK answer : Change([Top EXCEPT !.at = "mop up", !.answer = answer])
    BY <2>1
  <2> DEFINE f == [Top EXCEPT !.at = "mop up", !.answer = answer]
  <2>3. f.op = "http" /\ Change(f) /\ Going
    BY <1>3, <2>1, <2>2
  <2> HIDE DEF f
  <2> QED
    BY <1>1, <1>2, <2>3, RequestGoesOn
<1>7. CASE HttpReturns
  BY <1>1, <1>2, <1>7, ReturnFine DEF HttpReturns
<1> QED
  BY <1>4, <1>5, <1>6, <1>7

LEMMA HttpCallIs ==
  ASSUME NEW post
  PROVE  LET c == HttpCall(post) IN
         Fields \subseteq DOMAIN c /\ c.mode = "sync" /\ c.op = "http" /\ c.post = post /\ ~c.meddled
BY DEF HttpCall, Call, Fields

LEMMA CallHttpFine ==
  ASSUME Sound, CallHttp
  PROVE  Fine
<1>1. os' = os /\ UNCHANGED <<immediates, rs, ws>>
  BY DEF CallHttp
<1>2. PICK post \in BOOLEAN : Begin(HttpCall(post), HttpFrame(post))
  BY DEF CallHttp, HttpGetSync, HttpPostSync
<1> DEFINE c == HttpCall(post)
           f == HttpFrame(post)
<1>3. Fields \subseteq DOMAIN c /\ c.mode = "sync" /\ c.op = "http"
  BY HttpCallIs
<1>4. f.op = "http"
  BY DEF HttpFrame
<1>5. Begin(c, f)
  BY <1>2
<1> HIDE DEF c, f
<1>6. StreamsAre(rs', ws', immediates') /\ Origin(c, rs', ws')
  BY <1>1, <1>3, StreamsInvIs DEF Sound, Calm, Origin
<1>7. BytesOf(f, os) /\ OfCall(f, c) /\ WholeOf(f, os, c)
  BY <1>3, <1>4 DEF BytesOf, OfCall, WholeOf
<1> QED
  BY <1>1, <1>3, <1>5, <1>6, <1>7, BeginsFine

LEMMA StandsFine ==
  ASSUME Sound, UNCHANGED vars
  PROVE  Fine
<1>1. UNCHANGED <<os, stack, api, immediates, rs, ws>>
  BY DEF vars
<1>2. Calm'
  BY <1>1 DEF Sound, Calm, StreamsInv, BytesInv, CallInv, WholeInv, Top
<1> QED
  BY <1>1, <1>2 DEF Sound, Fine, Kept, Succeeds

LEMMA StepFine ==
  ASSUME Sound, [SyncNext]_syncVars
  PROVE  Fine
<1>1. CASE Native
  BY <1>1, ReadFine, WriteOpensFine, WriteWritesFine, WriteDoneFine, CopyOpensFine, CopyCreatesFine,
     CopyReadsFine, CopyWritesFine, MkdirFine, RmFine, CpFine DEF Native
<1>2. CASE Program
  BY <1>2, OneCallFine, CallLongFine, StreamCallsFine DEF Program
<1>3. CASE Immediate \/ Meddle \/ DiskFills
  BY <1>3, ImmediateFine, MeddleFine, DiskFillsFine
<1>4. CASE DoCurl
  BY <1>4, ForksFine, ReapsFine, WaitIsInterruptedFine, HttpStepsFine DEF DoCurl
<1>5. CASE CallHttp
  BY <1>5, CallHttpFine
<1>6. CASE Curl \/ UNCHANGED syncVars
  BY <1>6, StandsFine DEF Curl, syncVars
<1> QED
  BY <1>1, <1>2, <1>3, <1>4, <1>5, <1>6 DEF SyncNext, Files, Next

----------------------------------------------------------------------------
(* The answer of curl *)
\* The last four lines are the answer, whatever stands before them.
Ends(lines, s) ==
  /\ s \in Nat /\ s > 0 /\ Len(lines) = s + 3 /\ DOMAIN lines = 1..(s + 3)
  /\ lines[s] = StatusLine(200) /\ lines[s + 1] = Header("Type", 2)
  /\ lines[s + 2] = Header("type", 3) /\ lines[s + 3] = Blank
LEMMA LinesAre ==
  /\ StatusLine(200).kind = "status" /\ Blank.kind = "blank"
  /\ \A n, v : Header(n, v).kind = "header" /\ Header(n, v).name = n /\ Header(n, v).value = v
BY DEF StatusLine, Blank, Header
\* Where ParseHeaders stops, and what it finds before that.
StopOf(lines, start) ==
  CHOOSE i \in (start + 1)..Len(lines) :
    lines[i].kind = "blank" /\ \A j \in start..(i - 1) : lines[j].kind # "blank"
HeadersFrom(lines, start) ==
  LET stop == StopOf(lines, start)
      named(n) == {i \in (start + 1)..(stop - 1) : Lower(lines[i].name) = n}
  IN  [n \in {Lower(lines[i].name) : i \in (start + 1)..(stop - 1)} |->
         lines[CHOOSE i \in named(n) : \A j \in named(n) : j <= i].value]
LEMMA EndsParse ==
  ASSUME NEW lines, NEW s, Ends(lines, s)
  PROVE  ParseHeaders(lines) = Type
<1>1. /\ s \in Nat /\ s > 0 /\ Len(lines) = s + 3 /\ DOMAIN lines = 1..(s + 3)
      /\ lines[s].kind = "status" /\ lines[s + 1].kind = "header" /\ lines[s + 2].kind = "header"
      /\ lines[s + 3].kind = "blank"
      /\ Lower(lines[s + 1].name) = "type" /\ Lower(lines[s + 2].name) = "type" /\ lines[s + 2].value = 3
  BY LinesAre DEF Ends, Lower
<1>2. \A j \in (s + 1)..(s + 3) : j = s + 1 \/ j = s + 2 \/ j = s + 3
  BY <1>1
<1>3. LastStart(lines) = s
  <2> DEFINE Is(i) == lines[i].kind = "status" /\ \A j \in (i + 1)..Len(lines) : lines[j].kind # "status"
  <2>1. s \in DOMAIN lines /\ Is(s)
    BY <1>1, <1>2
  <2>2. \A i \in DOMAIN lines : Is(i) => i = s
    <3>1. SUFFICES ASSUME NEW i \in 1..(s + 3), Is(i) PROVE i = s
      BY <1>1
    <3>2. i < s => s \in (i + 1)..Len(lines)
      BY <1>1
    <3>3. i > s => i \in (s + 1)..(s + 3)
      BY <1>1
    <3>4. ~(i > s)
      BY <1>1, <1>2, <3>1, <3>3
    <3>5. ~(i < s)
      BY <1>1, <3>1, <3>2
    <3> QED
      BY <1>1, <3>4, <3>5
  <2> HIDE DEF Is
  <2>3. (CHOOSE i \in DOMAIN lines : Is(i)) = s
    BY <2>1, <2>2
  <2> QED
    BY <2>3 DEF LastStart, Is
<1> DEFINE stop == StopOf(lines, s)
           named(n) == {i \in (s + 1)..(stop - 1) : Lower(lines[i].name) = n}
<1>4. stop = s + 3
  <2> DEFINE Is(i) == lines[i].kind = "blank" /\ \A j \in s..(i - 1) : lines[j].kind # "blank"
  <2>1. s + 3 \in (s + 1)..Len(lines) /\ Is(s + 3)
    <3>1. \A j \in s..((s + 3) - 1) : j = s \/ j = s + 1 \/ j = s + 2
      BY <1>1
    <3> QED
      BY <1>1, <3>1
  <2>2. \A i \in (s + 1)..Len(lines) : Is(i) => i = s + 3
    BY <1>1, <1>2
  <2> HIDE DEF Is
  <2>3. (CHOOSE i \in (s + 1)..Len(lines) : Is(i)) = s + 3
    BY <2>1, <2>2
  <2> QED
    BY <2>3 DEF Is, StopOf
<1>5. \A i : i \in (s + 1)..(stop - 1) <=> i = s + 1 \/ i = s + 2
  BY <1>1, <1>4
<1> HIDE DEF stop
<1>6. {Lower(lines[i].name) : i \in (s + 1)..(stop - 1)} = {"type"}
  BY <1>1, <1>5
<1>7. named("type") = {s + 1, s + 2}
  BY <1>1, <1>5
<1> DEFINE N == {Lower(lines[i].name) : i \in (s + 1)..(stop - 1)}
           V(n) == lines[CHOOSE i \in named(n) : \A j \in named(n) : j <= i].value
<1>9. ParseHeaders(lines) = [n \in N |-> V(n)]
  <2>1. ParseHeaders(lines) = HeadersFrom(lines, LastStart(lines))
    BY Zenon DEF ParseHeaders, HeadersFrom, StopOf
  <2>2. HeadersFrom(lines, s) = [n \in N |-> V(n)]
    BY Zenon DEF HeadersFrom, stop
  <2> QED
    BY <1>3, <2>1, <2>2
<1> HIDE DEF named
<1>8. (CHOOSE i \in named("type") : \A j \in named("type") : j <= i) = s + 2
  BY <1>1, <1>7
<1>11. N = {"type"} /\ V("type") = 3
  BY <1>1, <1>6, <1>8
<1> HIDE DEF N, V
<1>10. ParseHeaders(lines) = [n \in {"type"} |-> 3]
  BY <1>9, <1>11
<1> QED
  BY <1>10 DEF Type

LEMMA AnswersParse ==
  ASSUME NEW lines \in {FinalAnswer, FirstAnswer \o FinalAnswer}
  PROVE  lines # <<>> /\ ParseHeaders(lines) = Type
<1>1. CASE lines = FinalAnswer
  <2>1. lines # <<>> /\ Ends(lines, 1)
    BY <1>1 DEF Ends, FinalAnswer
  <2> QED
    BY <2>1, EndsParse
<1>2. CASE lines = FirstAnswer \o FinalAnswer
  <2> DEFINE S == {StatusLine(301), Header("Where", 1), Blank, StatusLine(200), Header("Type", 2), Header("type", 3)}
  <2>1. /\ FirstAnswer \in Seq(S) /\ Len(FirstAnswer) = 3
        /\ FinalAnswer \in Seq(S) /\ Len(FinalAnswer) = 4
    BY DEF FirstAnswer, FinalAnswer
  <2> HIDE DEF S
  <2>5. /\ lines \in Seq(S) /\ Len(lines) = 3 + 4
        /\ \A i \in 1..(3 + 4) : lines[i] = IF i <= 3 THEN FirstAnswer[i] ELSE FinalAnswer[i - 3]
    <3>1. /\ FirstAnswer \o FinalAnswer \in Seq(S)
          /\ Len(FirstAnswer \o FinalAnswer) = Len(FirstAnswer) + Len(FinalAnswer)
          /\ \A i \in 1..(Len(FirstAnswer) + Len(FinalAnswer)) :
               (FirstAnswer \o FinalAnswer)[i] =
                 IF i <= Len(FirstAnswer) THEN FirstAnswer[i] ELSE FinalAnswer[i - Len(FirstAnswer)]
      BY <2>1, ConcatProperties
    <3> QED
      BY <1>2, <2>1, <3>1
  <2>2. lines \in Seq(S) /\ Len(lines) = 7
    BY <2>5
  <2>3. lines[4] = FinalAnswer[1] /\ lines[5] = FinalAnswer[2] /\ lines[6] = FinalAnswer[3] /\ lines[7] = FinalAnswer[4]
    BY <2>5
  <2>4. lines # <<>> /\ Ends(lines, 4)
    BY <2>2, <2>3 DEF Ends, FinalAnswer
  <2> QED
    BY <2>4, EndsParse
<1> QED
  BY <1>1, <1>2

----------------------------------------------------------------------------
\* What AnswerIsWhole says of a step, and what is shown of every step.
AnswerKept ==
  api # NoCall /\ api' = NoCall /\ api.op = "http" /\ ~api.meddled =>
    /\ told' = "" => Top.answer = [status |-> 200, headers |-> bridge.curl.final, body |-> Bytes]
    /\ told' \in {"", "curl exited"} =>
         bridge'.tmp \in [reqbody : IF api.post THEN {NoFile} ELSE {NoFile, <<>>, Bytes},
                          hdrs : {NoFile}, body : {NoFile}]
AnswerFine == AnswerInv' /\ AnswerKept

\* A frame that goes on is the innermost one.
LEMMA ChangedTop ==
  ASSUME FdInv, stack # <<>>, NEW f, Change(f)
  PROVE  stack' # <<>> /\ Top' = f /\ Len(stack') = Len(stack)
<1> DEFINE n == Len(stack)
           S == Range(stack) \cup {f}
<1>1. n \in Nat /\ n > 0 /\ stack \in Seq(S)
  BY DEF FdInv, Range
<1>2. Front(stack) \in Seq(S) /\ Len(Front(stack)) = n - 1
  BY <1>1, FrontFacts
<1>3. stack' \in Seq(S) /\ Len(stack') = n /\ stack'[n] = f
  BY <1>1, <1>2 DEF Change
<1> QED
  BY <1>1, <1>3 DEF Top, Last

\* A step of a call on files neither is one of a request nor becomes one.
LEMMA EndsOrGoes ==
  /\ \A e, b : Finish(e, b) => stack' = <<>> /\ api' = NoCall
  /\ Return => api' = NoCall \/ api' = api
  /\ \A e : Throw(e) => api' = NoCall \/ api' = api
  /\ Going => api' = api
<1>1. \A e, b : Finish(e, b) => stack' = <<>> /\ api' = NoCall
  BY DEF Finish
<1>2. Return => api' = NoCall \/ api' = api
  BY <1>1 DEF Return
<1>3. \A e : Throw(e) => api' = NoCall \/ api' = api
  BY <1>1, <1>2 DEF Throw
<1> QED
  BY <1>1, <1>2, <1>3 DEF Going

LEMMA NativeIsNoRequest ==
  ASSUME Native
  PROVE  stack # <<>> /\ Top.op # "http" /\ (api' = NoCall \/ api' = api)
<1>1. CASE ReadOpens \/ ReadReads
  <2>1. \/ \E e : Throw(e)
        \/ Going
        \/ \E e, b : Finish(e, b)
    BY <1>1, Zenon DEF ReadOpens, ReadReads
  <2> QED
    BY <1>1, <2>1, EndsOrGoes DEF ReadOpens, ReadReads
<1>2. CASE WriteOpens \/ WriteWrites \/ WriteDone
  <2>1. Return \/ Going \/ \E e : Throw(e)
    BY <1>2, Zenon DEF WriteOpens, WriteWrites, WriteDone
  <2> QED
    BY <1>2, <2>1, EndsOrGoes DEF WriteOpens, WriteWrites, WriteDone
<1>3. CASE CopyOpens \/ CopyCreates \/ CopyReads \/ CopyWrites
  <2>1. Return \/ Going \/ \E e : Throw(e)
    BY <1>3, Zenon DEF CopyOpens, CopyCreates, CopyReads, CopyWrites
  <2> QED
    BY <1>3, <2>1, EndsOrGoes DEF CopyOpens, CopyCreates, CopyReads, CopyWrites
<1>4. CASE MkdirStep
  <2>1. Return \/ Going \/ \E e : Throw(e)
    BY <1>4, Zenon DEF MkdirStep
  <2> QED
    BY <1>4, <2>1, EndsOrGoes DEF MkdirStep
<1>5. CASE RmStats \/ RmReads \/ RmEntry \/ RmRemoves
  <2>1. Return \/ Going \/ \E e : Throw(e)
    BY <1>5, Zenon DEF RmStats, RmReads, RmEntry, RmRemoves, RmGone
  <2> QED
    BY <1>5, <2>1, EndsOrGoes DEF RmStats, RmReads, RmEntry, RmRemoves
<1>6. CASE CpStats \/ CpReads \/ CpEntry
  <2>1. Return \/ Going \/ \E e : Throw(e)
    BY <1>6, Zenon DEF CpStats, CpReads, CpEntry
  <2> QED
    BY <1>6, <2>1, EndsOrGoes DEF CpStats, CpReads, CpEntry
<1> QED
  BY <1>1, <1>2, <1>3, <1>4, <1>5, <1>6 DEF Native

LEMMA CallsAreNoRequests ==
  /\ \A mode, p : ReadCall(mode, p).op # "http"
  /\ \A mode, p, b, flag : WriteCall(mode, p, b, flag).op # "http"
  /\ \A o, c : CopyCall("copy", o, c).op # "http" /\ CopyCall("cp", o, c).op # "http"
  /\ \A m, x, y, p : Call("mkdir", m, x, y, p).op # "http" /\ Call("rm", m, x, y, p).op # "http"
<1>1. \A op, m, x, y, p : Call(op, m, x, y, p).op = op
  BY DEF Call
<1>2. \A mode, p : ReadCall(mode, p).op # "http"
  BY DEF ReadCall, Call
<1>3. \A mode, p, b, flag : WriteCall(mode, p, b, flag).op # "http"
  BY DEF WriteCall, Call
<1>4. \A o, c : CopyCall("copy", o, c).op # "http" /\ CopyCall("cp", o, c).op # "http"
  BY DEF CopyCall, Call
<1> QED
  BY <1>1, <1>2, <1>3, <1>4

LEMMA ProgramIsNoRequest ==
  ASSUME Program \/ Immediate
  PROVE  stack = <<>> /\ (stack' = <<>> \/ api'.op # "http")
<1>1. CASE CallPath \/ CallTwoPaths \/ CallSymlink \/ CallDescriptor \/ OpenSync \/ CloseSync
  <2>1. \E r : Simple(r)
    BY <1>1, Zenon DEF CallPath, CallTwoPaths, CallSymlink, CallDescriptor, OpenSync, CloseSync
  <2> QED
    BY <2>1 DEF Simple
<1>2. CASE CreateReadStream \/ DestroyReadStream \/ CreateWriteStream \/ WriteAndEnd
  BY <1>2 DEF CreateReadStream, DestroyReadStream, CreateWriteStream, WriteAndEnd
<1>3. CASE CallLong
  <2>1. PICK o, p, c, flag : LongCall(o, p, c, flag)
    BY <1>3 DEF CallLong
  <2>2. \E call, f : Begin(call, f) /\ call.op # "http"
    BY <2>1, CallsAreNoRequests DEF LongCall
  <2> QED
    BY <2>2 DEF Begin
<1>4. CASE Immediate
  <2>1. \/ stack' = stack
        \/ \E call, f : Begin(call, f) /\ call.op # "http"
    BY <1>4, CallsAreNoRequests DEF Immediate
  <2> QED
    BY <1>4, <2>1 DEF Begin, Immediate
<1> QED
  BY <1>1, <1>2, <1>3, <1>4 DEF Program

----------------------------------------------------------------------------
\* A step that leaves the request alone.
LEMMA SameRequest ==
  ASSUME AnswerInv, stack' = stack, bridge' = bridge, os'.fds = os.fds, api'.op = api.op, api'.post = api.post,
         ~api'.meddled => ~api.meddled, api' = NoCall => api = NoCall
  PROVE  AnswerFine
<1>1. Top' = Top
  BY DEF Top
<1>2. FreeFds(os') = FreeFds(os)
  BY DEF FreeFds
<1>3. BridgeInv'
  BY DEF AnswerInv, BridgeInv
<1>4. HttpFrameInv'
  BY <1>1, <1>2 DEF AnswerInv, HttpFrameInv
<1> QED
  BY <1>3, <1>4 DEF AnswerFine, AnswerInv, AnswerKept

LEMMA FilesAnswer ==
  ASSUME Sound, AnswerInv, Next, bridge' = bridge
  PROVE  AnswerFine
<1>1. BridgeInv'
  BY DEF AnswerInv, BridgeInv
<1>2. NoCall.op # "http"
  BY DEF NoCall
<1>3. CASE Native
  <2>1. api.op # "http" /\ (api' = NoCall \/ api' = api)
    BY <1>3, NativeIsNoRequest DEF AnswerInv, HttpFrameInv
  <2> QED
    BY <1>1, <1>2, <2>1 DEF AnswerFine, AnswerInv, HttpFrameInv, AnswerKept
<1>4. CASE Program \/ Immediate
  <2>1. stack = <<>> /\ (stack' = <<>> \/ api'.op # "http")
    BY <1>4, ProgramIsNoRequest
  <2>2. api = NoCall
    BY <2>1 DEF Sound, Calm, CallInv
  <2> QED
    BY <1>1, <2>1, <2>2 DEF AnswerFine, AnswerInv, HttpFrameInv, AnswerKept
<1>5. CASE Meddle
  <2>1. stack # <<>> /\ stack' = stack /\ IsDisk(os)
    BY <1>5 DEF Meddle, Sound
  <2>2. api # NoCall /\ Fields \subseteq DOMAIN api
    BY <2>1, TopIsOfCall DEF Sound, Calm
  <2>3. api' = [api EXCEPT !.meddled = TRUE]
    BY <1>5, <2>2 DEF Meddle
  <2>4. api'.op = api.op /\ api'.post = api.post /\ api'.meddled
    BY <2>2, <2>3 DEF Fields
  <2>5. api' # NoCall
    BY <2>1, <2>3, MeddledIs
  <2>6. os'.fds = os.fds
    <3>1. PICK k : IsDisk(k) /\ os' = [k EXCEPT !.fds = os.fds]
      BY <1>5, OthersFiles
    <3> QED
      BY <3>1 DEF IsDisk
  <2> QED
    BY <2>1, <2>4, <2>5, <2>6, SameRequest
<1>6. CASE DiskFills
  <2>1. stack' = stack /\ api' = api /\ os' = [os EXCEPT !.full = TRUE] /\ IsDisk(os)
    BY <1>6 DEF DiskFills, Sound
  <2>2. os'.fds = os.fds
    BY <2>1 DEF IsDisk
  <2> QED
    BY <2>1, <2>2, SameRequest
<1> QED
  BY <1>3, <1>4, <1>5, <1>6 DEF Next

\* A request goes on,
LEMMA AnswerGoesOn ==
  ASSUME Sound, AnswerInv, stack # <<>>, Top.op = "http", NEW f, Change(f), BridgeInv',
         f.op = "http", DOMAIN f = DOMAIN Top, "post" \in DOMAIN Top => f.post = Top.post,
         api'.op = api.op, api'.post = api.post, api' # NoCall,
         f.at = "answer" => FreeFds(os') # {},
         f.at = "answer" /\ ~api'.meddled /\ api.op = "http" => bridge'.curl.at = "ended" /\ bridge'.curl.exit = 0,
         f.at = "mop up" /\ ~api'.meddled /\ api.op = "http" => f.answer = Whole /\ bridge'.curl.final = Type
  PROVE  AnswerFine
<1>1. stack' # <<>> /\ Top' = f /\ Len(stack') = Len(stack)
  BY ChangedTop DEF Sound
<1>2. HttpFrameInv'
  BY <1>1 DEF AnswerInv, HttpFrameInv
<1> QED
  BY <1>2 DEF AnswerFine, AnswerInv, AnswerKept

\* or ends with an error.
LEMMA AnswerThrows ==
  ASSUME Sound, AnswerInv, stack # <<>>, NEW e, Throw(e), BridgeInv', e # "",
         api.op = "http" /\ e = "curl exited" =>
           bridge'.tmp \in [reqbody : IF api.post THEN {NoFile} ELSE {NoFile, <<>>, Bytes},
                            hdrs : {NoFile}, body : {NoFile}]
  PROVE  AnswerFine
<1>1. NoCall.op # "http"
  BY DEF NoCall
<1>2. CASE api.op = "http"
  <2>1. Finish(e, <<>>)
    BY <1>2 DEF Throw
  <2>2. stack' = <<>> /\ told' = e
    BY <2>1 DEF Finish
  <2> QED
    BY <2>2, <1>2 DEF AnswerFine, AnswerInv, HttpFrameInv, AnswerKept
<1>3. CASE api.op # "http"
  <2>1. api' = NoCall \/ api' = api
    BY EndsOrGoes
  <2> QED
    BY <1>1, <1>3, <2>1 DEF AnswerFine, AnswerInv, HttpFrameInv, AnswerKept
<1> QED
  BY <1>2, <1>3

----------------------------------------------------------------------------
LEMMA FindCurlAnswer ==
  ASSUME Sound, AnswerInv, FindCurl
  PROVE  AnswerFine
<1> DEFINE at == IF Top.post THEN "request" ELSE "fork"
           f == [Top EXCEPT !.at = at]
<1>1. stack # <<>> /\ Top.op = "http" /\ bridge' = bridge /\ (Throw("no curl") \/ (Change(f) /\ Going))
  BY Zenon DEF FindCurl, InHttp
<1>2. {"op", "at", "fd"} \subseteq DOMAIN Top /\ api # NoCall
  BY <1>1, HttpTop
<1>3. BridgeInv'
  BY <1>1 DEF AnswerInv, BridgeInv
<1>4. at \notin {"answer", "mop up"}
  OBVIOUS
<1> HIDE DEF at
<1>5. /\ f.op = "http" /\ f.at = at /\ DOMAIN f = DOMAIN Top
      /\ "post" \in DOMAIN Top => f.post = Top.post
  BY <1>1, <1>2
<1> HIDE DEF f
<1>6. CASE Throw("no curl")
  BY <1>1, <1>3, <1>6, AnswerThrows
<1>7. CASE Change(f) /\ Going
  BY <1>1, <1>2, <1>3, <1>4, <1>5, <1>7, AnswerGoesOn DEF Going
<1> QED
  BY <1>1, <1>6, <1>7

LEMMA WritesRequestAnswer ==
  ASSUME Sound, AnswerInv, WritesRequest
  PROVE  AnswerFine
<1> DEFINE f == [Top EXCEPT !.at = "fork"]
<1>1. /\ stack # <<>> /\ Top.op = "http"
      /\ Throw("EMFILE") \/ Throw("ENOSPC") \/ (Change(f) /\ Going)
      /\ bridge' = bridge \/ bridge' = [bridge EXCEPT !.tmp.reqbody = <<>>] \/ bridge' = [bridge EXCEPT !.tmp.reqbody = Bytes]
  BY Zenon DEF WritesRequest, InHttp
<1>2. {"op", "at", "fd"} \subseteq DOMAIN Top /\ api # NoCall
  BY <1>1, HttpTop
<1>3. BridgeInv'
  BY <1>1 DEF AnswerInv, BridgeInv
<1>5. /\ f.op = "http" /\ f.at = "fork" /\ DOMAIN f = DOMAIN Top
      /\ "post" \in DOMAIN Top => f.post = Top.post
  BY <1>1, <1>2
<1> HIDE DEF f
<1>6. CASE Throw("EMFILE") \/ Throw("ENOSPC")
  BY <1>1, <1>3, <1>6, AnswerThrows
<1>7. CASE Change(f) /\ Going
  BY <1>1, <1>2, <1>3, <1>5, <1>7, AnswerGoesOn DEF Going
<1> QED
  BY <1>1, <1>6, <1>7

LEMMA ForksAnswer ==
  ASSUME Sound, AnswerInv, Forks
  PROVE  AnswerFine
<1> DEFINE f == [Top EXCEPT !.at = "read", !.fd = LowestFd(os)]
<1>1. /\ stack # <<>> /\ Top.op = "http"
      /\ \/ (Throw("EMFILE") \/ Throw("EAGAIN")) /\ bridge' = bridge
         \/ Change(f) /\ Going /\ bridge' = [bridge EXCEPT !.curl = [NoCurl EXCEPT !.at = "running"]]
  BY Zenon DEF Forks, InHttp
<1>2. {"op", "at", "fd"} \subseteq DOMAIN Top /\ api # NoCall
  BY <1>1, HttpTop
<1>3. BridgeInv'
  <2>1. CASE bridge' = bridge
    BY <2>1 DEF AnswerInv, BridgeInv
  <2>2. CASE bridge' = [bridge EXCEPT !.curl = [NoCurl EXCEPT !.at = "running"]]
    BY <2>2 DEF AnswerInv, BridgeInv, NoCurl
  <2> QED
    BY <1>1, <2>1, <2>2
<1>5. /\ f.op = "http" /\ f.at = "read" /\ DOMAIN f = DOMAIN Top
      /\ "post" \in DOMAIN Top => f.post = Top.post
  BY <1>1, <1>2
<1> HIDE DEF f
<1>6. CASE Throw("EMFILE") \/ Throw("EAGAIN")
  BY <1>1, <1>3, <1>6, AnswerThrows
<1>7. CASE Change(f) /\ Going
  BY <1>1, <1>2, <1>3, <1>5, <1>7, AnswerGoesOn DEF Going
<1> QED
  BY <1>1, <1>6, <1>7

\* What is removed at the end.
LEMMA MoppedUp ==
  ASSUME BridgeInv, api.op = "http" => Top.post = api.post
  PROVE  /\ DOMAIN MopUp = {"reqbody", "hdrs", "body"} /\ MopUp.reqbody \in {NoFile, <<>>, Bytes}
         /\ api.op = "http" =>
              MopUp \in [reqbody : IF api.post THEN {NoFile} ELSE {NoFile, <<>>, Bytes},
                         hdrs : {NoFile}, body : {NoFile}]
<1> DEFINE m == [bridge.tmp EXCEPT !.hdrs = NoFile, !.body = NoFile,
                                   !.reqbody = IF Top.post THEN NoFile ELSE bridge.tmp.reqbody]
<1>1. MopUp = m
  BY DEF MopUp
<1>2. DOMAIN bridge.tmp = {"reqbody", "hdrs", "body"} /\ bridge.tmp.reqbody \in {NoFile, <<>>, Bytes}
  BY DEF BridgeInv
<1>3. /\ DOMAIN m = {"reqbody", "hdrs", "body"} /\ m.hdrs = NoFile /\ m.body = NoFile
      /\ m.reqbody = IF Top.post THEN NoFile ELSE bridge.tmp.reqbody
  BY <1>2
<1>4. \A A : m.reqbody \in A => m \in [reqbody : A, hdrs : {NoFile}, body : {NoFile}]
  BY <1>2, <1>3
<1> HIDE DEF m
<1> QED
  BY <1>1, <1>2, <1>3, <1>4

\* The descriptor of the pipe is free again.
LEMMA PipeIsFree ==
  ASSUME IsKernel(os), NEW f \in Fds
  PROVE  FreeFds(KClose(os, f)) # {}
<1>1. KClose(os, f).fds = [os.fds EXCEPT ![f] = Closed] /\ f \in DOMAIN os.fds
  BY DEF KClose, IsKernel
<1> QED
  BY <1>1 DEF FreeFds

LEMMA ReapsAnswer ==
  ASSUME Sound, AnswerInv, Reaps
  PROVE  AnswerFine
<1> DEFINE f == [Top EXCEPT !.at = "answer"]
<1>1. /\ stack # <<>> /\ Top.op = "http" /\ Top.at = "read" /\ bridge.curl.at = "ended" /\ os' = KClose(os, Top.fd)
      /\ \/ Throw("curl exited") /\ bridge' = [bridge EXCEPT !.tmp = MopUp, !.curl = NoCurl]
         \/ ~Failed(bridge.curl.exit) /\ Change(f) /\ Going /\ bridge' = bridge
  BY Zenon DEF Reaps, InHttp
<1>2. {"op", "at", "fd"} \subseteq DOMAIN Top /\ api # NoCall /\ Top.fd \in Fds
  BY <1>1, HttpTop
<1>3. FreeFds(os') # {}
  BY <1>1, <1>2, PipeIsFree DEF Sound, FdInv
<1>4. BridgeInv /\ (api.op = "http" => Top.post = api.post)
  BY <1>1 DEF AnswerInv, HttpFrameInv
<1>5. /\ f.op = "http" /\ f.at = "answer" /\ DOMAIN f = DOMAIN Top
      /\ "post" \in DOMAIN Top => f.post = Top.post
  BY <1>1, <1>2
<1> HIDE DEF f
<1>6. CASE Throw("curl exited") /\ bridge' = [bridge EXCEPT !.tmp = MopUp, !.curl = NoCurl]
  <2>1. bridge'.tmp = MopUp /\ bridge'.curl = NoCurl /\ {"tmp", "curl"} \subseteq DOMAIN bridge'
    BY <1>4, <1>6 DEF BridgeInv
  <2>2. BridgeInv'
    BY <1>4, <2>1, MoppedUp DEF BridgeInv, NoCurl
  <2>3. api.op = "http" =>
          bridge'.tmp \in [reqbody : IF api.post THEN {NoFile} ELSE {NoFile, <<>>, Bytes},
                           hdrs : {NoFile}, body : {NoFile}]
    BY <1>4, <2>1, MoppedUp
  <2> QED
    BY <1>1, <1>6, <2>2, <2>3, AnswerThrows
<1>7. CASE ~Failed(bridge.curl.exit) /\ Change(f) /\ Going /\ bridge' = bridge
  <2>1. BridgeInv' /\ bridge'.curl.at = "ended" /\ bridge'.curl.exit = 0
    BY <1>1, <1>4, <1>7 DEF BridgeInv, Failed
  <2> QED
    BY <1>1, <1>2, <1>3, <1>5, <1>7, <2>1, AnswerGoesOn DEF Going
<1> QED
  BY <1>1, <1>6, <1>7

LEMMA WaitIsInterruptedAnswer ==
  ASSUME Sound, AnswerInv, WaitIsInterrupted
  PROVE  AnswerFine
<1> DEFINE f == [Top EXCEPT !.at = "answer"]
<1>1. /\ stack # <<>> /\ Top.op = "http" /\ Top.at = "read" /\ os' = KClose(os, Top.fd)
      /\ Change(f) /\ api' = [api EXCEPT !.meddled = TRUE] /\ bridge' = bridge
  BY DEF WaitIsInterrupted, InHttp
<1>2. {"op", "at", "fd"} \subseteq DOMAIN Top /\ api # NoCall /\ Top.fd \in Fds /\ Fields \subseteq DOMAIN api
  BY <1>1, HttpTop, TopIsOfCall DEF Sound, Calm
<1>3. FreeFds(os') # {}
  BY <1>1, <1>2, PipeIsFree DEF Sound, FdInv
<1>4. BridgeInv'
  BY <1>1 DEF AnswerInv, BridgeInv
<1>5. /\ f.op = "http" /\ f.at = "answer" /\ DOMAIN f = DOMAIN Top
      /\ "post" \in DOMAIN Top => f.post = Top.post
  BY <1>1, <1>2
<1>6. api'.op = api.op /\ api'.post = api.post /\ api'.meddled
  BY <1>1, <1>2 DEF Fields
<1>7. api' # NoCall
  BY <1>1, MeddledIs
<1> HIDE DEF f
<1> QED
  BY <1>1, <1>3, <1>4, <1>5, <1>6, <1>7, AnswerGoesOn

LEMMA ReadsAnswerAnswer ==
  ASSUME Sound, AnswerInv, ReadsAnswer
  PROVE  AnswerFine
<1> DEFINE hdrs == ReadFileToString(bridge.tmp.hdrs)
           answer == [status |-> bridge.curl.status,
                      headers |-> IF hdrs = <<>> THEN <<>> ELSE ParseHeaders(hdrs),
                      body |-> ReadFileToString(bridge.tmp.body)]
           f == [Top EXCEPT !.at = "mop up", !.answer = answer]
<1>1. /\ stack # <<>> /\ Top.op = "http" /\ Top.at = "answer" /\ Change(f) /\ os' = os /\ Going /\ bridge' = bridge
  BY DEF ReadsAnswer, InHttp
<1>2. {"op", "at", "fd"} \subseteq DOMAIN Top /\ api # NoCall
  BY <1>1, HttpTop
<1>3. BridgeInv /\ BridgeInv'
  BY <1>1 DEF AnswerInv, BridgeInv
<1>4. ASSUME ~api.meddled, api.op = "http" PROVE answer = Whole /\ bridge.curl.final = Type
  <2>1. bridge.curl.at = "ended" /\ bridge.curl.exit = 0 /\ FreeFds(os) # {}
    BY <1>1, <1>4 DEF AnswerInv, HttpFrameInv
  <2>2. /\ bridge.curl.status = 200 /\ bridge.curl.final = Type /\ bridge.tmp.body = Bytes
        /\ bridge.tmp.hdrs \in {FinalAnswer, FirstAnswer \o FinalAnswer}
    BY <1>3, <2>1 DEF BridgeInv
  <2>3. hdrs = bridge.tmp.hdrs /\ ReadFileToString(bridge.tmp.body) = Bytes
    BY <2>1, <2>2 DEF ReadFileToString
  <2>5. bridge.tmp.hdrs # <<>> /\ ParseHeaders(bridge.tmp.hdrs) = Type
    BY <2>2, AnswersParse
  <2> HIDE DEF hdrs
  <2>4. hdrs # <<>> /\ ParseHeaders(hdrs) = Type
    BY <2>3, <2>5
  <2> QED
    BY <2>2, <2>3, <2>4 DEF Whole
<1> HIDE DEF answer
<1>5. /\ f.op = "http" /\ f.at = "mop up" /\ DOMAIN f = DOMAIN Top
      /\ "post" \in DOMAIN Top => f.post = Top.post
      /\ "answer" \in DOMAIN Top => f.answer = answer
  BY <1>1, <1>2
<1>6. api.op = "http" => "answer" \in DOMAIN Top
  BY <1>1 DEF AnswerInv, HttpFrameInv
<1> HIDE DEF f
<1> QED
  BY <1>1, <1>2, <1>3, <1>4, <1>5, <1>6, AnswerGoesOn DEF Going

LEMMA HttpReturnsAnswer ==
  ASSUME Sound, AnswerInv, HttpReturns
  PROVE  AnswerFine
<1>1. stack # <<>> /\ Top.op = "http" /\ Top.at = "mop up" /\ bridge' = [tmp |-> MopUp, curl |-> NoCurl] /\ Return
  BY DEF HttpReturns, InHttp
<1>2. BridgeInv /\ (api.op = "http" => Top.post = api.post)
  BY <1>1 DEF AnswerInv, HttpFrameInv
<1>3. bridge'.tmp = MopUp /\ BridgeInv'
  BY <1>1, <1>2, MoppedUp DEF BridgeInv, NoCurl
<1>4. CASE api.op = "http"
  <2>1. Len(stack) = 1 /\ (~api.meddled => Top.answer = Whole /\ bridge.curl.final = Type)
    BY <1>1, <1>4 DEF AnswerInv, HttpFrameInv
  <2>2. stack' = <<>>
    BY <1>1, <2>1, EndsOrGoes DEF Return
  <2> QED
    BY <1>2, <1>3, <1>4, <2>1, <2>2, MoppedUp DEF AnswerFine, AnswerInv, HttpFrameInv, AnswerKept, Whole
<1>5. CASE api.op # "http"
  <2>1. (api' = NoCall \/ api' = api) /\ NoCall.op # "http"
    BY <1>1, EndsOrGoes DEF NoCall
  <2> QED
    BY <1>3, <1>5, <2>1 DEF AnswerFine, AnswerInv, HttpFrameInv, AnswerKept
<1> QED
  BY <1>4, <1>5

LEMMA CallHttpAnswer ==
  ASSUME Sound, AnswerInv, CallHttp
  PROVE  AnswerFine
<1>1. bridge' = bridge
  BY DEF CallHttp
<1>2. PICK post \in BOOLEAN : Begin(HttpCall(post), HttpFrame(post))
  BY DEF CallHttp, HttpGetSync, HttpPostSync
<1> DEFINE c == HttpCall(post)
           f == HttpFrame(post)
<1>3. c.post = post
  BY HttpCallIs
<1>4. /\ {"op", "post", "at", "fd", "answer"} \subseteq DOMAIN f /\ f.op = "http" /\ f.post = post /\ f.at = "start"
  BY DEF HttpFrame
<1> HIDE DEF c, f
<1>5. stack = <<>> /\ stack' = <<f>> /\ api' = c
  BY <1>2 DEF Begin, c, f
<1>6. api = NoCall /\ Top' = f /\ Len(stack') = 1
  BY <1>5 DEF Sound, Calm, CallInv, Top, Last
<1>7. BridgeInv'
  BY <1>1 DEF AnswerInv, BridgeInv
<1>8. HttpFrameInv'
  BY <1>3, <1>4, <1>5, <1>6 DEF HttpFrameInv
<1> QED
  BY <1>6, <1>7, <1>8 DEF AnswerFine, AnswerInv, AnswerKept

LEMMA CurlAnswer ==
  ASSUME Sound, AnswerInv, Curl
  PROVE  AnswerFine
<1>1. bridge.curl.at = "running" /\ UNCHANGED <<os, stack, api>>
  BY DEF Curl, vars
<1>2. PICK redirected \in BOOLEAN, fails \in BOOLEAN :
        LET hdrs == IF redirected THEN FirstAnswer \o FinalAnswer ELSE FinalAnswer
            bad == fails \/ os.full
        IN  bridge' = [bridge EXCEPT
              !.curl = [at |-> "ended", exit |-> IF bad THEN 28 ELSE 0, status |-> 200, final |-> [type |-> 3]],
              !.tmp.hdrs = IF os.full THEN <<>> ELSE hdrs,
              !.tmp.body = IF bad THEN SubSeq(Bytes, 1, 1) ELSE Bytes]
  BY DEF Curl
<1> DEFINE hdrs == IF redirected THEN FirstAnswer \o FinalAnswer ELSE FinalAnswer
           bad == fails \/ os.full
           curl == [at |-> "ended", exit |-> IF bad THEN 28 ELSE 0, status |-> 200, final |-> [type |-> 3]]
           h == IF os.full THEN <<>> ELSE hdrs
           b == IF bad THEN SubSeq(Bytes, 1, 1) ELSE Bytes
<1>3. bridge' = [bridge EXCEPT !.curl = curl, !.tmp.hdrs = h, !.tmp.body = b]
  BY <1>2
<1>4. /\ {"at", "exit", "status", "final"} \subseteq DOMAIN curl /\ curl.at = "ended"
      /\ curl.status = 200 /\ curl.final = Type /\ (curl.exit = 0 => ~bad)
  BY DEF Type
<1>5. ~bad => h \in {FinalAnswer, FirstAnswer \o FinalAnswer} /\ b = Bytes
  OBVIOUS
<1> HIDE DEF curl, h, b, bad
<1>6. /\ {"tmp", "curl"} \subseteq DOMAIN bridge' /\ bridge'.curl = curl
      /\ DOMAIN bridge'.tmp = {"reqbody", "hdrs", "body"}
      /\ bridge'.tmp.reqbody = bridge.tmp.reqbody /\ bridge'.tmp.hdrs = h /\ bridge'.tmp.body = b
  BY <1>3 DEF AnswerInv, BridgeInv
<1>7. BridgeInv'
  BY <1>4, <1>5, <1>6 DEF AnswerInv, BridgeInv
<1>8. Top' = Top /\ FreeFds(os') = FreeFds(os)
  BY <1>1 DEF Top
<1>9. HttpFrameInv'
  BY <1>1, <1>4, <1>6, <1>8 DEF AnswerInv, HttpFrameInv
<1> QED
  BY <1>1, <1>7, <1>9 DEF AnswerFine, AnswerInv, AnswerKept

----------------------------------------------------------------------------
(* All together *)
LEMMA AnswerStep ==
  ASSUME Sound, AnswerInv, [SyncNext]_syncVars
  PROVE  AnswerFine
<1>1. CASE Files
  BY <1>1, FilesAnswer DEF Files
<1>2. CASE CallHttp
  BY <1>2, CallHttpAnswer
<1>3. CASE DoCurl
  BY <1>3, FindCurlAnswer, WritesRequestAnswer, ForksAnswer, ReapsAnswer, WaitIsInterruptedAnswer,
     ReadsAnswerAnswer, HttpReturnsAnswer DEF DoCurl
<1>4. CASE Curl
  BY <1>4, CurlAnswer
<1>5. CASE UNCHANGED syncVars
  BY <1>5, SameRequest DEF syncVars, vars
<1> QED
  BY <1>1, <1>2, <1>3, <1>4, <1>5 DEF SyncNext

LEMMA Starting == SyncInit => Sound /\ AnswerInv
<1> SUFFICES ASSUME SyncInit PROVE Sound /\ AnswerInv
  OBVIOUS
<1>1. /\ os = [tree |-> StartTree, data |-> StartData, fds |-> [f \in Fds |-> Closed], full |-> FALSE]
      /\ stack = <<>> /\ api = NoCall /\ immediates = <<>> /\ rs = NoStream /\ ws = NoStream
      /\ bridge = [tmp |-> NoTmp, curl |-> NoCurl]
  BY DEF SyncInit, Init
<1>2. FdInv
  BY FdStart
<1>3. IsDisk(os)
  <2>1. /\ {"tree", "data", "fds", "full"} \subseteq DOMAIN os /\ os.tree = StartTree /\ os.data = StartData
        /\ os.fds = [f \in Fds |-> Closed]
    BY <1>1
  <2>2. Closed \in [ino : Inodes \cup {0}, pos : Nat, flags : SUBSET Modes] /\ "write" \notin Closed.flags
    BY DEF Closed, Modes
  <2>3. \A q \in DOMAIN os.tree : IsEntry(os.tree[q])
    BY <2>1, StartTreeAssumption DEF IsEntry
  <2> QED
    BY <2>1, <2>2, <2>3, FileSystemAssumption DEF IsDisk
<1>4. Calm
  BY <1>1 DEF Calm, StreamsInv, BytesInv, CallInv, WholeInv
<1>5. AnswerInv
  BY <1>1 DEF AnswerInv, BridgeInv, HttpFrameInv, NoTmp, NoCurl
<1> QED
  BY <1>2, <1>3, <1>4, <1>5 DEF Sound

\* What CallsAreWhole says of a step.
WholeStep == /\ (Succeeds => FileKept(api, os'))
             /\ AnswerKept
LEMMA SoundStep == Sound /\ AnswerInv /\ StreamInv /\ [SyncNext]_syncVars => (Sound /\ AnswerInv)' /\ WholeStep
<1> SUFFICES ASSUME Sound, AnswerInv, StreamInv, [SyncNext]_syncVars PROVE (Sound /\ AnswerInv)' /\ WholeStep
  OBVIOUS
<1>1. FdInv'
  BY FdStep DEF Sound
<1>2. Fine /\ AnswerFine
  BY StepFine, AnswerStep
<1> QED
  BY <1>1, <1>2 DEF Sound, Fine, Kept, AnswerFine, WholeStep

\* A write, an append, a copy or a recursive mkdir, of a stream too, and a getSync or
\* a postSync, that reports no error has done all of it: every byte is in the file, in
\* order, the directory is there, the answer is the last one curl received, and no
\* temporary file is left; whatever writes were short, whatever descriptors, inodes or
\* space ran out on the way, for any files, bytes and calls, unless another process
\* changed the files meanwhile.
THEOREM CallsDoAllOfIt == SyncSpec => CallsAreWhole
<1>1. WholeStep => [Succeeds => FileKept(api, os')]_vars /\ [AnswerKept]_syncVars
  BY DEF WholeStep
<1>2. SyncSpec => [][Succeeds => FileKept(api, os')]_vars
  BY <1>1, Starting, FdStart, StreamStep, SoundStep, PTL DEF SyncSpec
<1>3. SyncSpec => [][AnswerKept]_syncVars
  BY <1>1, Starting, FdStart, StreamStep, SoundStep, PTL DEF SyncSpec
<1> QED
  BY <1>2, <1>3, PTL DEF CallsAreWhole, FilesAreWhole, AnswerIsWhole, AnswerKept
=============================================================================
