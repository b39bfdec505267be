--------------------------- MODULE SynchronousProofs ---------------------------
(* What the program does while its loop stands still.  Three results about     *)
(* require(), for any files, requires, edits and processes: the path functions *)
(* of path.cpp and require.cpp agree on every path; a file is evaluated once,  *)
(* whatever its spellings and the cycles of requires; the translation caches   *)
(* never hand out a translation of another version.  And the safety of DoSpawn *)
(* for pipes, inputs and outputs of any size.                                  *)
EXTENDS Loader, SpawnSync, TLAPS, NaturalsInduction, WellFoundedInduction, SequenceTheorems

(* Sequences and loops *)
\* Induction over the naturals, for sets: what contains 0 and with each number the
\* next one is all of them.  (The library's theorem is about an operator.)
LEMMA Induction ==
  ASSUME NEW N, N \subseteq Nat, 0 \in N, \A n \in N : n + 1 \in N
  PROVE  N = Nat
<1> DEFINE T == Nat \ N
<1>1. SUFFICES ASSUME T # {} PROVE FALSE
  OBVIOUS
<1>2. PICK m \in T : \A n \in T : <<n, m>> \notin OpToRel(<, Nat)
  <2> HIDE DEF T
  <2> T \subseteq Nat BY DEF T
  <2> QED BY <1>1, NatLessThanWellFounded, WFMin
<1>3. \A a, b \in Nat : a < b => <<a, b>> \in OpToRel(<, Nat)
  BY DEF OpToRel
<1>4. m \in Nat /\ m \notin N /\ m # 0
  OBVIOUS
<1>5. m - 1 \in Nat /\ m - 1 < m
  BY <1>4
<1>6. m - 1 \in N
  BY <1>2, <1>3, <1>4, <1>5
<1>7. (m - 1) + 1 \in N
  BY <1>6
<1> QED BY <1>4, <1>7

\* What is left of a sequence without its last element.
LEMMA FrontFacts ==
  ASSUME NEW S, NEW s \in Seq(S), s # <<>>
  PROVE  /\ Front(s) \in Seq(S)
         /\ Len(Front(s)) = Len(s) - 1
         /\ \A i \in 1..(Len(s) - 1) : Front(s)[i] = s[i]
<1>1. Len(s) \in Nat /\ Len(s) > 0
  OBVIOUS
<1>2. \A i \in 1..(Len(s) - 1) : s[i] \in S
  BY <1>1
<1>3. Front(s) = [i \in 1..(Len(s) - 1) |-> s[i]]
  BY <1>1, SMTT(20) DEF Front
<1> QED
  BY <1>1, <1>2, <1>3

\* The same for sequences: what contains <<>> and with each sequence those that are
\* longer by one element is all of them.
LEMMA SeqInduction ==
  ASSUME NEW S, NEW T, T \subseteq Seq(S), <<>> \in T,
         \A p \in T, a \in S : Append(p, a) \in T
  PROVE  T = Seq(S)
<1> DEFINE N == {n \in Nat : \A p \in Seq(S) : Len(p) = n => p \in T}
<1>1. 0 \in N
  <2>1. \A p \in Seq(S) : Len(p) = 0 => p = <<>>
    OBVIOUS
  <2> QED BY <2>1
<1>2. ASSUME NEW n \in N PROVE n + 1 \in N
  <2>1. SUFFICES ASSUME NEW p \in Seq(S), Len(p) = n + 1 PROVE p \in T
    OBVIOUS
  <2>2. n \in Nat /\ p # <<>> /\ \A q \in Seq(S) : Len(q) = n => q \in T
    BY <2>1
  <2>3. PICK q \in Seq(S), a \in S : p = Append(q, a)
    BY <2>2, SequenceEmptyOrAppend
  <2>4. Len(q) = n
    BY <2>1, <2>2, <2>3
  <2> QED BY <2>2, <2>3, <2>4
<1> HIDE DEF N
<1>3. N = Nat
  BY <1>1, <1>2, Induction DEF N
<1>4. \A p \in Seq(S) : Len(p) \in N
  BY <1>3
<1> QED BY <1>4 DEF N


\* A loop over parts in S that keeps a value in R: it starts with the first value,
\* and goes from part to part with its step.
Loops(step, first, S, R) ==
  /\ Along(step, first, <<>>) = first
  /\ \A p \in Seq(S) : Along(step, first, p) \in R
  /\ \A p \in Seq(S), a \in S :
       Along(step, first, Append(p, a)) = step[Along(step, first, p)][a]
\* Along is such a loop.
LEMMA AlongSteps ==
  ASSUME NEW S, NEW R, NEW first, NEW step, first \in R, step \in [R -> [S -> R]]
  PROVE  Loops(step, first, S, R)
<1> DEFINE Upto(k, l, p) == /\ k \in [0..l -> R] /\ k[0] = first
                            /\ \A n \in 1..l : k[n] = step[k[n - 1]][p[n]]
           Follows(c, l, p) == /\ c[0] = first
                               /\ \A n \in 1..l : c[n - 1] \in R => c[n] = step[c[n - 1]][p[n]]
\* There is a function of the number of parts done,
<1>1. ASSUME NEW p \in Seq(S) PROVE \E k : Upto(k, Len(p), p)
  <2> DEFINE N == {m \in Nat : m <= Len(p) => \E k : Upto(k, m, p)}
  <2>1. 0 \in N
    <3> DEFINE k == [n \in 0..0 |-> first]
    <3>1. Upto(k, 0, p)
      OBVIOUS
    <3> HIDE DEF Upto
    <3> QED BY <3>1
  <2>2. ASSUME NEW m \in N PROVE m + 1 \in N
    <3> HIDE DEF Upto
    <3>1. SUFFICES ASSUME m + 1 <= Len(p) PROVE \E k : Upto(k, m + 1, p)
      OBVIOUS
    <3>2. m \in Nat /\ m <= Len(p) /\ m + 1 \in 1..Len(p) /\ p[m + 1] \in S
      BY <3>1
    <3>3. PICK k : Upto(k, m, p)
      BY <3>2
    <3> DEFINE j == [n \in 0..(m + 1) |-> IF n <= m THEN k[n] ELSE step[k[m]][p[m + 1]]]
    <3>4. /\ k \in [0..m -> R] /\ k[0] = first
          /\ \A n \in 1..m : k[n] = step[k[n - 1]][p[n]]
      BY <3>3 DEF Upto
    <3>5. k[m] \in R /\ step[k[m]][p[m + 1]] \in R
      BY <3>2, <3>4
    <3>6. j \in [0..(m + 1) -> R] /\ j[0] = first
      BY <3>2, <3>4, <3>5
    <3>7. ASSUME NEW n \in 1..(m + 1) PROVE j[n] = step[j[n - 1]][p[n]]
      <4>1. CASE n <= m
        <5>1. n \in 1..m /\ n - 1 \in 0..(m + 1) /\ n - 1 <= m
          BY <4>1, <3>2
        <5> QED BY <4>1, <5>1, <3>4
      <4>2. CASE n = m + 1
        <5>1. n - 1 = m /\ m \in 0..(m + 1) /\ m <= m /\ ~(n <= m)
          BY <4>2, <3>2
        <5> QED BY <4>2, <5>1
      <4> QED BY <4>1, <4>2, <3>2
    <3> HIDE DEF j
    <3>8. Upto(j, m + 1, p)
      BY <3>6, <3>7 DEF Upto
    <3> QED BY <3>8
  <2> HIDE DEF N
  <2>3. N = Nat
    BY <2>1, <2>2, Induction DEF N
  <2>4. Len(p) \in N
    BY <2>3
  <2> QED BY <2>4 DEF N
\* and what is computed like that is that function.
<1>2. ASSUME NEW p, NEW l \in Nat, NEW k, Upto(k, l, p), NEW c, Follows(c, l, p)
      PROVE  c[l] = k[l]
  <2> DEFINE N == {n \in Nat : n <= l => c[n] = k[n]}
  <2>1. 0 \in N
    BY <1>2
  <2>2. ASSUME NEW n \in N PROVE n + 1 \in N
    <3>1. SUFFICES ASSUME n + 1 <= l PROVE c[n + 1] = k[n + 1]
      OBVIOUS
    <3>2. n \in Nat /\ n <= l /\ n + 1 \in 1..l /\ (n + 1) - 1 = n /\ n \in 0..l
      BY <3>1
    <3>3. c[n] = k[n] /\ k[n] \in R
      BY <3>2, <1>2
    <3> QED BY <3>2, <3>3, <1>2
  <2> HIDE DEF N
  <2>3. N = Nat
    BY <2>1, <2>2, Induction DEF N
  <2> QED BY <2>3 DEF N
<1>3. ASSUME NEW p \in Seq(S), NEW k, Upto(k, Len(p), p)
      PROVE  Along(step, first, p) = k[Len(p)]
  <2> DEFINE Is(j) == j = [n \in 0..Len(p) |-> IF n = 0 THEN first ELSE step[j[n - 1]][p[n]]]
             c == CHOOSE j : Is(j)
  <2>1. Len(p) \in Nat
    OBVIOUS
  <2>2. Is(k)
    <3>1. k = [n \in 0..Len(p) |-> k[n]]
      BY <1>3
    <3>2. \A n \in 0..Len(p) : k[n] = IF n = 0 THEN first ELSE step[k[n - 1]][p[n]]
      BY <2>1, <1>3
    <3> QED BY <3>1, <3>2
  <2>3. Is(c) /\ Along(step, first, p) = c[Len(p)]
    <3> HIDE DEF Upto, Follows
    <3> QED BY <2>2 DEF Along
  <2> HIDE DEF c
  <2>4. ASSUME NEW n \in 0..Len(p)
        PROVE  c[n] = IF n = 0 THEN first ELSE step[c[n - 1]][p[n]]
    <3> DEFINE v(j) == [i \in 0..Len(p) |-> IF i = 0 THEN first ELSE step[j[i - 1]][p[i]]]
    <3>1. c = v(c)
      BY <2>3
    <3>2. v(c)[n] = IF n = 0 THEN first ELSE step[c[n - 1]][p[n]]
      OBVIOUS
    <3> HIDE DEF v
    <3> QED BY <3>1, <3>2
  <2>5. Follows(c, Len(p), p)
    <3>1. \A n \in 1..Len(p) : n \in 0..Len(p) /\ n # 0
      BY <2>1
    <3>2. 0 \in 0..Len(p)
      BY <2>1
    <3>3. \A n \in 1..Len(p) : c[n] = step[c[n - 1]][p[n]]
      BY <3>1, <2>4
    <3> QED BY <3>2, <3>3, <2>4
  <2> HIDE DEF Upto, Follows, Is
  <2> QED BY <2>1, <2>3, <2>5, <1>2, <1>3
<1> HIDE DEF Upto, Follows
<1>4. Along(step, first, <<>>) = first
  <2>1. <<>> \in Seq(S) /\ Len(<<>>) = 0
    OBVIOUS
  <2>2. PICK k : Upto(k, Len(<<>>), <<>>)
    BY <2>1, <1>1
  <2>3. Along(step, first, <<>>) = k[Len(<<>>)]
    BY <2>1, <2>2, <1>3
  <2>4. k[0] = first
    BY <2>2 DEF Upto
  <2> QED BY <2>1, <2>3, <2>4
<1>5. ASSUME NEW p \in Seq(S) PROVE Along(step, first, p) \in R
  <2>1. PICK k : Upto(k, Len(p), p)
    BY <1>1
  <2>2. Along(step, first, p) = k[Len(p)]
    BY <2>1, <1>3
  <2>3. k \in [0..Len(p) -> R] /\ Len(p) \in 0..Len(p)
    BY <2>1 DEF Upto
  <2> QED BY <2>2, <2>3
<1>6. ASSUME NEW p \in Seq(S), NEW a \in S
      PROVE  Along(step, first, Append(p, a)) = step[Along(step, first, p)][a]
  <2> DEFINE q == Append(p, a)
             l == Len(p)
  <2>1. q \in Seq(S) /\ l \in Nat /\ Len(q) = l + 1 /\ q[l + 1] = a /\ \A n \in 1..l : q[n] = p[n]
    OBVIOUS
  <2>2. PICK k : Upto(k, l, p)
    BY <1>1
  <2>3. Along(step, first, p) = k[l]
    BY <2>2, <1>3
  <2> HIDE DEF q, l
  <2>4. PICK c : Upto(c, Len(q), q)
    BY <2>1, <1>1
  <2>5. Along(step, first, q) = c[l + 1]
    BY <2>1, <2>4, <1>3
  <2>6. c[0] = first /\ \A n \in 1..(l + 1) : c[n] = step[c[n - 1]][q[n]]
    BY <2>1, <2>4 DEF Upto
  <2>7. \A n \in 1..l : c[n] = step[c[n - 1]][p[n]]
    <3> SUFFICES ASSUME NEW n \in 1..l PROVE c[n] = step[c[n - 1]][p[n]]
      OBVIOUS
    <3>1. n \in 1..(l + 1) /\ q[n] = p[n]
      BY <2>1
    <3> QED BY <2>6, <3>1
  <2>8. Follows(c, l, p)
    BY <2>6, <2>7 DEF Follows
  <2>9. c[l] = k[l]
    BY <2>1, <2>2, <2>8, <1>2
  <2>10. l + 1 \in 1..(l + 1) /\ (l + 1) - 1 = l
    BY <2>1
  <2>11. c[l + 1] = step[c[l]][a]
    BY <2>1, <2>6, <2>10
  <2> QED BY <2>3, <2>5, <2>9, <2>11 DEF q
<1> QED BY <1>4, <1>5, <1>6 DEF Loops

\* Concatenation goes element by element.
LEMMA ConcatAppend ==
  \A s, t \in Seq(Names), a \in Names : s \o Append(t, a) = Append(s \o t, a)
<1> SUFFICES ASSUME NEW s \in Seq(Names), NEW t \in Seq(Names), NEW a \in Names
             PROVE  s \o Append(t, a) = Append(s \o t, a)
  OBVIOUS
<1>1. <<a>> \in Seq(Names) /\ s \o t \in Seq(Names)
  BY ConcatProperties
<1>2. Append(t, a) = t \o <<a>> /\ Append(s \o t, a) = (s \o t) \o <<a>>
  BY <1>1, AppendIsConcat
<1> QED BY <1>1, <1>2, ConcatAssociative
----------------------------------------------------------------------------
(* Paths *)

\* Pop takes back what Append added.
LEMMA PopFacts ==
  ASSUME NEW S, NEW r \in Seq(S)
  PROVE  /\ Pop(r) \in Seq(S)
         /\ \A a \in S : Pop(Append(r, a)) = r
<1>1. Pop(r) \in Seq(S)
  BY FrontFacts DEF Pop
<1>2. ASSUME NEW a \in S PROVE Pop(Append(r, a)) = r
  <2> DEFINE s == Append(r, a)
  <2>1. s \in Seq(S) /\ s # <<>> /\ Len(s) = Len(r) + 1 /\ \A i \in 1..Len(r) : s[i] = r[i]
    BY AppendProperties
  <2> HIDE DEF s
  <2>2. Front(s) \in Seq(S) /\ Len(Front(s)) = Len(r) /\ \A i \in 1..Len(r) : Front(s)[i] = r[i]
    BY <2>1, FrontFacts
  <2>3. Front(s) = r
    BY <2>2, SeqEqual
  <2> QED BY <2>1, <2>3 DEF Pop, s
<1> QED BY <1>1, <1>2

\* What CanonicalizePath does with a part.
LEMMA PutIs ==
  ASSUME NEW S, NEW r \in Seq(S), NEW a \in S
  PROVE  /\ Put(r, a) \in Seq(S)
         /\ a \in {"", "."} => Put(r, a) = r
         /\ a = ".." => Put(r, a) = Pop(r)
         /\ a \notin {"", ".", ".."} => Put(r, a) = Append(r, a)
<1>1. a \in {"", "."} => Put(r, a) = r
  BY DEF Put
<1>2. a = ".." => Put(r, a) = Pop(r)
  BY DEF Put
<1>3. a \notin {"", ".", ".."} => Put(r, a) = Append(r, a)
  BY DEF Put
<1>4. Pop(r) \in Seq(S) /\ Append(r, a) \in Seq(S)
  BY PopFacts, AppendProperties
<1> QED BY <1>1, <1>2, <1>3, <1>4

\* CanonicalizePath works part by part.
LEMMA CanonicalSteps ==
  /\ Canonical(<<>>) = <<>>
  /\ \A p \in Seq(Names) : Canonical(p) \in Seq(Names)
  /\ \A p \in Seq(Names), a \in Names : Canonical(Append(p, a)) = Put(Canonical(p), a)
<1> DEFINE step == [kept \in Seq(Names) |-> [part \in Names |-> Put(kept, part)]]
<1>1. \A r \in Seq(Names), a \in Names : Put(r, a) \in Seq(Names)
  BY PutIs
<1>2. step \in [Seq(Names) -> [Names -> Seq(Names)]]
      /\ \A r \in Seq(Names), a \in Names : step[r][a] = Put(r, a)
  BY <1>1
<1>3. <<>> \in Seq(Names) /\ \A p : Canonical(p) = Along(step, <<>>, p)
  BY DEF Canonical
<1> HIDE DEF step
<1>4. Loops(step, <<>>, Names, Seq(Names))
  BY <1>2, <1>3, AlongSteps
<1> QED BY <1>2, <1>3, <1>4 DEF Loops

\* The first pass of path.resolve works part by part,
LEMMA WithoutDotsSteps ==
  /\ WithoutDots(<<>>) = <<>>
  /\ \A p \in Seq(Names) : WithoutDots(p) \in Seq(Names)
  /\ \A p \in Seq(Names), a \in Names :
       WithoutDots(Append(p, a)) = IF a \in {"", "."} THEN WithoutDots(p) ELSE Append(WithoutDots(p), a)
<1> DEFINE Step(r, a) == IF a \in {"", "."} THEN r ELSE Append(r, a)
           step == [tmp \in Seq(Names) |-> [part \in Names |-> Step(tmp, part)]]
<1>1. \A r \in Seq(Names), a \in Names : Step(r, a) \in Seq(Names)
  BY AppendProperties
<1>2. \A p : WithoutDots(p) = Along(step, <<>>, p)
  BY DEF WithoutDots
<1> HIDE DEF Step
<1>3. /\ <<>> \in Seq(Names) /\ step \in [Seq(Names) -> [Names -> Seq(Names)]]
      /\ \A r \in Seq(Names), a \in Names : step[r][a] = Step(r, a)
  BY <1>1
<1> HIDE DEF step
<1>4. Loops(step, <<>>, Names, Seq(Names))
  BY <1>3, AlongSteps
<1> QED BY <1>2, <1>3, <1>4 DEF Step, Loops

\* and so does the second.
LEMMA WithoutUpsSteps ==
  /\ WithoutUps(<<>>) = <<>>
  /\ \A p \in Seq(Names) : WithoutUps(p) \in Seq(Names)
  /\ \A p \in Seq(Names), a \in Names :
       WithoutUps(Append(p, a)) = IF a = ".." THEN Pop(WithoutUps(p)) ELSE Append(WithoutUps(p), a)
<1> DEFINE Step(r, a) == IF a = ".." THEN Pop(r) ELSE Append(r, a)
           step == [norm \in Seq(Names) |-> [part \in Names |-> Step(norm, part)]]
<1>1. \A r \in Seq(Names), a \in Names : Step(r, a) \in Seq(Names)
  BY PopFacts, AppendProperties
<1>2. \A p : WithoutUps(p) = Along(step, <<>>, p)
  BY DEF WithoutUps
<1> HIDE DEF Step
<1>3. /\ <<>> \in Seq(Names) /\ step \in [Seq(Names) -> [Names -> Seq(Names)]]
      /\ \A r \in Seq(Names), a \in Names : step[r][a] = Step(r, a)
  BY <1>1
<1> HIDE DEF step
<1>4. Loops(step, <<>>, Names, Seq(Names))
  BY <1>3, AlongSteps
<1> QED BY <1>2, <1>3, <1>4 DEF Step, Loops

\* What path.normalize does with a part.
LEMMA NormalPutIs ==
  ASSUME NEW r \in Seq(Names), NEW a \in Names, NEW absolute \in BOOLEAN
  PROVE  /\ a \in {"", "."} => NormalPut(r, a, absolute) = r
         /\ a = ".." => NormalPut(r, a, absolute) = Up(r, absolute)
         /\ a \notin {"", ".", ".."} => NormalPut(r, a, absolute) = Append(r, a)
         /\ NormalPut(r, a, absolute) \in Seq(Names)
<1>1. a \in {"", "."} => NormalPut(r, a, absolute) = r
  BY DEF NormalPut
<1>2. a = ".." => NormalPut(r, a, absolute) = Up(r, absolute)
  BY DEF NormalPut
<1>3. a \notin {"", ".", ".."} => NormalPut(r, a, absolute) = Append(r, a)
  BY DEF NormalPut
<1>4. Append(r, a) \in Seq(Names)
  BY AppendProperties
<1>5. Up(r, absolute) \in Seq(Names)
  <2>1. ".." \in Names
    BY LoaderAssumption
  <2>2. Append(r, "..") \in Seq(Names) /\ (r # <<>> => Front(r) \in Seq(Names))
    BY <2>1, FrontFacts, AppendProperties
  <2> QED BY <2>2 DEF Up
<1> QED BY <1>1, <1>2, <1>3, <1>4, <1>5

\* path.normalize works part by part.
LEMMA NormalizeSteps ==
  ASSUME NEW absolute \in BOOLEAN
  PROVE  /\ PathNormalize(<<>>, absolute) = <<>>
         /\ \A p \in Seq(Names) : PathNormalize(p, absolute) \in Seq(Names)
         /\ \A p \in Seq(Names), a \in Names :
              PathNormalize(Append(p, a), absolute) = NormalPut(PathNormalize(p, absolute), a, absolute)
<1> DEFINE Step(r, a) == NormalPut(r, a, absolute)
           step == [out \in Seq(Names) |-> [part \in Names |-> Step(out, part)]]
<1>1. \A r \in Seq(Names), a \in Names : Step(r, a) \in Seq(Names)
  BY NormalPutIs
<1>2. \A p : PathNormalize(p, absolute) = Along(step, <<>>, p)
  BY DEF PathNormalize
<1> HIDE DEF Step
<1>3. /\ <<>> \in Seq(Names) /\ step \in [Seq(Names) -> [Names -> Seq(Names)]]
      /\ \A r \in Seq(Names), a \in Names : step[r][a] = Step(r, a)
  BY <1>1
<1> HIDE DEF step
<1>4. Loops(step, <<>>, Names, Seq(Names))
  BY <1>3, AlongSteps
<1> QED BY <1>2, <1>3, <1>4 DEF Step, Loops

\* path.resolve of one argument joins it to the working directory, or does not.
LEMMA JoinedOne ==
  ASSUME NEW cwd \in Seq(Names), NEW p \in Seq(Names), NEW absolute \in BOOLEAN
  PROVE  Joined(cwd, <<[absolute |-> absolute, at |-> p]>>) = IF absolute THEN p ELSE cwd \o p
<1> DEFINE Args == [absolute : BOOLEAN, at : Seq(Names)]
           Step(r, a) == IF a.absolute THEN a.at ELSE r \o a.at
           step == [out \in Seq(Names) |-> [a \in Args |-> Step(out, a)]]
           arg == [absolute |-> absolute, at |-> p]
<1>1. \A r \in Seq(Names), a \in Args : Step(r, a) \in Seq(Names)
  BY ConcatProperties
<1>2. \A args : Joined(cwd, args) = Along(step, cwd, args)
  BY DEF Joined
<1>3. Step(cwd, arg) = (IF absolute THEN p ELSE cwd \o p) /\ arg \in Args
  OBVIOUS
<1> HIDE DEF Step, arg, Args
<1>4. /\ step \in [Seq(Names) -> [Args -> Seq(Names)]]
      /\ \A r \in Seq(Names), a \in Args : step[r][a] = Step(r, a)
  BY <1>1
<1> HIDE DEF step
<1>5. Loops(step, cwd, Args, Seq(Names))
  BY <1>4, AlongSteps
<1>6. <<>> \in Seq(Args) /\ <<arg>> = Append(<<>>, arg)
  OBVIOUS
<1>7. Along(step, cwd, <<arg>>) = Step(cwd, arg)
  BY <1>3, <1>4, <1>5, <1>6 DEF Loops
<1> QED BY <1>2, <1>3, <1>7 DEF arg

\* path.join of two.
LEMMA JoinTwo ==
  ASSUME NEW d \in Seq(Names), NEW p \in Seq(Names)
  PROVE  PathJoin(<<d, p>>) = d \o p
<1> DEFINE P == Seq(Names)
           step == [out \in P |-> [part \in P |-> out \o part]]
<1>1. PathJoin(<<d, p>>) = Along(step, <<>>, <<d, p>>)
  BY DEF PathJoin
<1>2. /\ step \in [P -> [P -> P]] /\ <<>> \in P
      /\ \A r, a \in P : step[r][a] = r \o a
  BY ConcatProperties
<1>3. <<>> \o d = d
  BY ConcatEmptySeq
<1> HIDE DEF step
<1>4. d \in P /\ p \in P
  OBVIOUS
<1> HIDE DEF P
<1>5. Loops(step, <<>>, P, P)
  BY <1>2, AlongSteps
<1>6. <<>> \in Seq(P) /\ <<d>> = Append(<<>>, d) /\ <<d>> \in Seq(P) /\ <<d, p>> = Append(<<d>>, p)
  BY <1>4
<1>7. Along(step, <<>>, <<d>>) = d
  <2>1. Along(step, <<>>, <<d>>) = step[Along(step, <<>>, <<>>)][d]
    BY <1>4, <1>5, <1>6 DEF Loops
  <2>2. Along(step, <<>>, <<>>) = <<>>
    BY <1>5 DEF Loops
  <2> QED BY <1>2, <1>3, <1>4, <2>1, <2>2
<1>8. Along(step, <<>>, <<d, p>>) = d \o p
  BY <1>2, <1>4, <1>5, <1>6, <1>7 DEF Loops
<1> QED BY <1>1, <1>8

\* Components that are names.
Ordinary == Names \ {"", ".", ".."}

\* CanonicalizePath returns a path of names,
LEMMA CanonicalIsOrdinary == \A p \in Seq(Names) : Canonical(p) \in Seq(Ordinary)
<1> DEFINE T == {q \in Seq(Names) : Canonical(q) \in Seq(Ordinary)}
<1>1. <<>> \in T
  <2>1. <<>> \in Seq(Names) /\ <<>> \in Seq(Ordinary)
    OBVIOUS
  <2> QED BY <2>1, CanonicalSteps
<1>2. ASSUME NEW q \in T, NEW a \in Names PROVE Append(q, a) \in T
  <2>1. Append(q, a) \in Seq(Names) /\ Canonical(Append(q, a)) = Put(Canonical(q), a)
    BY CanonicalSteps, AppendProperties
  <2> DEFINE c == Canonical(q)
  <2>2. c \in Seq(Ordinary) /\ c \in Seq(Names)
    BY CanonicalSteps
  <2> HIDE DEF c
  <2>3. Put(c, a) \in Seq(Ordinary)
    <3>1. CASE a \in {"", "."}
      <4>1. Put(c, a) = c
        BY <3>1, <2>2, PutIs
      <4> QED BY <4>1, <2>2
    <3>2. CASE a = ".."
      <4>1. Put(c, a) = Pop(c)
        BY <3>2, <2>2, PutIs
      <4> QED BY <4>1, <2>2, PopFacts
    <3>3. CASE a \notin {"", ".", ".."}
      <4>1. Put(c, a) = Append(c, a) /\ a \in Ordinary
        BY <3>3, <2>2, PutIs DEF Ordinary
      <4> QED BY <4>1, <2>2, AppendProperties
    <3> QED BY <3>1, <3>2, <3>3
  <2> QED BY <2>1, <2>3 DEF c
<1> HIDE DEF T
<1>3. T = Seq(Names)
  <2>1. T \subseteq Seq(Names)
    BY DEF T
  <2> QED BY <1>1, <1>2, <2>1, SeqInduction
<1> QED BY <1>3 DEF T

\* A path of names is a path.
LEMMA OrdinaryAreNames == \A p \in Seq(Ordinary) : p \in Seq(Names)
BY SeqMonotonic DEF Ordinary

\* A path of names is appended to as it is.
LEMMA CanonicalKeeps ==
  ASSUME NEW d \in Seq(Names), NEW w \in Seq(Ordinary)
  PROVE  Canonical(d \o w) = Canonical(d) \o w
<1> DEFINE T == {v \in Seq(Ordinary) : Canonical(d \o v) = Canonical(d) \o v}
<1>0. Canonical(d) \in Seq(Names)
  BY CanonicalSteps
<1>1. <<>> \in T
  <2>1. <<>> \in Seq(Ordinary) /\ d \o <<>> = d /\ Canonical(d) \o <<>> = Canonical(d)
    BY <1>0, ConcatEmptySeq
  <2> QED BY <2>1
<1>2. ASSUME NEW v \in T, NEW a \in Ordinary PROVE Append(v, a) \in T
  <2>1. v \in Seq(Names) /\ v \in Seq(Ordinary) /\ a \in Names /\ a \notin {"", ".", ".."}
    BY OrdinaryAreNames DEF Ordinary
  <2> HIDE DEF T
  <2>2. d \o v \in Seq(Names) /\ Append(v, a) \in Seq(Ordinary)
    BY <2>1, ConcatProperties, AppendProperties
  <2>3. d \o Append(v, a) = Append(d \o v, a)
    BY <2>1, ConcatAppend
  <2>4. Canonical(d) \o Append(v, a) = Append(Canonical(d) \o v, a)
    BY <1>0, <2>1, ConcatAppend
  <2>5. Canonical(Append(d \o v, a)) = Put(Canonical(d \o v), a)
    BY <2>1, <2>2, CanonicalSteps
  <2>6. Canonical(d \o v) \in Seq(Names)
    BY <2>2, CanonicalSteps
  <2>7. Put(Canonical(d \o v), a) = Append(Canonical(d \o v), a)
    BY <2>1, <2>6, PutIs
  <2>8. Canonical(d \o v) = Canonical(d) \o v
    BY DEF T
  <2> QED BY <2>2, <2>3, <2>4, <2>5, <2>7, <2>8 DEF T
<1> HIDE DEF T
<1>3. T = Seq(Ordinary)
  <2>1. T \subseteq Seq(Ordinary)
    BY DEF T
  <2> QED BY <1>1, <1>2, <2>1, SeqInduction
<1> QED BY <1>3 DEF T

\* and leaves one as it is: it is idempotent.
LEMMA CanonicalFixes == \A p \in Seq(Ordinary) : Canonical(p) = p
<1> SUFFICES ASSUME NEW p \in Seq(Ordinary) PROVE Canonical(p) = p
  OBVIOUS
<1>1. <<>> \in Seq(Names) /\ p \in Seq(Names)
  BY OrdinaryAreNames
<1>2. <<>> \o p = p
  BY <1>1, ConcatEmptySeq
<1>3. Canonical(<<>> \o p) = Canonical(<<>>) \o p
  BY <1>1, CanonicalKeeps
<1> QED BY <1>2, <1>3, CanonicalSteps

\* path.resolve works in two passes, with the same result.
LEMMA TwoPasses == \A p \in Seq(Names) : WithoutUps(WithoutDots(p)) = Canonical(p)
<1> DEFINE T == {q \in Seq(Names) : WithoutUps(WithoutDots(q)) = Canonical(q)}
<1>1. <<>> \in T
  <2>1. <<>> \in Seq(Names)
    OBVIOUS
  <2> QED BY <2>1, CanonicalSteps, WithoutDotsSteps, WithoutUpsSteps
<1>2. ASSUME NEW q \in T, NEW a \in Names PROVE Append(q, a) \in T
  <2>1. Append(q, a) \in Seq(Names) /\ Canonical(Append(q, a)) = Put(Canonical(q), a)
    BY CanonicalSteps, AppendProperties
  <2>2. Canonical(q) \in Seq(Names) /\ WithoutDots(q) \in Seq(Names) /\ WithoutUps(WithoutDots(q)) = Canonical(q)
    BY CanonicalSteps, WithoutDotsSteps
  <2>3. CASE a \in {"", "."}
    <3>1. WithoutDots(Append(q, a)) = WithoutDots(q)
      BY <2>3, WithoutDotsSteps
    <3>2. Put(Canonical(q), a) = Canonical(q)
      BY <2>2, <2>3, PutIs
    <3> QED BY <2>1, <2>2, <3>1, <3>2
  <2>4. CASE a \notin {"", "."}
    <3>1. WithoutDots(Append(q, a)) = Append(WithoutDots(q), a)
      BY <2>4, WithoutDotsSteps
    <3>2. WithoutUps(Append(WithoutDots(q), a)) = IF a = ".." THEN Pop(Canonical(q)) ELSE Append(Canonical(q), a)
      BY <2>2, WithoutUpsSteps
    <3>3. Put(Canonical(q), a) = IF a = ".." THEN Pop(Canonical(q)) ELSE Append(Canonical(q), a)
      BY <2>2, <2>4, PutIs
    <3> QED BY <2>1, <3>1, <3>2, <3>3
  <2> QED BY <2>3, <2>4
<1> HIDE DEF T
<1>3. T = Seq(Names)
  <2>1. T \subseteq Seq(Names)
    BY DEF T
  <2> QED BY <1>1, <1>2, <2>1, SeqInduction
<1> QED BY <1>3 DEF T

\* On absolute paths path.normalize is CanonicalizePath.
LEMMA NormalizeAbsolute == \A p \in Seq(Names) : PathNormalize(p, TRUE) = Canonical(p)
<1> DEFINE T == {q \in Seq(Names) : PathNormalize(q, TRUE) = Canonical(q)}
<1>1. <<>> \in T
  <2>1. <<>> \in Seq(Names)
    OBVIOUS
  <2> QED BY <2>1, CanonicalSteps, NormalizeSteps
<1>2. ASSUME NEW q \in T, NEW a \in Names PROVE Append(q, a) \in T
  <2> DEFINE c == Canonical(q)
  <2>1. Append(q, a) \in Seq(Names) /\ Canonical(Append(q, a)) = Put(c, a)
    BY CanonicalSteps, AppendProperties
  <2>2. PathNormalize(Append(q, a), TRUE) = NormalPut(c, a, TRUE)
    BY NormalizeSteps
  <2>3. c \in Seq(Ordinary) /\ c \in Seq(Names)
    BY CanonicalSteps, CanonicalIsOrdinary
  <2> HIDE DEF c, T
  <2>4. NormalPut(c, a, TRUE) = Put(c, a)
    <3>1. CASE a \in {"", "."}
      <4>1. Put(c, a) = c /\ NormalPut(c, a, TRUE) = c
        BY <3>1, <2>3, PutIs, NormalPutIs
      <4> QED BY <4>1
    <3>2. CASE a = ".."
      <4>1. Put(c, a) = Pop(c) /\ NormalPut(c, a, TRUE) = Up(c, TRUE)
        BY <3>2, <2>3, PutIs, NormalPutIs
      <4>2. c # <<>> => Last(c) \in Ordinary
        BY <2>3 DEF Last
      <4>3. c # <<>> => Last(c) # ".."
        BY <4>2 DEF Ordinary
      <4> QED BY <4>1, <4>3 DEF Up, Pop
    <3>3. CASE a \notin {"", ".", ".."}
      <4>1. Put(c, a) = Append(c, a)
        BY <3>3, <2>3, PutIs
      <4>2. NormalPut(c, a, TRUE) = Append(c, a)
        BY <3>3, <2>3, NormalPutIs
      <4> QED BY <4>1, <4>2
    <3> QED BY <3>1, <3>2, <3>3
  <2> QED BY <2>1, <2>2, <2>4 DEF c, T
<1> HIDE DEF T
<1>3. T = Seq(Names)
  <2>1. T \subseteq Seq(Names)
    BY DEF T
  <2> QED BY <1>1, <1>2, <2>1, SeqInduction
<1> QED BY <1>3 DEF T

\* A relative path can be normalized before it is joined to a directory.
LEMMA NormalizeRelative ==
  ASSUME NEW d \in Seq(Names)
  PROVE  \A p \in Seq(Names) : Canonical(d \o PathNormalize(p, FALSE)) = Canonical(d \o p)
<1> DEFINE N(q) == PathNormalize(q, FALSE)
           Same(q) == Canonical(d \o N(q)) = Canonical(d \o q)
           Plain(q) == N(q) \in Seq(Names \ {"", "."})
           T == {q \in Seq(Names) : Same(q) /\ Plain(q)}
<1>1. <<>> \in T
  <2>1. N(<<>>) = <<>>
    BY NormalizeSteps
  <2>2. <<>> \in Seq(Names) /\ <<>> \in Seq(Names \ {"", "."})
    OBVIOUS
  <2>3. Same(<<>>) /\ Plain(<<>>)
    BY <2>1, <2>2
  <2> HIDE DEF Same, Plain
  <2> QED BY <2>2, <2>3
<1>2. ASSUME NEW q \in T, NEW a \in Names PROVE Append(q, a) \in T
  <2> DEFINE x == N(q)
  <2>1. /\ Append(q, a) \in Seq(Names) /\ x \in Seq(Names) /\ q \in Seq(Names)
        /\ N(Append(q, a)) = NormalPut(x, a, FALSE)
    BY NormalizeSteps, AppendProperties
  <2>2. Canonical(d \o x) = Canonical(d \o q) /\ x \in Seq(Names \ {"", "."})
    OBVIOUS
  <2> HIDE DEF x, N, T, Same, Plain
  <2>3. d \o x \in Seq(Names) /\ d \o q \in Seq(Names)
    BY <2>1, ConcatProperties
  <2> DEFINE c == Canonical(d \o x)
  <2>4. c \in Seq(Names)
    BY <2>3, CanonicalSteps
  <2>5. Canonical(d \o Append(q, a)) = Put(c, a)
    <3>1. d \o Append(q, a) = Append(d \o q, a)
      BY <2>1, ConcatAppend
    <3> QED BY <3>1, <2>2, <2>3, CanonicalSteps
  <2>6. /\ d \o Append(x, a) = Append(d \o x, a)
        /\ Canonical(Append(d \o x, a)) = Put(c, a)
    BY <2>1, <2>3, ConcatAppend, CanonicalSteps
  <2>7. a \notin {"", "."} => Append(x, a) \in Seq(Names \ {"", "."})
    BY <2>2, AppendProperties
  <2> HIDE DEF c
  <2>8. /\ Canonical(d \o NormalPut(x, a, FALSE)) = Put(c, a)
        /\ NormalPut(x, a, FALSE) \in Seq(Names \ {"", "."})
    <3>1. CASE a \in {"", "."}
      <4>1. Put(c, a) = c /\ NormalPut(x, a, FALSE) = x
        BY <3>1, <2>1, <2>4, PutIs, NormalPutIs
      <4> QED BY <4>1, <2>2 DEF c
    <3>2. CASE a = ".." /\ x # <<>> /\ Last(x) # ".."
      <4>1. Put(c, a) = Pop(c) /\ NormalPut(x, a, FALSE) = Front(x)
        BY <3>2, <2>1, <2>4, PutIs, NormalPutIs DEF Up
      <4>2. PICK y \in Seq(Names \ {"", "."}), b \in Names \ {"", "."} : x = Append(y, b)
        BY <3>2, <2>2, SequenceEmptyOrAppend
      <4>3. y \in Seq(Names) /\ b \in Names
        BY SeqMonotonic
      <4>4. Front(x) = y
        BY <3>2, <4>2, <4>3, PopFacts DEF Pop
      <4>5. b \notin {"", ".", ".."}
        <5>1. Len(Append(y, b)) = Len(y) + 1 /\ Append(y, b)[Len(y) + 1] = b
          BY <4>3, AppendProperties
        <5>2. Last(x) = b
          BY <5>1, <4>2 DEF Last
        <5> QED BY <5>2, <3>2
      <4>6. d \o y \in Seq(Names) /\ Canonical(d \o y) \in Seq(Names)
        BY <4>3, ConcatProperties, CanonicalSteps
      <4>7. c = Append(Canonical(d \o y), b)
        <5>1. d \o x = Append(d \o y, b)
          BY <4>2, <4>3, ConcatAppend
        <5>2. c = Put(Canonical(d \o y), b)
          BY <5>1, <4>3, <4>6, CanonicalSteps DEF c
        <5> QED BY <5>2, <4>3, <4>5, <4>6, PutIs
      <4>8. Pop(c) = Canonical(d \o y)
        BY <4>3, <4>6, <4>7, PopFacts
      <4> QED BY <4>1, <4>2, <4>4, <4>8
    <3>3. CASE a = ".." /\ ~(x # <<>> /\ Last(x) # "..")
      <4>1. NormalPut(x, a, FALSE) = Append(x, a)
        BY <3>3, <2>1, NormalPutIs DEF Up
      <4> QED BY <4>1, <2>6, <2>7, <3>3
    <3>4. CASE a \notin {"", ".", ".."}
      <4>1. NormalPut(x, a, FALSE) = Append(x, a)
        BY <3>4, <2>1, NormalPutIs
      <4> QED BY <4>1, <2>6, <2>7, <3>4
    <3> QED BY <3>1, <3>2, <3>3, <3>4
  <2> QED BY <2>1, <2>5, <2>8 DEF T, Same, Plain
<1> HIDE DEF T
<1>3. T = Seq(Names)
  <2>1. T \subseteq Seq(Names)
    BY DEF T
  <2> QED BY <1>1, <1>2, <2>1, SeqInduction
<1> QED BY <1>3 DEF T

\* As many "..".
Ups(k) == [i \in 1..k |-> ".."]
\* One ".." more.
LEMMA UpsFacts ==
  ASSUME NEW k \in Nat
  PROVE  Ups(k) \in Seq(Names) /\ Len(Ups(k)) = k /\ Ups(k + 1) = Append(Ups(k), "..")
<1>1. ".." \in Names
  BY LoaderAssumption
<1>2. Ups(k) \in Seq(Names) /\ Len(Ups(k)) = k
  BY <1>1 DEF Ups
<1>3. Ups(k + 1) \in Seq(Names) /\ Len(Ups(k + 1)) = k + 1
  <2>1. k + 1 \in Nat
    OBVIOUS
  <2> QED BY <1>1, <2>1 DEF Ups
<1> DEFINE s == Append(Ups(k), "..")
<1>4. s \in Seq(Names) /\ Len(s) = k + 1
      /\ (\A i \in 1..k : s[i] = Ups(k)[i]) /\ s[k + 1] = ".."
  BY <1>1, <1>2, AppendProperties
<1> HIDE DEF s
<1>5. \A i \in 1..(k + 1) : Ups(k + 1)[i] = s[i]
  <2>1. \A i \in 1..k : Ups(k)[i] = ".."
    BY DEF Ups
  <2>2. \A i \in 1..(k + 1) : Ups(k + 1)[i] = ".."
    BY DEF Ups
  <2>3. \A i \in 1..(k + 1) : i \in 1..k \/ i = k + 1
    OBVIOUS
  <2> QED BY <1>4, <2>1, <2>2, <2>3
<1>6. Ups(k + 1) = s
  BY <1>3, <1>4, <1>5, SeqEqual
<1> QED BY <1>2, <1>6 DEF s

\* Going up from a directory.
LEMMA CanonicalUps ==
  ASSUME NEW d \in Seq(Ordinary)
  PROVE  \A k \in 0..Len(d) : Canonical(d \o Ups(k)) = SubSeq(d, 1, Len(d) - k)
<1> DEFINE N == {k \in Nat : k <= Len(d) => Canonical(d \o Ups(k)) = SubSeq(d, 1, Len(d) - k)}
<1>0. ".." \in Names
  BY LoaderAssumption
<1>1. d \in Seq(Names) /\ Len(d) \in Nat /\ ".." \in Names
  BY <1>0, OrdinaryAreNames
<1>2. \A k \in Nat : Ups(k) \in Seq(Names) /\ Ups(k + 1) = Append(Ups(k), "..")
  BY UpsFacts
<1>3. 0 \in N
  <2>1. Ups(0) = <<>> /\ d \o <<>> = d /\ SubSeq(d, 1, Len(d) - 0) = d
    BY <1>1, ConcatEmptySeq, SubSeqFull DEF Ups
  <2> QED BY <2>1, CanonicalFixes
<1>4. ASSUME NEW k \in N PROVE k + 1 \in N
  <2>1. CASE ~(k + 1 <= Len(d))
    BY <2>1
  <2>2. CASE k + 1 <= Len(d)
  <3> DEFINE m == Len(d) - (k + 1)
             s == SubSeq(d, 1, m + 1)
  <3>1. k \in Nat /\ m \in Nat /\ m + 1 = Len(d) - k
    BY <2>2, <1>1
  <3>2. Canonical(d \o Ups(k)) = s
    <4>1. k <= Len(d)
      BY <2>2, <1>1
    <4>2. Canonical(d \o Ups(k)) = SubSeq(d, 1, Len(d) - k)
      BY <4>1
    <4> QED BY <3>1, <4>2
  <3>3. m + 1 <= Len(d)
    BY <3>1, <1>1
  <3> HIDE DEF N, m
  <3>4. d \o Ups(k) \in Seq(Names) /\ d \o Ups(k + 1) = Append(d \o Ups(k), "..")
    <4>1. Ups(k) \in Seq(Names) /\ Ups(k + 1) = Append(Ups(k), "..")
      BY <1>2, <3>1
    <4>2. d \o Ups(k) \in Seq(Names)
      BY <1>1, <4>1, ConcatProperties
    <4>3. d \o Append(Ups(k), "..") = Append(d \o Ups(k), "..")
      BY <1>1, <4>1, ConcatAppend
    <4> QED BY <4>1, <4>2, <4>3
  <3>5. Canonical(d \o Ups(k + 1)) = Pop(s)
    <4>1. Canonical(d \o Ups(k + 1)) = Put(s, "..") /\ s \in Seq(Names)
      BY <1>1, <3>2, <3>4, CanonicalSteps
    <4> QED BY <4>1, <1>1, PutIs
  <3>6. s = Append(SubSeq(d, 1, m), d[m + 1]) /\ SubSeq(d, 1, m) \in Seq(Names) /\ d[m + 1] \in Names
    BY <1>1, <3>1, <3>3
  <3>7. Pop(s) = SubSeq(d, 1, m)
    BY <3>6, PopFacts
  <3>8. Canonical(d \o Ups(k + 1)) = SubSeq(d, 1, Len(d) - (k + 1)) /\ k + 1 \in Nat
    BY <3>1, <3>5, <3>7 DEF m
  <3> QED BY <3>8 DEF N
  <2> QED BY <2>1, <2>2
<1> HIDE DEF N
<1>5. N = Nat
  BY <1>3, <1>4, Induction DEF N
<1>6. \A k \in 0..Len(d) : k \in N /\ k <= Len(d)
  BY <1>5, <1>1
<1> QED BY <1>6 DEF N

\* path.relative leads from a directory to the file.
LEMMA RelativeLeads ==
  ASSUME NEW d \in Seq(Ordinary), NEW t \in Seq(Ordinary)
  PROVE  Canonical(d \o PathRelative(d, t)) = t
<1> DEFINE Common(n) == n <= Len(t) /\ SubSeq(d, 1, n) = SubSeq(t, 1, n)
           Longest(n) == Common(n) /\ (n < Len(d) /\ n < Len(t) => d[n + 1] # t[n + 1])
           same == CHOOSE n \in 0..Len(d) : Longest(n)
<1>1. Len(d) \in Nat /\ Len(t) \in Nat /\ d \in Seq(Names) /\ t \in Seq(Names)
  BY OrdinaryAreNames
<1>2. \E n \in 0..Len(d) : Longest(n)
  <2> SUFFICES ASSUME \A n \in 0..Len(d) : ~Longest(n) PROVE FALSE
    OBVIOUS
  <2> DEFINE N == {n \in Nat : n <= Len(d) /\ Common(n)}
  <2>1. 0 \in N
    <3>1. SubSeq(d, 1, 0) = <<>> /\ SubSeq(t, 1, 0) = <<>>
      BY SubSeqEmpty
    <3> QED BY <3>1, <1>1
  <2>2. ASSUME NEW n \in N PROVE n + 1 \in N
    <3>1. n \in Nat /\ n \in 0..Len(d) /\ Common(n) /\ ~Longest(n)
      BY <1>1
    <3>2. n < Len(d) /\ n < Len(t) /\ d[n + 1] = t[n + 1] /\ SubSeq(d, 1, n) = SubSeq(t, 1, n)
      BY <3>1
    <3>3. SubSeq(d, 1, n + 1) = Append(SubSeq(d, 1, n), d[n + 1])
      BY <1>1, <3>1, <3>2
    <3>4. SubSeq(t, 1, n + 1) = Append(SubSeq(t, 1, n), t[n + 1])
      BY <1>1, <3>1, <3>2
    <3>5. Common(n + 1) /\ n + 1 <= Len(d)
      BY <1>1, <3>1, <3>2, <3>3, <3>4
    <3> HIDE DEF Common
    <3> QED BY <3>1, <3>5
  <2> HIDE DEF N
  <2>3. N = Nat
    BY <2>1, <2>2, Induction DEF N
  <2>4. Len(d) + 1 \in N
    BY <2>3, <1>1
  <2> QED BY <2>4, <1>1 DEF N
<1>3. same \in 0..Len(d) /\ same <= Len(t) /\ SubSeq(d, 1, same) = SubSeq(t, 1, same)
  BY <1>2
<1> DEFINE up == Ups(Len(d) - same)
           rest == SubSeq(t, same + 1, Len(t))
<1>4. PathRelative(d, t) = up \o rest
  BY DEF PathRelative, Ups
<1> HIDE DEF same
<1>5. up \in Seq(Names)
  <2>1. Len(d) - same \in Nat
    BY <1>1, <1>3
  <2> QED BY <2>1, UpsFacts
<1>6. rest \in Seq(Ordinary) /\ rest \in Seq(Names)
  <2>1. rest \in Seq(Ordinary)
    BY <1>1, <1>3, SubSeqProperties
  <2> QED BY <2>1, OrdinaryAreNames
<1>7. Canonical(d \o up) = SubSeq(d, 1, same)
  <2>1. Len(d) - same \in 0..Len(d) /\ Len(d) - (Len(d) - same) = same
    BY <1>1, <1>3
  <2> QED BY <2>1, CanonicalUps
<1>8. SubSeq(t, 1, same) \o rest = t
  <2>1. 1 \in 1..(Len(t) + 1) /\ same \in 0..Len(t) /\ Len(t) \in same..Len(t) /\ 1 - 1 = 0
    BY <1>1, <1>3
  <2>2. SubSeq(t, 1, same) \o SubSeq(t, same + 1, Len(t)) = SubSeq(t, 1, Len(t))
    BY <2>1, ConcatAdjacentSubSeq
  <2> QED BY <2>2, SubSeqFull
<1> HIDE DEF up, rest
<1>9. d \o (up \o rest) = (d \o up) \o rest
  BY <1>1, <1>5, <1>6, ConcatAssociative
<1>10. d \o up \in Seq(Names)
  BY <1>1, <1>5, ConcatProperties
<1>11. Canonical((d \o up) \o rest) = Canonical(d \o up) \o rest
  BY <1>6, <1>10, CanonicalKeeps
<1> QED BY <1>3, <1>4, <1>7, <1>8, <1>9, <1>11

\* The normalizers agree on every path, from every directory that is a path of
\* names: the claims of NormalizersAgree.
LEMMA PathsAgree ==
  ASSUME NEW p \in Seq(Names), NEW d \in Seq(Ordinary), NEW cwd \in Seq(Names)
  PROVE  /\ PathNormalize(p, TRUE) = Canonical(p)
         /\ PathResolve(cwd, <<[absolute |-> TRUE, at |-> p]>>) = Canonical(p)
         /\ Canonical(PathJoin(<<d, PathNormalize(p, FALSE)>>)) = PathResolve(d, <<[absolute |-> FALSE, at |-> p]>>)
         /\ Canonical(d \o PathRelative(d, Canonical(p))) = Canonical(p)
<1>1. d \in Seq(Names) /\ d \o p \in Seq(Names) /\ PathNormalize(p, FALSE) \in Seq(Names)
  BY OrdinaryAreNames, ConcatProperties, NormalizeSteps
<1>2. Joined(cwd, <<[absolute |-> TRUE, at |-> p]>>) = p
  BY JoinedOne
<1>3. Joined(d, <<[absolute |-> FALSE, at |-> p]>>) = d \o p
  BY <1>1, JoinedOne
<1>4. PathResolve(cwd, <<[absolute |-> TRUE, at |-> p]>>) = Canonical(p)
  BY <1>2, TwoPasses DEF PathResolve
<1>5. PathResolve(d, <<[absolute |-> FALSE, at |-> p]>>) = Canonical(d \o p)
  BY <1>1, <1>3, TwoPasses DEF PathResolve
<1>6. Canonical(PathJoin(<<d, PathNormalize(p, FALSE)>>)) = Canonical(d \o p)
  <2>1. PathJoin(<<d, PathNormalize(p, FALSE)>>) = d \o PathNormalize(p, FALSE)
    BY <1>1, JoinTwo
  <2> QED BY <2>1, <1>1, NormalizeRelative
<1>7. Canonical(p) \in Seq(Ordinary)
  BY CanonicalIsOrdinary
<1> QED BY <1>4, <1>5, <1>6, <1>7, NormalizeAbsolute, RelativeLeads

----------------------------------------------------------------------------
(* The stack of modules *)
\* A sequence is one of its own elements.
LEMMA OwnElements ==
  ASSUME NEW S, NEW s \in Seq(S)
  PROVE  s \in Seq(Range(s))
BY DEF Range

\* The next stack is made of the given frames and of modules that wait, as before.
StackOf(frames) ==
  \A i \in DOMAIN stack' :
    \/ stack'[i] \in frames
    \/ i \in DOMAIN stack /\ stack'[i] = stack[i] /\ stack[i].at = "run"

\* Replacing the innermost module by another state of it.
LEMMA ChangeKeeps ==
  ASSUME StackInv, stack # <<>>, NEW f, IsFrame(f), Change(f), raised' => f.at = "run"
  PROVE  StackInv' /\ stack' # <<>> /\ Top' = f /\ StackOf({f})
<1> DEFINE n == Len(stack)
           S == Range(stack) \cup {f}
<1>1. n \in Nat /\ n > 0 /\ stack \in Seq(S)
  BY DEF StackInv, Range
<1>0. DOMAIN stack = 1..n
  BY <1>1
<1>2. Front(stack) \in Seq(S) /\ Len(Front(stack)) = n - 1
      /\ \A i \in 1..(n - 1) : Front(stack)[i] = stack[i]
  BY <1>1, FrontFacts
<1>3. stack' \in Seq(S) /\ Len(stack') = n /\ stack'[n] = f
      /\ \A i \in 1..(n - 1) : stack'[i] = stack[i]
  BY <1>1, <1>2 DEF Change
<1>4. \A i \in 1..(n - 1) : IsFrame(stack[i]) /\ stack[i].at = "run" /\ i \in DOMAIN stack
  BY <1>0, <1>1 DEF StackInv
<1>5. stack' \in Seq(Range(stack'))
  BY <1>3, OwnElements
<1>6. \A i \in 1..n : i = n \/ i \in 1..(n - 1)
  BY <1>1
<1>7. DOMAIN stack' = 1..n /\ Last(stack') = f
  BY <1>3, <1>1 DEF Last
<1>8. \A i \in 1..n : IsFrame(stack'[i])
  BY <1>3, <1>4, <1>6
<1>9. StackOf({f})
  BY <1>3, <1>4, <1>6, <1>7 DEF StackOf
<1> QED
  BY <1>1, <1>3, <1>4, <1>5, <1>7, <1>8, <1>9 DEF StackInv, Top

\* Loading another module on top of the innermost, which waits for it.
LEMMA PushKeeps ==
  ASSUME StackInv, stack # <<>>, NEW f, IsFrame(f), f.at = "run", NEW key \in Seq(Names),
         stack' = Append(Append(Front(stack), f), Frame(key)), ~raised'
  PROVE  StackInv' /\ stack' # <<>> /\ Top' = Frame(key) /\ StackOf({f, Frame(key)})
<1> DEFINE n == Len(stack)
           g == Frame(key)
           S == Range(stack) \cup {f, g}
<1>1. n \in Nat /\ n > 0 /\ stack \in Seq(S)
  BY DEF StackInv, Range
<1>0. DOMAIN stack = 1..n
  BY <1>1
<1>2. Front(stack) \in Seq(S) /\ Len(Front(stack)) = n - 1
      /\ \A i \in 1..(n - 1) : Front(stack)[i] = stack[i]
  BY <1>1, FrontFacts
<1>3. IsFrame(g)
  BY DEF IsFrame, Frame
<1>4. stack' = Append(Append(Front(stack), f), g)
  OBVIOUS
<1> HIDE DEF g
<1>5. Append(Front(stack), f) \in Seq(S) /\ Len(Append(Front(stack), f)) = n
      /\ Append(Front(stack), f)[n] = f
      /\ \A i \in 1..(n - 1) : Append(Front(stack), f)[i] = stack[i]
  <2>1. PICK t : t = Front(stack)
    OBVIOUS
  <2>2. f \in S /\ t \in Seq(S) /\ Len(t) = n - 1
    BY <1>2, <2>1
  <2>3. Append(t, f) \in Seq(S) /\ Len(Append(t, f)) = n /\ Append(t, f)[n] = f
    BY <1>1, <2>2
  <2>4. \A i \in 1..(n - 1) : Append(t, f)[i] = t[i]
    BY <1>1, <2>2
  <2> QED
    BY <1>2, <2>1, <2>3, <2>4
<1>6. stack' \in Seq(S) /\ Len(stack') = n + 1 /\ stack'[n] = f /\ stack'[n + 1] = g
      /\ \A i \in 1..(n - 1) : stack'[i] = stack[i]
  BY <1>1, <1>4, <1>5
<1>7. \A i \in 1..(n - 1) : IsFrame(stack[i]) /\ stack[i].at = "run" /\ i \in DOMAIN stack
  BY <1>0, <1>1 DEF StackInv
<1>8. stack' \in Seq(Range(stack'))
  BY <1>6, OwnElements
<1>9. \A i \in 1..(n + 1) : i = n + 1 \/ i = n \/ i \in 1..(n - 1)
  BY <1>1
<1>10. \A i \in 1..n : i = n \/ i \in 1..(n - 1)
  BY <1>1
<1>11. DOMAIN stack' = 1..(n + 1) /\ Last(stack') = g
  BY <1>6, <1>1 DEF Last
<1>12. \A i \in 1..(n + 1) : IsFrame(stack'[i])
  BY <1>3, <1>6, <1>7, <1>9
<1>13. \A i \in 1..n : stack'[i].at = "run"
  BY <1>6, <1>7, <1>10
<1>14. StackOf({f, g})
  BY <1>6, <1>7, <1>9, <1>11 DEF StackOf
<1> QED
  BY <1>1, <1>6, <1>8, <1>11, <1>12, <1>13, <1>14 DEF StackInv, Top, g

\* The end of the innermost module: one that runs is innermost again.
LEMMA PopKeeps ==
  ASSUME StackInv, stack # <<>>, stack' = Front(stack)
  PROVE  /\ StackInv' /\ StackOf({})
         /\ stack' # <<>> => Top'.at = "run"
<1> DEFINE n == Len(stack)
<1>1. n \in Nat /\ n > 0 /\ stack \in Seq(Range(stack))
  BY DEF StackInv
<1>0. DOMAIN stack = 1..n
  BY <1>1
<1>2. stack' \in Seq(Range(stack)) /\ Len(stack') = n - 1
      /\ \A i \in 1..(n - 1) : stack'[i] = stack[i]
  BY <1>1, FrontFacts
<1>3. stack' \in Seq(Range(stack'))
  BY <1>2, OwnElements
<1>4. \A i \in 1..(n - 1) : IsFrame(stack[i]) /\ stack[i].at = "run" /\ i \in DOMAIN stack
  BY <1>0, <1>1 DEF StackInv
<1>5. DOMAIN stack' = 1..(n - 1)
  BY <1>2, <1>1
<1>6. stack' # <<>> => Top'.at = "run"
  BY <1>1, <1>2, <1>4 DEF Top, Last
<1>7. StackOf({})
  BY <1>2, <1>4, <1>5 DEF StackOf
<1>8. \A i \in DOMAIN stack' : IsFrame(stack'[i])
  BY <1>2, <1>4, <1>5
<1>9. \A i \in 1..(Len(stack') - 1) : stack'[i].at = "run"
  BY <1>1, <1>2, <1>4
<1>10. raised' /\ stack' # <<>> => Top'.at = "run"
  BY <1>6
<1> QED
  BY <1>3, <1>6, <1>7, <1>8, <1>9, <1>10 DEF StackInv

\* The innermost module's frame is as the invariant says.
LEMMA TopIs ==
  ASSUME StackInv, stack # <<>>
  PROVE  IsFrame(Top) /\ \E i \in DOMAIN stack : Top = stack[i]
BY DEF StackInv, Top, Last

\* A new process has the entry module alone.
LEMMA StartsWithEntry ==
  ASSUME stack' = <<Frame(Entry)>>, ~raised'
  PROVE  StackInv' /\ stack' # <<>> /\ Top' = Frame(Entry) /\ StackOf({Frame(Entry)})
<1>1. IsFrame(Frame(Entry))
  BY LoaderAssumption DEF Frame, IsFrame
<1>2. stack' \in Seq(Range(stack')) /\ Len(stack') = 1 /\ stack'[1] = Frame(Entry) /\ DOMAIN stack' = {1}
  BY DEF Range
<1> QED
  BY <1>1, <1>2 DEF StackInv, StackOf, Top, Last

\* f is a state of the innermost module.
OfTop(f) == IsFrame(f) /\ f.key = Top.key /\ f.file = Top.file

\* The innermost module runs and requires: it goes on, or waits for a file that
\* exists and is not in the cache, to be loaded.
Asks ==
  /\ stack # <<>> /\ Top.at = "run"
  /\ UNCHANGED <<text, mtime, cache, runs, mem, disk>>
  /\ \E f : /\ OfTop(f) /\ f.at = "run" /\ f.code = Top.code /\ f.text = Top.text
            /\ \/ Change(f)
               \/ \E key \in DOMAIN Files :
                    /\ key \notin DOMAIN cache /\ ~raised'
                    /\ stack' = Append(Append(Front(stack), f), Frame(key))

\* That is what a require, and the vendor files it falls back on, come to.
LEMMA RequireAsks ==
  ASSUME StackInv, Require \/ TryVendor
  PROVE  Asks
<1>1. CASE Require
  <2>1. stack # <<>> /\ Top.at = "run" /\ ~raised
    BY <1>1 DEF Require, Running
  <2>2. PICK spec \in Specs :
          LET dir == PathDirname(Top.file)
              frame == [Top EXCEPT !.requires = @ - 1, !.vendor = VendorFiles(spec, dir)]
              key == ResolveModule(spec, dir)
          IN  \/ Change(frame)
              \/ key \in DOMAIN Files /\ Lookup(frame, key) /\ UNCHANGED raised
    BY <1>1 DEF Require
  <2> DEFINE frame == [Top EXCEPT !.requires = @ - 1, !.vendor = VendorFiles(spec, PathDirname(Top.file))]
             key == ResolveModule(spec, PathDirname(Top.file))
  <2>3. Change(frame) \/ (key \in DOMAIN Files /\ Lookup(frame, key) /\ UNCHANGED raised)
    BY <2>2
  <2>4. IsFrame(Top) /\ frame = [Top EXCEPT !.requires = Top.requires - 1,
                                            !.vendor = VendorFiles(spec, PathDirname(Top.file))]
    BY <2>1, TopIs
  <2> HIDE DEF frame, key
  <2>5. OfTop(frame) /\ frame.at = "run" /\ frame.code = Top.code /\ frame.text = Top.text
    BY <2>1, <2>4 DEF IsFrame, OfTop
  <2>6. UNCHANGED <<text, mtime, cache, runs, mem, disk>>
    BY <1>1 DEF Require
  <2> QED
    BY <2>1, <2>3, <2>5, <2>6 DEF Asks, Lookup
<1>2. CASE TryVendor
  <2>1. stack # <<>> /\ Top.at = "run" /\ ~raised'
    BY <1>2 DEF TryVendor, StackInv
  <2> DEFINE frame == [Top EXCEPT !.vendor = Tail(@)]
             key == Canonical(Head(Top.vendor))
  <2>2. IsFrame(Top) /\ frame = [Top EXCEPT !.vendor = Tail(Top.vendor)]
    BY <2>1, TopIs
  <2>3. key \in DOMAIN Files /\ Lookup(frame, key)
    BY <1>2 DEF TryVendor
  <2> HIDE DEF frame, key
  <2>4. OfTop(frame) /\ frame.at = "run" /\ frame.code = Top.code /\ frame.text = Top.text
    BY <2>1, <2>2 DEF IsFrame, OfTop
  <2>5. UNCHANGED <<text, mtime, cache, runs, mem, disk>>
    BY <1>2 DEF TryVendor
  <2> QED
    BY <2>1, <2>3, <2>4, <2>5 DEF Asks, Lookup
<1> QED
  BY <1>1, <1>2

\* And it keeps the stack.
LEMMA AsksKeeps ==
  ASSUME StackInv, Asks
  PROVE  StackInv'
<1>1. stack # <<>>
  BY DEF Asks
<1>2. PICK f : /\ OfTop(f) /\ f.at = "run"
               /\ \/ Change(f)
                  \/ \E key \in DOMAIN Files :
                       ~raised' /\ stack' = Append(Append(Front(stack), f), Frame(key))
  BY DEF Asks
<1>3. CASE Change(f)
  BY <1>1, <1>2, <1>3, ChangeKeeps DEF OfTop
<1>4. ASSUME NEW key \in DOMAIN Files, ~raised', stack' = Append(Append(Front(stack), f), Frame(key))
      PROVE  StackInv'
  <2>1. key \in Seq(Names)
    BY FilesAssumption
  <2> QED
    BY <1>1, <1>2, <1>4, <2>1, PushKeeps DEF OfTop
<1> QED
  BY <1>2, <1>3, <1>4

\* Evaluating changes the innermost module.
LEMMA EvaluateDoes ==
  ASSUME StackInv, stack # <<>>, NEW code, Evaluate(code)
  PROVE  /\ StackInv'
         /\ \E f : /\ OfTop(f) /\ f.at = "run" /\ f.code = code /\ f.text = Top.text
                   /\ stack' # <<>> /\ Top' = f /\ StackOf({f})
<1> DEFINE f == [Top EXCEPT !.at = "run", !.code = code]
<1>1. Change(f)
  BY DEF Evaluate
<1>2. IsFrame(Top) /\ f = [Top EXCEPT !.at = "run", !.code = code]
  BY TopIs
<1> HIDE DEF f
<1>3. OfTop(f) /\ f.at = "run" /\ f.code = code /\ f.text = Top.text
  BY <1>2 DEF IsFrame, OfTop
<1>4. StackInv' /\ stack' # <<>> /\ Top' = f /\ StackOf({f})
  BY <1>1, <1>3, ChangeKeeps DEF OfTop
<1> QED
  BY <1>3, <1>4

\* Every step keeps the stack.
LEMMA StackStep == StackInv /\ [Next]_vars => StackInv'
<1> SUFFICES ASSUME StackInv, [Next]_vars PROVE StackInv'
  OBVIOUS
<1>1. CASE Require \/ TryVendor
  BY <1>1, RequireAsks, AsksKeeps
<1>2. CASE Catch
  BY <1>2 DEF Catch, StackInv, Top
<1>3. CASE Throw \/ Return
  BY <1>3, PopKeeps DEF Throw, Return, Running, Ends
<1>4. CASE Read
  <2>1. stack # <<>> /\ Top.at = "read" /\ ~raised
    BY <1>4 DEF Read, StackInv
  <2>2. CASE Ends("loaded")
    BY <2>1, <2>2, PopKeeps DEF Ends
  <2>3. CASE Change([Top EXCEPT !.at = "translate", !.text = text[Top.file]]) /\ UNCHANGED raised
    <3> DEFINE frame == [Top EXCEPT !.at = "translate", !.text = text[Top.file]]
    <3>1. Change(frame)
      BY <2>3
    <3>2. IsFrame(Top) /\ frame = [Top EXCEPT !.at = "translate", !.text = text[Top.file]]
      BY <2>1, TopIs
    <3> HIDE DEF frame
    <3>3. IsFrame(frame)
      BY <3>2 DEF IsFrame
    <3> QED
      BY <2>1, <2>3, <3>1, <3>3, ChangeKeeps
  <2> QED
    BY <1>4, <2>2, <2>3 DEF Read
<1>5. CASE Translate \/ Save
  <2>1. stack # <<>> /\ Top.at # "run" /\ ~raised
    BY <1>5 DEF Translate, Save, StackInv
  <2>2. CASE \E code : Evaluate(code)
    BY <2>1, <2>2, EvaluateDoes
  <2>3. CASE Rejects
    BY <2>1, <2>3, PopKeeps DEF Rejects
  <2>4. CASE Change([Top EXCEPT !.at = "save", !.code = Top.text]) /\ UNCHANGED raised
    <3> DEFINE frame == [Top EXCEPT !.at = "save", !.code = Top.text]
    <3>1. Change(frame)
      BY <2>4
    <3>2. IsFrame(Top) /\ frame = [Top EXCEPT !.at = "save", !.code = Top.text]
      BY <2>1, TopIs
    <3> HIDE DEF frame
    <3>3. IsFrame(frame)
      BY <3>2 DEF IsFrame
    <3> QED
      BY <2>1, <2>4, <3>1, <3>3, ChangeKeeps
  <2> QED
    BY <1>5, <2>2, <2>3, <2>4 DEF Translate, Save, Untranslated
<1>6. CASE Delete \/ Edit
  BY <1>6 DEF Delete, Edit, StackInv, Top
<1>7. CASE Restart
  BY <1>7, StartsWithEntry DEF Restart, Starts
<1>8. CASE UNCHANGED vars
  BY <1>8 DEF vars, StackInv, Top
<1> QED
  BY <1>1, <1>2, <1>3, <1>4, <1>5, <1>6, <1>7, <1>8 DEF Next

\* Only the innermost module is being loaded, whatever it requires: the shape of
\* the recursion of LoadModuleFile.
THEOREM StackIsKept == Spec => []StackInv
<1>1. Init => StackInv
  <2> SUFFICES ASSUME Init PROVE StackInv
    OBVIOUS
  <2>1. stack = <<Frame(Entry)>> /\ ~raised /\ IsFrame(Frame(Entry))
    BY LoaderAssumption DEF Init, Frame, IsFrame
  <2>2. stack \in Seq(Range(stack)) /\ Len(stack) = 1 /\ stack[1] = Frame(Entry)
    BY <2>1 DEF Range
  <2> QED
    BY <2>1, <2>2 DEF StackInv
<1> QED
  BY <1>1, StackStep, PTL DEF Spec

----------------------------------------------------------------------------
(* The normalizers agree *)
\* The paths that NormalizersAgree speaks of are paths.
LEMMA PathsAreOfNames == \A p \in PathsUpTo(3) : p \in Seq(Names)
<1>1. Canonical(Entry) \in Seq(Names)
  BY LoaderAssumption, CanonicalSteps
<1>2. Parts \subseteq Names
  <2>1. \A i \in DOMAIN Canonical(Entry) : Canonical(Entry)[i] \in Names
    BY <1>1
  <2>2. ToSet(Canonical(Entry)) \subseteq Names
    BY <2>1 DEF ToSet
  <2> QED
    BY <2>2, LoaderAssumption DEF Parts
<1>3. ASSUME NEW p \in PathsUpTo(3) PROVE p \in Seq(Names)
  <2>1. PICK k \in 0..3 : p \in [1..k -> Parts]
    BY <1>3 DEF PathsUpTo
  <2>2. k \in Nat /\ p \in Seq(Parts)
    BY <2>1
  <2> QED
    BY <1>2, <2>2, SeqMonotonic
<1> QED
  BY <1>3

\* A module that names a file with path.normalize, path.resolve or path.relative
\* means the file that require() would load, whatever the path and wherever the
\* module is.
THEOREM NormalizersAlwaysAgree == Spec => []NormalizersAgree
<1>1. StackInv => NormalizersAgree
  <2> SUFFICES ASSUME StackInv, stack # <<>>, NEW p \in PathsUpTo(3)
               PROVE
    /\ PathNormalize(p, TRUE) = Canonical(p)
    /\ PathResolve(PathDirname(Canonical(Entry)), <<[absolute |-> TRUE, at |-> p]>>) = Canonical(p)
    /\ \A d \in {<<>>, PathDirname(Top.file)} :
         /\ Canonical(PathJoin(<<d, PathNormalize(p, FALSE)>>)) = PathResolve(d, <<[absolute |-> FALSE, at |-> p]>>)
         /\ Canonical(d \o PathRelative(d, Canonical(p))) = Canonical(p)
    BY DEF NormalizersAgree
  <2>1. p \in Seq(Names)
    BY PathsAreOfNames
  <2>2. \A q \in Seq(Names) : PathDirname(Canonical(q)) \in Seq(Ordinary) /\ PathDirname(Canonical(q)) \in Seq(Names)
    <3> SUFFICES ASSUME NEW q \in Seq(Names)
                 PROVE  PathDirname(Canonical(q)) \in Seq(Ordinary) /\ PathDirname(Canonical(q)) \in Seq(Names)
      OBVIOUS
    <3>1. Canonical(q) \in Seq(Ordinary)
      BY CanonicalIsOrdinary
    <3>2. PathDirname(Canonical(q)) \in Seq(Ordinary)
      BY <3>1, FrontFacts DEF PathDirname
    <3> QED
      BY <3>2, OrdinaryAreNames
  <2>3. PathDirname(Canonical(Entry)) \in Seq(Names)
    BY <2>2, LoaderAssumption
  <2>4. PathDirname(Top.file) \in Seq(Ordinary)
    <3>1. Top.key \in Seq(Names) /\ Top.file = Canonical(Top.key)
      BY TopIs DEF IsFrame
    <3> QED
      BY <2>2, <3>1
  <2>5. <<>> \in Seq(Ordinary)
    OBVIOUS
  <2> QED
    BY <2>1, <2>3, <2>4, <2>5, PathsAgree
<1> QED
  BY <1>1, StackIsKept, PTL

----------------------------------------------------------------------------
(* A file is evaluated once *)
\* What StackOf says of the keys of the frames.
LEMMA KeysKept ==
  ASSUME OnceInv, NEW frames, StackOf(frames), \A f \in frames : Canonical(f.key) = f.key
  PROVE  \A i \in DOMAIN stack' : Canonical(stack'[i].key) = stack'[i].key
BY DEF OnceInv, StackOf

\* The innermost module's key is canonical, and is not in the cache before it runs.
LEMMA TopOnce ==
  ASSUME OnceInv, StackInv, stack # <<>>
  PROVE  /\ Canonical(Top.key) = Top.key /\ Top.file = Top.key
         /\ Top.at # "run" => Top.key \notin DOMAIN cache
BY TopIs DEF OnceInv, IsFrame

\* A module that ends leaves its key in the cache, or what was there.
LEMMA EndsKeepsOnce ==
  ASSUME OnceInv, StackInv, stack # <<>>, NEW state, Ends(state)
  PROVE  OnceInv'
<1>1. /\ StackInv' /\ StackOf({}) /\ (stack' # <<>> => Top'.at = "run")
  BY PopKeeps DEF Ends
<1>2. runs' = runs /\ \A k \in DOMAIN cache' : k \in DOMAIN cache \/ k = Top.key
  BY DEF Ends, Stored
<1>3. \A k \in DOMAIN cache : k \in DOMAIN cache'
  BY DEF Ends, Stored
<1>4. \A i \in DOMAIN stack' : Canonical(stack'[i].key) = stack'[i].key
  BY <1>1, KeysKept
<1> QED
  BY <1>1, <1>2, <1>3, <1>4, TopOnce DEF OnceInv

\* A module is evaluated when it is not in the cache, and so was not before.
LEMMA EvaluateKeepsOnce ==
  ASSUME OnceInv, StackInv, stack # <<>>, Top.at # "run", NEW code, Evaluate(code)
  PROVE  OnceInv'
<1>1. PICK f : OfTop(f) /\ f.at = "run" /\ stack' # <<>> /\ Top' = f /\ StackOf({f})
  BY EvaluateDoes
<1>2. \A i \in DOMAIN stack' : Canonical(stack'[i].key) = stack'[i].key
  BY <1>1, TopOnce, KeysKept DEF OfTop
<1>3. DOMAIN cache' = DOMAIN cache \cup {Top.key}
  BY DEF Evaluate, StoreEarly, Stored
<1>4. runs' = [runs EXCEPT ![Top.key] = @ + 1]
  BY TopOnce DEF Evaluate
<1>5. Top.key \in DOMAIN Files => runs[Top.key] = 0
  BY TopOnce DEF OnceInv
<1>6. runs' \in [DOMAIN Files -> {0, 1}]
  <2>1. runs' = [g \in DOMAIN Files |-> IF g = Top.key THEN runs[Top.key] + 1 ELSE runs[g]]
    BY <1>4 DEF OnceInv
  <2>2. \A g \in DOMAIN Files : (IF g = Top.key THEN runs[Top.key] + 1 ELSE runs[g]) \in {0, 1}
    BY <1>5 DEF OnceInv
  <2> QED
    BY <2>1, <2>2
<1>7. \A g \in DOMAIN Files : runs'[g] = 1 => g \in DOMAIN cache'
  BY <1>3, <1>4 DEF OnceInv
<1>8. \A k \in DOMAIN cache' : Canonical(k) = k
  BY <1>3, TopOnce DEF OnceInv
<1> QED
  BY <1>1, <1>2, <1>6, <1>7, <1>8 DEF OnceInv

\* Every step keeps it.
LEMMA OnceStep ==
  Canonical(Entry) = Entry /\ StackInv /\ OnceInv /\ [Next]_vars => OnceInv'
<1> SUFFICES ASSUME Canonical(Entry) = Entry, StackInv, OnceInv, [Next]_vars PROVE OnceInv'
  OBVIOUS
<1>1. CASE Require \/ TryVendor
  <2>1. Asks
    BY <1>1, RequireAsks
  <2>2. stack # <<>> /\ UNCHANGED <<cache, runs>>
    BY <2>1 DEF Asks
  <2>3. PICK f : /\ OfTop(f) /\ f.at = "run"
                 /\ \/ Change(f)
                    \/ \E key \in DOMAIN Files :
                         /\ key \notin DOMAIN cache /\ ~raised'
                         /\ stack' = Append(Append(Front(stack), f), Frame(key))
    BY <2>1 DEF Asks
  <2>4. IsFrame(f) /\ Canonical(f.key) = f.key
    BY <2>2, <2>3, TopOnce DEF OfTop
  <2>5. CASE Change(f)
    <3>1. stack' # <<>> /\ Top' = f /\ StackOf({f})
      BY <2>2, <2>3, <2>4, <2>5, ChangeKeeps
    <3>2. \A i \in DOMAIN stack' : Canonical(stack'[i].key) = stack'[i].key
      BY <2>4, <3>1, KeysKept
    <3> QED
      BY <2>2, <2>3, <3>1, <3>2 DEF OnceInv
  <2>6. ASSUME NEW key \in DOMAIN Files, key \notin DOMAIN cache, ~raised',
               stack' = Append(Append(Front(stack), f), Frame(key))
        PROVE  OnceInv'
    <3>1. key \in Seq(Names) /\ Canonical(key) = key /\ Frame(key).key = key
      BY FilesAssumption DEF Frame
    <3>2. stack' # <<>> /\ Top' = Frame(key) /\ StackOf({f, Frame(key)})
      BY <2>2, <2>3, <2>4, <2>6, <3>1, PushKeeps
    <3>3. \A i \in DOMAIN stack' : Canonical(stack'[i].key) = stack'[i].key
      BY <2>4, <3>1, <3>2, KeysKept
    <3> QED
      BY <2>2, <2>6, <3>1, <3>2, <3>3 DEF OnceInv
  <2> QED
    BY <2>3, <2>5, <2>6
<1>2. CASE Catch \/ Edit
  BY <1>2 DEF Catch, Edit, OnceInv, Top
<1>3. CASE Throw \/ Return
  BY <1>3, EndsKeepsOnce DEF Throw, Return, Running
<1>4. CASE Read
  <2>1. stack # <<>> /\ Top.at = "read"
    BY <1>4 DEF Read
  <2>2. CASE Ends("loaded")
    BY <2>1, <2>2, EndsKeepsOnce
  <2>3. CASE /\ Change([Top EXCEPT !.at = "translate", !.text = text[Top.file]])
             /\ UNCHANGED <<cache, raised, runs>>
    <3> DEFINE frame == [Top EXCEPT !.at = "translate", !.text = text[Top.file]]
    <3>1. Change(frame)
      BY <2>3
    <3>2. IsFrame(Top) /\ frame = [Top EXCEPT !.at = "translate", !.text = text[Top.file]]
      BY <2>1, TopIs
    <3> HIDE DEF frame
    <3>3. IsFrame(frame) /\ frame.key = Top.key
      BY <3>2 DEF IsFrame
    <3>4. ~raised'
      BY <2>1, <2>3 DEF StackInv
    <3>5. stack' # <<>> /\ Top' = frame /\ StackOf({frame})
      BY <2>1, <3>1, <3>3, <3>4, ChangeKeeps
    <3>6. \A i \in DOMAIN stack' : Canonical(stack'[i].key) = stack'[i].key
      BY <2>1, <3>3, <3>5, TopOnce, KeysKept
    <3> QED
      BY <2>1, <2>3, <3>3, <3>5, <3>6 DEF OnceInv
  <2> QED
    BY <1>4, <2>2, <2>3 DEF Read
<1>5. CASE Translate \/ Save
  <2>1. stack # <<>> /\ Top.at # "run" /\ ~raised
    BY <1>5 DEF Translate, Save, StackInv
  <2>2. CASE \E code : Evaluate(code)
    BY <2>1, <2>2, EvaluateKeepsOnce
  <2>3. CASE Rejects
    <3>1. StackOf({}) /\ (stack' # <<>> => Top'.at = "run")
      BY <2>1, <2>3, PopKeeps DEF Rejects
    <3>2. \A i \in DOMAIN stack' : Canonical(stack'[i].key) = stack'[i].key
      BY <3>1, KeysKept
    <3> QED
      BY <2>3, <3>1, <3>2 DEF Rejects, OnceInv
  <2>4. CASE /\ Change([Top EXCEPT !.at = "save", !.code = Top.text])
             /\ UNCHANGED <<cache, raised, runs>>
    <3> DEFINE frame == [Top EXCEPT !.at = "save", !.code = Top.text]
    <3>1. Change(frame)
      BY <2>4
    <3>2. IsFrame(Top) /\ frame = [Top EXCEPT !.at = "save", !.code = Top.text]
      BY <2>1, TopIs
    <3> HIDE DEF frame
    <3>3. IsFrame(frame) /\ frame.key = Top.key
      BY <3>2 DEF IsFrame
    <3>4. stack' # <<>> /\ Top' = frame /\ StackOf({frame})
      BY <2>1, <2>4, <3>1, <3>3, ChangeKeeps
    <3>5. \A i \in DOMAIN stack' : Canonical(stack'[i].key) = stack'[i].key
      BY <2>1, <3>3, <3>4, TopOnce, KeysKept
    <3> QED
      BY <2>1, <2>4, <3>3, <3>4, <3>5 DEF OnceInv
  <2> QED
    BY <1>5, <2>2, <2>3, <2>4 DEF Translate, Save, Untranslated
<1>6. CASE Delete
  <2>1. PICK key \in DOMAIN cache : /\ cache' = [k \in DOMAIN cache \ {key} |-> cache[k]]
                                    /\ runs' = [runs EXCEPT ![Canonical(key)] = 0]
    BY <1>6 DEF Delete
  <2>2. Top.at = "run" /\ stack' = stack
    BY <1>6 DEF Delete, Running
  <2>3. DOMAIN cache' = DOMAIN cache \ {key} /\ runs' = [runs EXCEPT ![key] = 0]
    BY <2>1 DEF OnceInv
  <2>4. runs' = [g \in DOMAIN Files |-> IF g = key THEN 0 ELSE runs[g]]
    BY <2>3 DEF OnceInv
  <2>5. \A g \in DOMAIN Files : (IF g = key THEN 0 ELSE runs[g]) \in {0, 1}
    BY DEF OnceInv
  <2>6. runs' \in [DOMAIN Files -> {0, 1}]
    BY <2>4, <2>5
  <2>7. \A g \in DOMAIN Files : runs'[g] = 1 => g \in DOMAIN cache'
    BY <2>3, <2>4 DEF OnceInv
  <2> QED
    BY <2>2, <2>3, <2>6, <2>7 DEF OnceInv, Top
<1>7. CASE Restart
  <2>1. stack' # <<>> /\ Top' = Frame(Entry) /\ StackOf({Frame(Entry)}) /\ Frame(Entry).key = Entry
    BY <1>7, StartsWithEntry DEF Restart, Starts, Frame
  <2>2. \A i \in DOMAIN stack' : Canonical(stack'[i].key) = stack'[i].key
    BY <2>1, KeysKept
  <2>3. DOMAIN cache' = {} /\ runs' = [f \in DOMAIN Files |-> 0]
    BY <1>7 DEF Restart, Starts
  <2> QED
    BY <2>1, <2>2, <2>3 DEF OnceInv
<1>8. CASE UNCHANGED vars
  BY <1>8 DEF vars, OnceInv, Top
<1> QED
  BY <1>1, <1>2, <1>3, <1>4, <1>5, <1>6, <1>7, <1>8 DEF Next

\* A file is evaluated at most once in a process, however the requires that lead
\* to it spell it and however they cycle, unless the program deleted it from
\* require.cache, if the entry script is named by its canonical path.
THEOREM EvaluatesOnce ==
  ASSUME Canonical(Entry) = Entry
  PROVE  Spec => []EvaluatedOnce
<1>1. Init => OnceInv
  <2> SUFFICES ASSUME Init PROVE OnceInv
    OBVIOUS
  <2>1. stack = <<Frame(Entry)>> /\ Frame(Entry).key = Entry /\ DOMAIN cache = {}
        /\ runs = [f \in DOMAIN Files |-> 0]
    BY DEF Init, Frame
  <2> QED
    BY <2>1 DEF OnceInv
<1>2. StackInv /\ OnceInv /\ [Next]_vars => OnceInv'
  BY OnceStep
<1>3. OnceInv => EvaluatedOnce
  BY DEF OnceInv, EvaluatedOnce
<1> QED
  BY <1>1, <1>2, <1>3, StackIsKept, PTL DEF Spec

----------------------------------------------------------------------------
(* Translations are current *)
\* While nothing is being saved, the caches stay current if nothing changes them.
LEMMA CachesKept ==
  ASSUME CachesAreCurrent, stack # <<>> => Top.at # "save", UNCHANGED <<text, mtime, mem, disk>>
  PROVE  CachesAreCurrent'
BY DEF CachesAreCurrent, Saving

\* Frames stay current when those of the next stack are the given ones or wait.
LEMMA FramesKept ==
  ASSUME FramesAreCurrent, NEW frames, StackOf(frames), \A f \in frames : IsCurrent(f, text', mem')
  PROVE  FramesAreCurrent'
BY DEF FramesAreCurrent, StackOf, IsCurrent

\* The innermost module is current.
LEMMA TopIsCurrent ==
  ASSUME StackInv, FramesAreCurrent, stack # <<>>
  PROVE  IsCurrent(Top, text, mem)
BY TopIs DEF FramesAreCurrent

\* Evaluating what was read, or a translation of it.
LEMMA EvaluateKeepsCurrent ==
  ASSUME StackInv, FramesAreCurrent, stack # <<>>, NEW code, code = Top.text, Evaluate(code)
  PROVE  FramesAreCurrent'
<1>1. PICK f : f.at = "run" /\ f.code = code /\ f.text = Top.text /\ StackOf({f})
  BY EvaluateDoes
<1>2. IsCurrent(f, text', mem')
  BY <1>1 DEF IsCurrent
<1> QED
  BY <1>1, <1>2, FramesKept

\* Every step keeps it, if no edit falls between the reading of a file and the
\* look at its time and no process is killed in a save.
LEMMA CurrentStep ==
  ~RacyEdits /\ ~Kills /\ StackInv /\ CurrentInv /\ [Next]_vars => CurrentInv'
<1> SUFFICES ASSUME ~RacyEdits, ~Kills, StackInv, CurrentInv, [Next]_vars PROVE CurrentInv'
  OBVIOUS
<1> USE DEF CurrentInv
<1>1. CASE Require \/ TryVendor
  <2>1. Asks
    BY <1>1, RequireAsks
  <2>2. stack # <<>> /\ Top.at = "run" /\ UNCHANGED <<text, mtime, mem, disk>>
    BY <2>1 DEF Asks
  <2>3. PICK f : /\ OfTop(f) /\ f.at = "run" /\ f.code = Top.code /\ f.text = Top.text
                 /\ \/ Change(f)
                    \/ \E key \in DOMAIN Files :
                         /\ key \notin DOMAIN cache /\ ~raised'
                         /\ stack' = Append(Append(Front(stack), f), Frame(key))
    BY <2>1 DEF Asks
  <2>4. IsFrame(f) /\ IsCurrent(f, text', mem')
    BY <2>2, <2>3, TopIsCurrent DEF OfTop, IsCurrent
  <2>5. CASE Change(f)
    <3>1. StackOf({f})
      BY <2>2, <2>3, <2>4, <2>5, ChangeKeeps
    <3>2. FramesAreCurrent'
      BY <2>4, <3>1, FramesKept
    <3> QED
      BY <2>2, <3>2, CachesKept
  <2>6. ASSUME NEW key \in DOMAIN Files, ~raised',
               stack' = Append(Append(Front(stack), f), Frame(key))
        PROVE  CurrentInv'
    <3>1. key \in Seq(Names) /\ IsCurrent(Frame(key), text', mem')
      BY FilesAssumption DEF Frame, IsCurrent
    <3>2. StackOf({f, Frame(key)})
      BY <2>2, <2>3, <2>4, <2>6, <3>1, PushKeeps
    <3>3. FramesAreCurrent'
      BY <2>4, <3>1, <3>2, FramesKept
    <3> QED
      BY <2>2, <3>3, CachesKept
  <2> QED
    BY <2>3, <2>5, <2>6
<1>2. CASE Catch
  BY <1>2 DEF Catch, FramesAreCurrent, CachesAreCurrent, Saving, Top
<1>3. CASE Throw \/ Return
  <2>1. stack # <<>> /\ Top.at = "run" /\ stack' = Front(stack) /\ UNCHANGED <<text, mtime, mem, disk>>
    BY <1>3 DEF Throw, Return, Running, Ends
  <2>2. FramesAreCurrent'
    BY <2>1, PopKeeps, FramesKept
  <2> QED
    BY <2>1, <2>2, CachesKept
<1>4. CASE Read
  <2>1. /\ stack # <<>> /\ Top.at = "read" /\ Top.file \in DOMAIN Files /\ ~raised
        /\ UNCHANGED <<text, mtime, mem, disk>>
    BY <1>4 DEF Read, Ends, StackInv
  <2>2. CASE Ends("loaded")
    <3>1. FramesAreCurrent'
      BY <2>1, <2>2, PopKeeps, FramesKept DEF Ends
    <3> QED
      BY <2>1, <3>1, CachesKept
  <2>3. CASE Change([Top EXCEPT !.at = "translate", !.text = text[Top.file]]) /\ UNCHANGED raised
    <3> DEFINE frame == [Top EXCEPT !.at = "translate", !.text = text[Top.file]]
    <3>1. Change(frame)
      BY <2>3
    <3>2. IsFrame(Top) /\ frame = [Top EXCEPT !.at = "translate", !.text = text[Top.file]]
      BY <2>1, TopIs
    <3> HIDE DEF frame
    <3>3. IsFrame(frame) /\ frame.at = "translate" /\ frame.file = Top.file /\ frame.text = text[Top.file]
      BY <3>2 DEF IsFrame
    <3>4. IsCurrent(frame, text', mem')
      BY <2>1, <3>3 DEF IsCurrent
    <3>5. StackOf({frame})
      BY <2>1, <2>3, <3>1, <3>3, ChangeKeeps
    <3>6. FramesAreCurrent'
      BY <3>4, <3>5, FramesKept
    <3> QED
      BY <2>1, <3>6, CachesKept
  <2> QED
    BY <1>4, <2>2, <2>3 DEF Read
<1>5. CASE Translate
  <2>1. /\ stack # <<>> /\ Top.at = "translate" /\ ~raised
        /\ Top.file \in DOMAIN Files /\ Top.text = text[Top.file] /\ text = mtime
    BY <1>5, TopIsCurrent DEF Translate, StackInv, IsCurrent, CachesAreCurrent
  <2>2. CASE Evaluate(Top.text) /\ UNCHANGED <<mem, disk>>
    BY <2>1, <2>2, EvaluateKeepsCurrent, CachesKept DEF Evaluate
  <2>3. CASE Known(mem) /\ Evaluate(mem[Top.file].code) /\ UNCHANGED <<mem, disk>>
    <3>1. mem[Top.file].code = Top.text
      BY <2>1, <2>3 DEF Known, Fresh, CachesAreCurrent
    <3> QED
      BY <2>1, <2>3, <3>1, EvaluateKeepsCurrent, CachesKept DEF Evaluate
  <2>4. CASE /\ Known(disk) /\ mem' = Remember(mem, disk[Top.file])
             /\ Evaluate(disk[Top.file].code) /\ UNCHANGED disk
    <3>1. disk[Top.file].code = disk[Top.file].mtime /\ disk[Top.file].code = Top.text
      BY <2>1, <2>4 DEF Known, Fresh, CachesAreCurrent, Saving
    <3>2. FramesAreCurrent'
      BY <2>1, <2>4, <3>1, EvaluateKeepsCurrent
    <3>3. CachesAreCurrent'
      BY <2>1, <2>4, <3>1 DEF CachesAreCurrent, Saving, Remember, Evaluate
    <3> QED
      BY <2>4, <3>2, <3>3 DEF Evaluate
  <2>5. CASE Rejects /\ UNCHANGED <<mem, disk>>
    <3>1. FramesAreCurrent'
      BY <2>1, <2>5, PopKeeps, FramesKept DEF Rejects
    <3> QED
      BY <2>1, <2>5, <3>1, CachesKept DEF Rejects
  <2>6. CASE LET entry == [mtime |-> mtime[Top.file], code |-> Top.text] IN
             /\ mem' = Remember(mem, entry)
             /\ disk' = Remember(disk, [entry EXCEPT !.code = 0])
             /\ Change([Top EXCEPT !.at = "save", !.code = Top.text])
             /\ UNCHANGED <<text, mtime, cache, raised, runs, processes, deletes>>
    <3> DEFINE frame == [Top EXCEPT !.at = "save", !.code = Top.text]
    <3>1. Change(frame)
      BY <2>6
    <3>2. IsFrame(Top) /\ frame = [Top EXCEPT !.at = "save", !.code = Top.text]
      BY <2>1, TopIs
    <3> HIDE DEF frame
    <3>3. IsFrame(frame) /\ frame.at = "save" /\ frame.code = frame.text /\ frame.file = Top.file
      BY <3>2 DEF IsFrame
    <3>4. IsCurrent(frame, text', mem')
      BY <2>6, <3>3 DEF IsCurrent, Remember
    <3>5. stack' # <<>> /\ Top' = frame /\ StackOf({frame})
      BY <2>1, <2>6, <3>3, <3>1, ChangeKeeps
    <3>6. FramesAreCurrent'
      BY <3>4, <3>5, FramesKept
    <3>7. \A f \in DOMAIN mem' : mem'[f].code = mem'[f].mtime
      BY <2>1, <2>6 DEF CachesAreCurrent, Remember
    <3>8. \A f \in DOMAIN disk' : f # Top.file => disk'[f].code = disk'[f].mtime
      BY <2>1, <2>6 DEF CachesAreCurrent, Remember, Saving
    <3>9. CachesAreCurrent'
      <4> SUFFICES ASSUME NEW f \in DOMAIN disk'
                   PROVE  disk'[f].code = disk'[f].mtime \/ Saving(f)'
        BY <2>1, <2>6, <3>7 DEF CachesAreCurrent
      <4> QED
        BY <3>3, <3>5, <3>8 DEF Saving
    <3> QED
      BY <2>6, <3>6, <3>9
  <2> QED
    BY <1>5, <2>2, <2>3, <2>4, <2>5, <2>6 DEF Translate, Untranslated
<1>6. CASE Save
  <2>1. /\ stack # <<>> /\ Top.at = "save"
        /\ Top.code = Top.text /\ Top.file \in DOMAIN mem
    BY <1>6, TopIsCurrent DEF Save, IsCurrent
  <2>2. FramesAreCurrent'
    BY <1>6, <2>1, EvaluateKeepsCurrent DEF Save
  <2>3. \A f \in DOMAIN disk' : disk'[f].code = disk'[f].mtime
    BY <1>6, <2>1 DEF Save, CachesAreCurrent, Saving, Remember
  <2> QED
    BY <1>6, <2>2, <2>3 DEF Save, Evaluate, CachesAreCurrent
<1>7. CASE Delete
  BY <1>7 DEF Delete, FramesAreCurrent, CachesAreCurrent, Saving, Top
<1>8. CASE Restart
  <2>1. StackOf({Frame(Entry)}) /\ IsCurrent(Frame(Entry), text', mem')
    BY <1>8, StartsWithEntry DEF Restart, Starts, Frame, IsCurrent
  <2>2. DOMAIN mem' = {} /\ \A f \in DOMAIN disk' : disk'[f].code = disk'[f].mtime
    BY <1>8 DEF Restart, Starts, CachesAreCurrent, Saving
  <2>3. FramesAreCurrent'
    BY <2>1, FramesKept
  <2> QED
    BY <1>8, <2>2, <2>3 DEF Restart, CachesAreCurrent
<1>9. CASE Edit
  <2>1. PICK f \in Edited :
          /\ \A i \in DOMAIN stack : stack[i].file = f => stack[i].at # "translate"
          /\ text' = [text EXCEPT ![f] = @ + 1] /\ mtime' = [mtime EXCEPT ![f] = @ + 1]
          /\ UNCHANGED <<stack, raised, mem, disk>>
    BY <1>9 DEF Edit
  <2>2. text' \in [DOMAIN Files -> Nat]
    <3>1. text \in [DOMAIN Files -> Nat] /\ text[f] \in Nat
      BY LoaderAssumption
    <3>2. \A g \in DOMAIN Files : text'[g] \in Nat
      BY <2>1, <3>1
    <3>3. text' = [g \in DOMAIN Files |-> text'[g]]
      BY <2>1, <3>1
    <3> QED
      BY <3>2, <3>3
  <2>3. FramesAreCurrent'
    BY <2>1 DEF IsCurrent, FramesAreCurrent
  <2> QED
    BY <2>1, <2>2, <2>3 DEF CachesAreCurrent, Saving, Top
<1>10. CASE UNCHANGED vars
  BY <1>10 DEF vars, FramesAreCurrent, CachesAreCurrent, Saving, Top
<1> QED
  BY <1>1, <1>2, <1>3, <1>4, <1>5, <1>6, <1>7, <1>8, <1>9, <1>10 DEF Next

\* What is evaluated is what was read: however modules require each other, files
\* are edited and processes follow each other, __try_babel_transpile__ never
\* returns a translation of another version of the file.
THEOREM LoadsCurrent ==
  ASSUME ~RacyEdits, ~Kills
  PROVE  Spec => []TranslationIsCurrent
<1>1. Init => CurrentInv
  <2> SUFFICES ASSUME Init PROVE CurrentInv
    OBVIOUS
  <2>1. stack = <<Frame(Entry)>> /\ Frame(Entry).at = "read"
    BY DEF Init, Frame
  <2>2. \A i \in DOMAIN stack : stack[i].at = "read"
    BY <2>1
  <2>3. text = mtime /\ DOMAIN mem = {} /\ DOMAIN disk = {} /\ text \in [DOMAIN Files -> Nat]
    BY DEF Init
  <2> QED
    BY <2>2, <2>3 DEF CurrentInv, FramesAreCurrent, CachesAreCurrent, IsCurrent
<1>2. StackInv /\ CurrentInv /\ [Next]_vars => CurrentInv'
  BY CurrentStep
<1>3. CurrentInv => TranslationIsCurrent
  BY DEF CurrentInv, FramesAreCurrent, IsCurrent, TranslationIsCurrent
<1> QED
  BY <1>1, <1>2, <1>3, StackIsKept, PTL DEF Spec

-----------------------------------------------------------------------------
(* DoSpawn and its child *)

\* The ends DoSpawn has open at each of its steps.
ReadHeld ==
  CASE pc = "fork"                    -> Made
    [] pc \in {"write", "drain out"}  -> Outputs
    [] pc = "drain err"               -> {"err"}
    [] OTHER                          -> {}

WriteHeld ==
  CASE pc = "fork"  -> Made
    [] pc = "write" -> {"in"}
    [] OTHER        -> {}

EndsInv == readEnds = ReadHeld /\ writeEnds = WriteHeld

\* A child in a call has the descriptor it calls with; one that is not running
\* has none, and none runs before the fork or after the wait.
ChildInv ==
  /\ child \in Pipes => child \in childEnds
  /\ child \in Outputs => written[child] < MaxWritten[child]
  /\ child \notin Pipes \cup {"running"} => childEnds = {}
  /\ pc \in {"pipes", "fork"} => child = "none"
  /\ pc \in {"write", "drain out", "drain err", "wait"} => child \notin {"none", "reaped"}

Bounded == \A x \in Outputs : written[x] <= MaxWritten[x] /\ fill[x] <= written[x]

\* What was written is in the pipe or collected.
Conserved ==
  pc \notin {"abort", "done"} => \A x \in Outputs : collected[x] + fill[x] = written[x]

InputFits ==
  /\ pc \in {"pipes", "fork", "write"} /\ HasInput => fill["in"] + remain <= input
  /\ pc = "write" => HasInput

\* A drained pipe stays empty.
Drained ==
  /\ pc \in {"drain err", "wait"} => fill["out"] = 0 /\ "out" \notin childEnds
  /\ pc = "wait" => fill["err"] = 0 /\ "err" \notin childEnds

ResultInv ==
  /\ result = "none" <=> pc # "done"
  /\ result \in Ended => child = "reaped"

SpawnInv ==
  /\ TypeOK
  /\ EndsInv
  /\ ChildInv
  /\ Bounded
  /\ Conserved
  /\ InputFits
  /\ Drained
  /\ ResultInv
  /\ OutputComplete

LEMMA SpawnInit == SpawnSyncInit => SpawnInv
<1> SUFFICES ASSUME SpawnSyncInit PROVE SpawnInv
  OBVIOUS
<1> USE SpawnAssumption DEF SpawnSyncInit, Outputs, Pipes, Ended, NoInput, HasInput
<1>1. TypeOK
  <2>1. remain \in Nat
    BY DEF TypeOK
  <2> QED BY <2>1 DEF TypeOK
<1>2. EndsInv
  BY DEF EndsInv, ReadHeld, WriteHeld
<1>3. ChildInv /\ Bounded /\ Conserved /\ InputFits
  BY DEF ChildInv, Bounded, Conserved, InputFits
<1>4. Drained /\ ResultInv /\ OutputComplete
  BY DEF Drained, ResultInv, OutputComplete
<1> QED BY <1>1, <1>2, <1>3, <1>4 DEF SpawnInv

\* Each failure of pipe() closes the pipes that were made before it.
LEMMA PipesClosed ==
  ASSUME NEW k \in 0 .. IF HasInput THEN 2 ELSE 1
  PROVE  FirstPipes(k) \ ClosedOnFailure(k) = {}
<1>1. CASE k = 0
  BY <1>1 DEF FirstPipes
<1>2. CASE k = 1
  BY <1>2 DEF FirstPipes, PipeOrder, ClosedOnFailure
<1>3. CASE k = 2
  BY <1>3 DEF FirstPipes, PipeOrder, ClosedOnFailure
<1> QED BY <1>1, <1>2, <1>3

LEMMA AddOne ==
  ASSUME NEW S, NEW f \in [S -> Nat], NEW x \in S
  PROVE  [f EXCEPT ![x] = @ + 1] \in [S -> Nat]
  OBVIOUS

\* Adding to or taking from a pipe within its size.
LEMMA FillType ==
  ASSUME TypeOK, NEW p \in Pipes
  PROVE  /\ fill[p] < PipeSize => [fill EXCEPT ![p] = @ + 1] \in [Pipes -> 0 .. PipeSize]
         /\ fill[p] > 0 => [fill EXCEPT ![p] = @ - 1] \in [Pipes -> 0 .. PipeSize]
<1>1. fill \in [Pipes -> 0 .. PipeSize] /\ fill[p] \in 0 .. PipeSize /\ PipeSize \in Nat
  BY SpawnAssumption DEF TypeOK
<1>2. ASSUME fill[p] < PipeSize PROVE fill[p] + 1 \in 0 .. PipeSize
  BY <1>1, <1>2
<1>3. ASSUME fill[p] > 0 PROVE fill[p] - 1 \in 0 .. PipeSize
  BY <1>1, <1>3
<1> QED BY <1>1, <1>2, <1>3

LEMMA SpawnTypeStep ==
  ASSUME TypeOK, ChildInv, [SpawnSyncNext]_spawnSyncVars PROVE TypeOK'
<1> USE DEF Ended, fds
<1>0. Outputs \subseteq Pipes /\ "in" \in Pipes
  BY DEF Pipes
<1>i. TypeOK
  OBVIOUS
<1>1. CASE MakePipes \/ PipeFails \/ ForkFails \/ Fork
  <2>0. Made \subseteq Pipes
    BY DEF Made, Pipes
  <2>1. readEnds' \subseteq Pipes /\ writeEnds' \subseteq Pipes
    <3>1. CASE PipeFails
      BY <3>1, PipesClosed DEF PipeFails
    <3>2. CASE MakePipes \/ ForkFails \/ Fork
      BY <1>i, <2>0, <3>2 DEF MakePipes, ForkFails, Fork, CloseChildSide, TypeOK
    <3> QED BY <1>1, <3>1, <3>2
  <2>2. childEnds' \subseteq Pipes
    BY <1>i, <2>0, <1>1 DEF MakePipes, PipeFails, ForkFails, Fork, TypeOK
  <2> QED BY <1>i, <1>1, <2>1, <2>2 DEF MakePipes, PipeFails, ForkFails, Fork, TypeOK
<1>2. CASE WriteInput
  <2>1. remain' \in Nat
    BY <1>i, <1>2 DEF WriteInput, MoreInput, TypeOK
  <2>2. fill' \in [Pipes -> 0 .. PipeSize]
    BY <1>0, <1>2, FillType DEF WriteInput
  <2> QED BY <1>i, <1>2, <2>1, <2>2 DEF WriteInput, TypeOK
<1>3. CASE InputDone \/ Wait \/ AbortWait
  BY <1>i, <1>3 DEF InputDone, CloseInput, Wait, AbortWait, TypeOK
<1>4. ASSUME NEW x \in Outputs, DrainSome(x) PROVE TypeOK'
  <2>1. fill' \in [Pipes -> 0 .. PipeSize]
    BY <1>0, <1>4, FillType DEF DrainSome
  <2>2. collected' \in [Outputs -> Nat]
    BY <1>4, AddOne DEF DrainSome, TypeOK
  <2> QED BY <1>i, <1>4, <2>1, <2>2 DEF DrainSome, TypeOK
<1>5. ASSUME NEW x \in Outputs, DrainDone(x) PROVE TypeOK'
  BY <1>i, <1>5 DEF DrainDone, TypeOK
<1>6. ASSUME NEW x \in Outputs, DrainFails(x) PROVE TypeOK'
  <2>1. collected' \in [Outputs -> Nat]
    BY <1>6 DEF DrainFails
  <2>2. readEnds' \subseteq Pipes
    BY <1>i, <1>6 DEF DrainFails, TypeOK
  <2> QED BY <1>i, <1>6, <2>1, <2>2 DEF DrainFails, Abandon, TypeOK
<1>7. ASSUME NEW p \in Pipes, ChildCalls(p) \/ ChildCloses(p) PROVE TypeOK'
  <2>1. child' \in {"none", "running", "reaped"} \cup Pipes \cup Ended
    BY <1>i, <1>7 DEF ChildCalls, ChildCloses, TypeOK
  <2>2. childEnds' \subseteq Pipes
    BY <1>i, <1>7 DEF ChildCalls, ChildCloses, TypeOK
  <2> QED BY <1>i, <1>7, <2>1, <2>2 DEF ChildCalls, ChildCloses, parent, TypeOK
<1>8. CASE ChildReads
  <2>1. fill' \in [Pipes -> 0 .. PipeSize]
    BY <1>i, <1>0, <1>8, FillType DEF ChildReads, TypeOK
  <2>2. childEnds' \subseteq Pipes
    BY <1>i, <1>8 DEF ChildReads, TypeOK
  <2> QED BY <1>i, <1>8, <2>1, <2>2 DEF ChildReads, parent, TypeOK
<1>9. ASSUME NEW x \in Outputs, ChildWrites(x) PROVE TypeOK'
  <2>1. fill' \in [Pipes -> 0 .. PipeSize]
    BY <1>0, <1>9, FillType DEF ChildWrites
  <2>2. written' \in [Outputs -> Nat]
    BY <1>9, AddOne DEF ChildWrites, TypeOK
  <2> QED BY <1>i, <1>9, <2>1, <2>2 DEF ChildWrites, parent, TypeOK
<1>10. ASSUME NEW x \in Outputs, ChildBreaks(x) PROVE TypeOK'
  BY <1>i, <1>10 DEF ChildBreaks, parent, TypeOK
<1>11. CASE ChildExits \/ UNCHANGED spawnSyncVars
  BY <1>i, <1>11 DEF ChildExits, parent, spawnSyncVars, TypeOK
<1> QED BY <1>1, <1>2, <1>3, <1>4, <1>5, <1>6, <1>7, <1>8, <1>9, <1>10, <1>11
        DEF SpawnSyncNext, DoSpawn, Child, Returned

LEMMA EndsStep ==
  ASSUME EndsInv, [SpawnSyncNext]_spawnSyncVars PROVE EndsInv'
<1> USE DEF EndsInv, ReadHeld, WriteHeld, Made, HasInput, fds
<1>1. CASE MakePipes
  BY <1>1 DEF MakePipes
<1>2. CASE PipeFails
  BY <1>2, PipesClosed DEF PipeFails
<1>3. CASE ForkFails
  BY <1>3 DEF ForkFails
<1>4. CASE Fork
  BY <1>4 DEF Fork, CloseChildSide, Pipes, Outputs
<1>5. CASE WriteInput \/ InputDone \/ Wait \/ AbortWait
  BY <1>5 DEF WriteInput, InputDone, CloseInput, Wait, AbortWait
<1>6. ASSUME NEW x \in Outputs, DrainSome(x) \/ DrainDone(x) \/ DrainFails(x)
      PROVE  EndsInv'
  <2>1. CASE DrainSome(x)
    BY <2>1 DEF DrainSome, Draining
  <2>2. CASE DrainDone(x)
    BY <2>2 DEF DrainDone, Draining, Outputs
  <2>3. CASE DrainFails(x)
    BY <2>3 DEF DrainFails, Draining, Abandon, Outputs
  <2> QED BY <1>6, <2>1, <2>2, <2>3
<1>7. CASE Child \/ UNCHANGED spawnSyncVars
  BY <1>7 DEF Child, ChildCalls, ChildCloses, ChildReads, ChildWrites, ChildBreaks,
     ChildExits, parent, spawnSyncVars
<1> QED BY <1>1, <1>2, <1>3, <1>4, <1>5, <1>6, <1>7 DEF SpawnSyncNext, DoSpawn, Returned

LEMMA ChildStep ==
  ASSUME TypeOK, ChildInv, [SpawnSyncNext]_spawnSyncVars PROVE ChildInv'
<1> USE DEF TypeOK, ChildInv, Outputs, Pipes, Ended
<1>1. CASE MakePipes \/ PipeFails \/ ForkFails \/ WriteInput \/ InputDone
  BY <1>1 DEF MakePipes, PipeFails, ForkFails, WriteInput, InputDone
<1>2. CASE Fork
  BY <1>2 DEF Fork
<1>3. ASSUME NEW x \in Outputs, DrainSome(x) \/ DrainDone(x) \/ DrainFails(x)
      PROVE  ChildInv'
  BY <1>3 DEF DrainSome, DrainDone, DrainFails, Draining, Abandon
<1>4. CASE Wait \/ AbortWait
  BY <1>4 DEF Wait, AbortWait
<1>5. ASSUME NEW p \in Pipes, ChildCalls(p) \/ ChildCloses(p) PROVE ChildInv'
  BY <1>5 DEF ChildCalls, ChildCloses, parent
<1>6. CASE ChildReads \/ ChildExits \/ UNCHANGED spawnSyncVars
  BY <1>6 DEF ChildReads, ChildExits, parent, spawnSyncVars
<1>7. ASSUME NEW x \in Outputs, ChildWrites(x) \/ ChildBreaks(x) PROVE ChildInv'
  BY <1>7 DEF ChildWrites, ChildBreaks, parent
<1> QED BY <1>1, <1>2, <1>3, <1>4, <1>5, <1>6, <1>7 DEF SpawnSyncNext, DoSpawn, Child, Returned

\* What each step that moves data does to the counts.
LEMMA Counts ==
  ASSUME TypeOK
  PROVE  /\ \A x \in Outputs : DrainSome(x) =>
              \A y \in Outputs :
                /\ y # x => fill'[y] = fill[y] /\ collected'[y] = collected[y]
                /\ y = x => fill'[y] = fill[y] - 1 /\ collected'[y] = collected[y] + 1
         /\ \A x \in Outputs : ChildWrites(x) =>
              /\ fill'["in"] = fill["in"]
              /\ \A y \in Outputs :
                   /\ y # x => fill'[y] = fill[y] /\ written'[y] = written[y]
                   /\ y = x => fill'[y] = fill[y] + 1 /\ written'[y] = written[y] + 1
         /\ WriteInput \/ ChildReads => \A y \in Outputs : fill'[y] = fill[y]
<1>1. /\ Outputs \subseteq Pipes /\ "in" \in Pipes /\ "in" \notin Outputs
      /\ fill \in [Pipes -> 0 .. PipeSize] /\ written \in [Outputs -> Nat]
      /\ collected \in [Outputs -> Nat]
  BY DEF TypeOK, Outputs, Pipes
<1>2. ASSUME NEW x \in Outputs, DrainSome(x), NEW y \in Outputs
      PROVE  /\ y # x => fill'[y] = fill[y] /\ collected'[y] = collected[y]
             /\ y = x => fill'[y] = fill[y] - 1 /\ collected'[y] = collected[y] + 1
  BY <1>1, <1>2 DEF DrainSome
<1>3. ASSUME NEW x \in Outputs, ChildWrites(x)
      PROVE  /\ fill'["in"] = fill["in"]
             /\ \A y \in Outputs :
                  /\ y # x => fill'[y] = fill[y] /\ written'[y] = written[y]
                  /\ y = x => fill'[y] = fill[y] + 1 /\ written'[y] = written[y] + 1
  BY <1>1, <1>3 DEF ChildWrites
<1>4. ASSUME WriteInput \/ ChildReads, NEW y \in Outputs PROVE fill'[y] = fill[y]
  BY <1>1, <1>4 DEF WriteInput, ChildReads
<1> QED BY <1>2, <1>3, <1>4

LEMMA Numbers ==
  ASSUME TypeOK
  PROVE  \A x \in Outputs : /\ fill[x] \in Nat /\ written[x] \in Nat
                            /\ collected[x] \in Nat /\ MaxWritten[x] \in Nat
<1>1. /\ fill \in [Pipes -> 0 .. PipeSize] /\ Outputs \subseteq Pipes
      /\ written \in [Outputs -> Nat] /\ collected \in [Outputs -> Nat]
  BY DEF TypeOK, Pipes
<1>2. MaxWritten \in [Outputs -> Nat]
  BY SpawnAssumption
<1> QED BY <1>1, <1>2

LEMMA BoundedStep ==
  ASSUME TypeOK, ChildInv, Bounded, [SpawnSyncNext]_spawnSyncVars PROVE Bounded'
<1> USE DEF Bounded
<1>1. ASSUME NEW x \in Outputs, DrainSome(x) PROVE Bounded'
  <2>1. written' = written
    BY <1>1 DEF DrainSome
  <2> QED BY <1>1, <2>1, Counts, Numbers
<1>2. ASSUME NEW x \in Outputs, ChildWrites(x) PROVE Bounded'
  <2>1. written[x] < MaxWritten[x]
    BY <1>2 DEF ChildWrites, ChildInv
  <2> QED BY <1>2, <2>1, Counts, Numbers
<1>3. CASE WriteInput \/ ChildReads
  <2>1. written' = written
    BY <1>3 DEF WriteInput, ChildReads
  <2> QED BY <1>3, <2>1, Counts
<1>4. ASSUME UNCHANGED <<fill, written>> PROVE Bounded'
  BY <1>4
<1>5. CASE DoSpawn
  BY <1>1, <1>3, <1>4, <1>5 DEF DoSpawn, MakePipes, PipeFails, ForkFails, Fork, InputDone,
     DrainDone, DrainFails, Wait, AbortWait
<1>6. CASE Child \/ UNCHANGED spawnSyncVars
  BY <1>2, <1>3, <1>4, <1>6 DEF Child, ChildCalls, ChildCloses, ChildBreaks, ChildExits, spawnSyncVars
<1> QED BY <1>5, <1>6 DEF SpawnSyncNext, Returned

LEMMA ConservedStep ==
  ASSUME TypeOK, Conserved, [SpawnSyncNext]_spawnSyncVars PROVE Conserved'
<1> USE DEF Conserved
<1>1. ASSUME NEW x \in Outputs, DrainSome(x) PROVE Conserved'
  <2>1. written' = written /\ pc' = pc
    BY <1>1 DEF DrainSome
  <2> QED BY <1>1, <2>1, Counts, Numbers
<1>2. ASSUME NEW x \in Outputs, ChildWrites(x) PROVE Conserved'
  <2>1. collected' = collected /\ pc' = pc
    BY <1>2 DEF ChildWrites, parent
  <2> QED BY <1>2, <2>1, Counts, Numbers
<1>3. CASE WriteInput \/ ChildReads
  <2>1. written' = written /\ collected' = collected /\ pc' = pc
    BY <1>3 DEF WriteInput, ChildReads, parent
  <2> QED BY <1>3, <2>1, Counts
<1>4. ASSUME UNCHANGED <<fill, written, collected>>,
             pc \in {"abort", "done"} => pc' \in {"abort", "done"}
      PROVE  Conserved'
  BY <1>4
<1>5. ASSUME pc' \in {"abort", "done"} PROVE Conserved'
  BY <1>5
<1>6. CASE DoSpawn
  BY <1>1, <1>3, <1>4, <1>5, <1>6 DEF DoSpawn, MakePipes, PipeFails, ForkFails, Fork,
     InputDone, DrainDone, DrainFails, Draining, Abandon, Wait, AbortWait
<1>7. CASE Child \/ UNCHANGED spawnSyncVars
  BY <1>2, <1>3, <1>4, <1>7 DEF Child, ChildCalls, ChildCloses, ChildBreaks, ChildExits,
     spawnSyncVars, parent
<1> QED BY <1>6, <1>7 DEF SpawnSyncNext, Returned

\* The input in the pipe and the input still to write are part of the input.
LEMMA InputFitsStep ==
  ASSUME TypeOK, InputFits, [SpawnSyncNext]_spawnSyncVars PROVE InputFits'
<1> USE DEF InputFits
<1>0. /\ fill \in [Pipes -> 0 .. PipeSize] /\ "in" \in Pipes /\ fill["in"] \in Nat
      /\ remain \in Nat /\ input \in Nat \cup {NoInput}
  <2>1. fill \in [Pipes -> 0 .. PipeSize] /\ "in" \in Pipes /\ remain \in Nat
    BY DEF TypeOK, Pipes
  <2>2. input \in Nat \cup {NoInput}
    BY SpawnAssumption DEF TypeOK
  <2> QED BY <2>1, <2>2
<1>1. CASE Fork
  BY <1>1 DEF Fork, HasInput
<1>2. CASE WriteInput
  BY <1>0, <1>2 DEF WriteInput, MoreInput, HasInput, NoInput
<1>3. CASE ChildReads
  BY <1>0, <1>3 DEF ChildReads, parent, HasInput, NoInput
<1>4. ASSUME NEW x \in Outputs, DrainSome(x) \/ DrainDone(x) \/ DrainFails(x)
      PROVE  pc' \notin {"pipes", "fork", "write"}
  BY <1>4 DEF DrainSome, DrainDone, DrainFails, Draining, Abandon
<1>5. ASSUME NEW x \in Outputs, ChildWrites(x) PROVE InputFits'
  BY <1>5, Counts DEF ChildWrites, parent, HasInput
<1>6. ASSUME UNCHANGED <<pc, fill, remain, input>> PROVE InputFits'
  BY <1>6 DEF HasInput
<1>9. CASE MakePipes \/ PipeFails \/ ForkFails \/ InputDone \/ Wait \/ AbortWait
  BY <1>9 DEF MakePipes, PipeFails, ForkFails, InputDone, Wait, AbortWait, HasInput
<1>7. CASE DoSpawn
  BY <1>1, <1>2, <1>4, <1>7, <1>9 DEF DoSpawn
<1>8. CASE Child \/ UNCHANGED spawnSyncVars
  BY <1>3, <1>5, <1>6, <1>8 DEF Child, ChildCalls, ChildCloses, ChildBreaks, ChildExits,
     spawnSyncVars, parent
<1> QED BY <1>7, <1>8 DEF SpawnSyncNext, Returned

\* No one writes to a pipe whose write ends are closed.
LEMMA DrainedStep ==
  ASSUME TypeOK, ChildInv, Drained, [SpawnSyncNext]_spawnSyncVars PROVE Drained'
<1> USE DEF Drained
<1>0. Outputs = {"out", "err"}
  BY DEF Outputs
<1>1. ASSUME NEW x \in Outputs, DrainDone(x) PROVE Drained'
  BY <1>1 DEF DrainDone, Draining, AtEnd, Outputs
<1>2. ASSUME NEW x \in Outputs, DrainSome(x) \/ DrainFails(x) PROVE Drained'
  <2>1. CASE DrainSome(x)
    <3>1. CASE x = "out"
      BY <2>1, <3>1 DEF DrainSome, Draining
    <3>2. CASE x = "err"
      <4>1. fill'["out"] = fill["out"]
        BY <1>0, <2>1, <3>2, Counts
      <4> QED BY <2>1, <3>2, <4>1 DEF DrainSome, Draining
    <3> QED BY <1>0, <3>1, <3>2
  <2>2. CASE DrainFails(x)
    BY <2>2 DEF DrainFails, Abandon
  <2> QED BY <1>2, <2>1, <2>2
<1>3. ASSUME NEW x \in Outputs, ChildWrites(x) PROVE Drained'
  <2>1. x \in childEnds /\ \A y \in Outputs : y # x => fill'[y] = fill[y]
    BY <1>3, Counts DEF ChildWrites, ChildInv, Pipes
  <2> QED BY <1>0, <1>3, <2>1 DEF ChildWrites, parent
<1>4. CASE ChildReads
  <2>1. fill'["out"] = fill["out"] /\ fill'["err"] = fill["err"]
    BY <1>0, <1>4, Counts
  <2> QED BY <1>4, <2>1 DEF ChildReads, parent
<1>5. CASE DoSpawn
  BY <1>1, <1>2, <1>5 DEF DoSpawn, MakePipes, PipeFails, ForkFails, Fork, WriteInput,
     InputDone, Wait, AbortWait
<1>6. CASE Child \/ UNCHANGED spawnSyncVars
  BY <1>3, <1>4, <1>6 DEF Child, ChildCalls, ChildCloses, ChildBreaks, ChildExits, spawnSyncVars,
     parent
<1> QED BY <1>5, <1>6 DEF SpawnSyncNext, Returned

LEMMA ResultStep ==
  ASSUME TypeOK, ChildInv, ResultInv, [SpawnSyncNext]_spawnSyncVars PROVE ResultInv'
<1> USE DEF ResultInv, Ended
<1>1. CASE DoSpawn
  BY <1>1 DEF DoSpawn, MakePipes, PipeFails, ForkFails, Fork, WriteInput, InputDone,
     DrainSome, DrainDone, DrainFails, Draining, Abandon, Wait, AbortWait
<1>2. CASE Child \/ UNCHANGED spawnSyncVars
  BY <1>2 DEF Child, ChildCalls, ChildCloses, ChildReads, ChildWrites, ChildBreaks,
     ChildExits, spawnSyncVars, parent, Pipes, Outputs
<1> QED BY <1>1, <1>2 DEF SpawnSyncNext, Returned

\* Only the wait for the child returns a result other than "failed".
LEMMA OutputStep ==
  ASSUME TypeOK, Conserved, Drained, ResultInv, OutputComplete, [SpawnSyncNext]_spawnSyncVars
  PROVE  OutputComplete'
<1> USE DEF OutputComplete, ResultInv, Ended
<1>1. CASE Wait
  <2>1. \A x \in Outputs : collected[x] = written[x]
    BY <1>1, Numbers DEF Wait, Conserved, Drained, Outputs
  <2>2. collected \in [Outputs -> Nat] /\ written \in [Outputs -> Nat]
    BY DEF TypeOK
  <2>3. collected = written
    BY <2>1, <2>2
  <2> QED BY <1>1, <2>3 DEF Wait
<1>2. CASE DoSpawn /\ ~Wait
  BY <1>2 DEF DoSpawn, MakePipes, PipeFails, ForkFails, Fork, WriteInput, InputDone,
     DrainSome, DrainDone, DrainFails, Draining, AbortWait
<1>3. CASE Child
  BY <1>3 DEF Child, ChildCalls, ChildCloses, ChildReads, ChildWrites, ChildBreaks,
     ChildExits, parent, Outputs
<1>4. CASE UNCHANGED spawnSyncVars
  BY <1>4 DEF spawnSyncVars, parent
<1> QED BY <1>1, <1>2, <1>3, <1>4 DEF SpawnSyncNext, Returned

LEMMA SpawnStep == SpawnInv /\ [SpawnSyncNext]_spawnSyncVars => SpawnInv'
<1> SUFFICES ASSUME SpawnInv, [SpawnSyncNext]_spawnSyncVars PROVE SpawnInv'
  OBVIOUS
<1>1. TypeOK' /\ EndsInv' /\ ChildInv'
  BY SpawnTypeStep, EndsStep, ChildStep DEF SpawnInv
<1>2. Bounded' /\ Conserved' /\ InputFits' /\ Drained' /\ ResultInv' /\ OutputComplete'
  BY BoundedStep, ConservedStep, InputFitsStep, DrainedStep, ResultStep, OutputStep
     DEF SpawnInv
<1> QED BY <1>1, <1>2 DEF SpawnInv

\* Every variable keeps its type.
THEOREM SpawnTypeCorrect == SpawnSyncSpec => []TypeOK
<1>1. SpawnInv => TypeOK
  BY DEF SpawnInv
<1>2. SpawnInv /\ [SpawnSyncNext]_spawnSyncVars => SpawnInv'
  BY SpawnStep
<1> QED BY <1>1, <1>2, SpawnInit, PTL DEF SpawnSyncSpec

\* All the output of a child that ran to its end is returned, and no descriptor
\* stays open, whichever pipe(), fork() or allocation fails.
THEOREM SpawnIsComplete == SpawnSyncSpec => [](OutputComplete /\ FdsReleased)
<1>1. SpawnInv => OutputComplete /\ FdsReleased
  BY DEF SpawnInv, EndsInv, ReadHeld, WriteHeld, FdsReleased
<1>2. SpawnInv /\ [SpawnSyncNext]_spawnSyncVars => SpawnInv'
  BY SpawnStep
<1> QED BY <1>1, <1>2, SpawnInit, PTL DEF SpawnSyncSpec

LEMMA ReapedStep ==
  ASSUME SpawnInv, ChildReaped, [SpawnSyncNext]_spawnSyncVars PROVE ChildReaped'
<1> USE DEF ChildReaped, Ended
<1>i. ChildInv
  BY DEF SpawnInv
<1>1. CASE PipeFails \/ ForkFails
  BY <1>1, <1>i DEF PipeFails, ForkFails, ChildInv
<1>2. CASE Wait \/ AbortWait
  BY <1>2 DEF Wait, AbortWait
<1>3. CASE DoSpawn /\ ~PipeFails /\ ~ForkFails /\ ~Wait /\ ~AbortWait
  <2>1. pc' # "done"
    BY <1>3 DEF DoSpawn, MakePipes, Fork, WriteInput, InputDone, DrainSome, DrainDone,
       DrainFails, Abandon, Draining
  <2> QED BY <2>1
<1>4. CASE Child
  BY <1>4 DEF Child, ChildCalls, ChildCloses, ChildReads, ChildWrites, ChildBreaks,
     ChildExits, parent, Pipes, Outputs
<1>5. CASE UNCHANGED spawnSyncVars
  BY <1>5 DEF spawnSyncVars, parent
<1> QED BY <1>1, <1>2, <1>3, <1>4, <1>5 DEF SpawnSyncNext, Returned

\* DoSpawn leaves no descriptor and no zombie, whichever pipe(), fork() or allocation
\* fails, unless memory runs out while a signal interrupts its waitpid().
THEOREM SpawnLeavesNothing == SpawnSyncSpec => []NothingLeft
<1> DEFINE Inv == SpawnInv /\ ChildReaped
<1>1. SpawnSyncInit => Inv
  BY SpawnInit DEF SpawnSyncInit, ChildReaped
<1>2. Inv /\ [SpawnSyncNext]_spawnSyncVars => Inv'
  BY SpawnStep, ReapedStep
<1>3. Inv => NothingLeft
  BY DEF SpawnInv, EndsInv, ReadHeld, WriteHeld, FdsReleased, NothingLeft
<1> QED BY <1>1, <1>2, <1>3, PTL DEF SpawnSyncSpec

\* If stderr fits into its pipe, and the input or stdout too, the parent and the
\* child never wait for each other.
THEOREM SmallOutputsDoNotBlock ==
  ASSUME SmallEnough PROVE SpawnSyncSpec => []NoMutualWait
<1>1. SpawnInv => NoMutualWait
  <2> SUFFICES ASSUME SpawnInv, ParentWaits, ChildWaits PROVE FALSE
    BY DEF NoMutualWait
  <2>i. TypeOK /\ EndsInv /\ ChildInv /\ Bounded /\ InputFits
    BY DEF SpawnInv
  <2>0. /\ \A x \in Outputs : child = x => fill[x] < MaxWritten[x]
        /\ PipeSize \in Nat \ {0}
        /\ \A x \in Outputs : fill[x] \in Nat /\ MaxWritten[x] \in Nat
    <3>1. \A x \in Outputs : child = x => written[x] < MaxWritten[x]
      BY <2>i DEF ChildInv
    <3> QED BY <2>i, <3>1, Numbers, SpawnAssumption DEF Bounded
  <2>1. ~(child = "err" /\ fill["err"] = PipeSize)
    BY <2>0, SpawnAssumption DEF SmallEnough, Outputs
  <2>2. CASE pc = "write"
    <3>1. fill["in"] = PipeSize /\ remain > 0 /\ fill["in"] + remain <= input
      BY <2>i, <2>2 DEF ParentWaits, MoreInput, Draining, InputFits
    <3>2. ~(\A i \in Inputs : i <= PipeSize)
      <4>1. input \in Inputs /\ remain \in Nat
        BY <2>i DEF TypeOK
      <4>2. input \in Nat \cup {-1}
        BY <4>1, SpawnAssumption DEF NoInput
      <4> QED BY <2>0, <3>1, <4>1, <4>2
    <3>3. child = "out" /\ fill["out"] = PipeSize
      BY <2>1, <2>0, <3>1 DEF ChildWaits, Outputs
    <3> QED BY <2>0, <3>2, <3>3 DEF SmallEnough, Outputs
  <2>3. CASE pc = "drain out"
    <3>1. "in" \notin writeEnds /\ fill["out"] = 0
      BY <2>i, <2>3 DEF EndsInv, WriteHeld, ParentWaits, Draining
    <3> QED BY <2>0, <2>1, <3>1 DEF ChildWaits, Outputs
  <2>4. CASE pc \notin {"write", "drain out"}
    <3>1. "in" \notin writeEnds /\ "out" \notin readEnds
      BY <2>i, <2>4 DEF EndsInv, ReadHeld, WriteHeld, ParentWaits, Draining, Outputs
    <3> QED BY <2>1, <3>1 DEF ChildWaits, Outputs
  <2> QED BY <2>2, <2>3, <2>4
<1>2. SpawnInv /\ [SpawnSyncNext]_spawnSyncVars => SpawnInv'
  BY SpawnStep
<1> QED BY <1>1, <1>2, SpawnInit, PTL DEF SpawnSyncSpec
=============================================================================
