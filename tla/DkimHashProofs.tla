--------------------------- MODULE DkimHashProofs ---------------------------
(***************************************************************************)
(* Theorems about DkimHash, for any messages, any cut of a body into       *)
(* writes and any number of fields added on the way.                       *)
(***************************************************************************)
EXTENDS DkimHash, SequenceTheorems, FiniteSetTheorems, WellFoundedInduction, TLAPS

---------------------------------------------------------------------------
(* Induction.                                                              *)

\* A set of naturals that is not empty has a least element.
LEMMA LeastNat ==
    ASSUME NEW T, T \subseteq Nat, T # {}
    PROVE  \E x \in T : \A y \in T : x <= y
<1>1. PICK x \in T : \A y \in T : ~ (<<y, x>> \in OpToRel(<, Nat))
  BY NatLessThanWellFounded, WFMin
<1>2. ASSUME NEW y \in T PROVE x <= y
  <2>1. x \in Nat /\ y \in Nat
    OBVIOUS
  <2>2. y < x => <<y, x>> \in OpToRel(<, Nat)
    BY <2>1 DEF OpToRel
  <2>3. ~ (y < x)
    BY <1>1, <2>2
  <2> QED
    BY ONLY <2>1, <2>3
<1> QED
  BY <1>2

\* Induction, with a set for what is to be shown.
LEMMA SetInduction ==
    ASSUME NEW S, 0 \in S, \A n \in Nat : n \in S => n + 1 \in S
    PROVE  Nat \subseteq S
<1> SUFFICES ASSUME NEW m \in Nat, m \notin S PROVE FALSE
  OBVIOUS
<1> DEFINE T == {n \in Nat : n \notin S}
<1>1. T \subseteq Nat /\ T # {}
  OBVIOUS
<1>2. PICK x \in T : \A y \in T : x <= y
  <2> HIDE DEF T
  <2> QED
    BY <1>1, LeastNat
<1>3. x \in Nat /\ x # 0
  OBVIOUS
<1>4. x - 1 \in Nat /\ (x - 1) + 1 = x /\ ~ (x <= x - 1)
  BY ONLY <1>3
<1>5. x - 1 \in S
  BY <1>2, <1>4
<1> QED
  BY <1>4, <1>5

\* The same up to n.
LEMMA BoundedInduction ==
    ASSUME NEW n \in Nat, NEW S, 0 \in S, \A k \in 0 .. n - 1 : k \in S => k + 1 \in S
    PROVE  n \in S /\ \A k \in 0 .. n : k \in S
<1> DEFINE T == {k \in Nat : k <= n => k \in S}
<1>1. 0 \in T
  OBVIOUS
<1>2. ASSUME NEW k \in Nat, k \in T PROVE k + 1 \in T
  <2> SUFFICES ASSUME k + 1 <= n PROVE k + 1 \in S
    OBVIOUS
  <2>1. k \in 0 .. n - 1 /\ k <= n
    OBVIOUS
  <2> QED
    BY <1>2, <2>1
<1>3. Nat \subseteq T
  <2> HIDE DEF T
  <2> QED
    BY <1>1, <1>2, SetInduction
<1> QED
  BY <1>3

---------------------------------------------------------------------------
(* Going through a sequence.                                               *)

\* The states in which a machine with these steps, begun in d, goes through s.
IsRun(D, A, step, d, s, r) ==
    /\ step \in [D -> [A -> D]] /\ s \in Seq(A) /\ r \in [0 .. Len(s) -> D]
    /\ r[0] = d
    /\ \A k \in 1 .. Len(s) : r[k] = step[r[k - 1]][s[k]]

LEMMA RunExists ==
    ASSUME NEW D, NEW A, NEW step \in [D -> [A -> D]], NEW d \in D, NEW s \in Seq(A)
    PROVE  \E r : IsRun(D, A, step, d, s, r)
<1> DEFINE Upto(n, r) == r[0] = d /\ \A k \in 1 .. n : r[k] = step[r[k - 1]][s[k]]
           S == {n \in 0 .. Len(s) : \E r \in [0 .. n -> D] : Upto(n, r)}
<1>0. Len(s) \in Nat
  OBVIOUS
<1>1. 0 \in S
  <2> DEFINE r == [k \in 0 .. 0 |-> d]
  <2>1. r \in [0 .. 0 -> D] /\ Upto(0, r)
    OBVIOUS
  <2> HIDE DEF r, Upto
  <2>2. 0 \in 0 .. Len(s)
    BY <1>0
  <2> QED
    BY <2>1, <2>2
<1>2. ASSUME NEW n \in 0 .. Len(s) - 1, n \in S PROVE n + 1 \in S
  <2>0. n \in Nat /\ n + 1 \in 0 .. Len(s) /\ n + 1 \in 1 .. Len(s)
    BY <1>0
  <2>1. PICK q \in [0 .. n -> D] : Upto(n, q)
    BY <1>2
  <2> DEFINE r == [k \in 0 .. n + 1 |-> IF k <= n THEN q[k] ELSE step[q[n]][s[n + 1]]]
  <2>2. q[n] \in D /\ s[n + 1] \in A
    BY <2>0
  <2>3. r \in [0 .. n + 1 -> D]
    BY <2>0, <2>2
  <2>4. \A k \in 0 .. n : r[k] = q[k]
    BY <2>0
  <2>5. r[n + 1] = step[r[n]][s[n + 1]]
    BY <2>0
  <2> HIDE DEF r
  <2>6. r[0] = d
    BY <2>0, <2>1, <2>4
  <2>7. ASSUME NEW k \in 1 .. n + 1 PROVE r[k] = step[r[k - 1]][s[k]]
    <3>1. CASE k = n + 1
      <4>1. k - 1 = n
        BY <2>0, <3>1
      <4> QED
        BY <2>5, <3>1, <4>1
    <3>2. CASE k # n + 1
      <4>1. k \in 0 .. n /\ k - 1 \in 0 .. n /\ k \in 1 .. n
        BY ONLY <2>0, <3>2, k \in 1 .. n + 1
      <4> QED
        BY <2>1, <2>4, <4>1
    <3> QED
      BY <3>1, <3>2
  <2> QED
    BY <2>0, <2>3, <2>6, <2>7
<1>3. Len(s) \in S
  <2> HIDE DEF S
  <2> QED
    BY ONLY <1>0, <1>1, <1>2, BoundedInduction
<1> QED
  BY <1>3 DEF IsRun

Commutes(D, A, step, map) == \A d \in D, x \in A : map[step[d][x]] = step[map[d]][x]

\* When a map commutes with every step, it takes one run to another.
LEMMA RunMaps ==
    ASSUME NEW D, NEW A, NEW step, NEW s, NEW map, NEW d, NEW r, NEW q,
           IsRun(D, A, step, d, s, r), IsRun(D, A, step, map[d], s, q),
           Commutes(D, A, step, map)
    PROVE  q[Len(s)] = map[r[Len(s)]]
<1> USE DEF IsRun
<1> DEFINE S == {n \in 0 .. Len(s) : q[n] = map[r[n]]}
<1>0. Len(s) \in Nat
  OBVIOUS
<1>1. 0 \in S
  BY <1>0
<1>2. ASSUME NEW n \in 0 .. Len(s) - 1, n \in S PROVE n + 1 \in S
  <2>1. n + 1 \in 1 .. Len(s) /\ (n + 1) - 1 = n /\ n \in 0 .. Len(s) /\ n + 1 \in 0 .. Len(s)
    BY ONLY <1>0, n \in 0 .. Len(s) - 1
  <2>2. r[n + 1] = step[r[n]][s[n + 1]] /\ q[n + 1] = step[q[n]][s[n + 1]]
    BY <2>1 DEF IsRun
  <2>3. r[n] \in D /\ s[n + 1] \in A
    <3>1. r[n] \in D
      BY ONLY <2>1, r \in [0 .. Len(s) -> D]
    <3>2. s[n + 1] \in A
      BY ONLY <2>1, s \in Seq(A)
    <3> QED
      BY <3>1, <3>2
  <2>4. q[n] = map[r[n]]
    BY <1>2
  <2> QED
    BY <2>1, <2>2, <2>3, <2>4 DEF Commutes
<1>3. Len(s) \in S
  <2> HIDE DEF S
  <2> QED
    BY ONLY <1>0, <1>1, <1>2, BoundedInduction
<1> QED
  BY <1>3

\* A run through two sequences is one through the second after one through the
\* first.
LEMMA RunConcat ==
    ASSUME NEW D, NEW A, NEW step, NEW d, NEW s, NEW t, NEW r, NEW q, NEW w,
           IsRun(D, A, step, d, s, r), IsRun(D, A, step, r[Len(s)], t, q),
           IsRun(D, A, step, d, s \o t, w)
    PROVE  w[Len(s \o t)] = q[Len(t)]
<1> USE DEF IsRun
<1>0. /\ s \o t \in Seq(A) /\ Len(s \o t) = Len(s) + Len(t) /\ Len(s) \in Nat /\ Len(t) \in Nat
      /\ \A i \in 1 .. Len(s) : (s \o t)[i] = s[i]
      /\ \A i \in 1 .. Len(t) : (s \o t)[Len(s) + i] = t[i]
  <2>1. ASSUME NEW i \in 1 .. Len(t) PROVE (s \o t)[Len(s) + i] = t[i]
    OBVIOUS
  <2> QED
    BY <2>1, ConcatProperties
<1> DEFINE S == {n \in 0 .. Len(s) : w[n] = r[n]}
           T == {n \in 0 .. Len(t) : w[Len(s) + n] = q[n]}
<1>1. 0 \in S
  BY <1>0 DEF IsRun
<1>2. ASSUME NEW n \in 0 .. Len(s) - 1, n \in S PROVE n + 1 \in S
  <2>1. /\ n + 1 \in 1 .. Len(s) /\ (n + 1) - 1 = n
        /\ n + 1 \in 1 .. Len(s) + Len(t) /\ n + 1 \in 0 .. Len(s)
    <3>1. Len(s) \in Nat /\ Len(t) \in Nat
      BY <1>0
    <3> QED
      BY ONLY <3>1, n \in 0 .. Len(s) - 1
  <2>2. r[n + 1] = step[r[n]][s[n + 1]] /\ w[n + 1] = step[w[n]][(s \o t)[n + 1]]
    BY <1>0, <2>1 DEF IsRun
  <2> QED
    BY <1>0, <1>2, <2>1, <2>2
<1>3. Len(s) \in S
  <2> HIDE DEF S
  <2> QED
    BY ONLY <1>0, <1>1, <1>2, BoundedInduction
<1>4. 0 \in T
  BY <1>0, <1>3 DEF IsRun
<1>5. ASSUME NEW n \in 0 .. Len(t) - 1, n \in T PROVE n + 1 \in T
  <2> DEFINE m == Len(s) + (n + 1)
  <2>1. /\ n + 1 \in 1 .. Len(t) /\ (n + 1) - 1 = n /\ n + 1 \in 0 .. Len(t)
        /\ m \in 1 .. Len(s) + Len(t) /\ m - 1 = Len(s) + n
    <3>1. Len(s) \in Nat /\ Len(t) \in Nat
      BY <1>0
    <3> QED
      BY ONLY <3>1, n \in 0 .. Len(t) - 1
  <2>2. w[m] = step[w[m - 1]][(s \o t)[m]]
    BY <1>0, <2>1 DEF IsRun
  <2>3. q[n + 1] = step[q[n]][t[n + 1]]
    BY <2>1 DEF IsRun
  <2>4. (s \o t)[m] = t[n + 1]
    BY <1>0, <2>1
  <2>5. w[Len(s) + n] = q[n]
    BY <1>5
  <2> QED
    BY <2>1, <2>2, <2>3, <2>4, <2>5
<1>6. Len(t) \in T
  <2> HIDE DEF T
  <2> QED
    BY ONLY <1>0, <1>4, <1>5, BoundedInduction
<1> QED
  BY <1>0, <1>6

\* Whatever takes the steps of a machine, from where it begins, is its run.
StepsIn(D, step, d, s, f) ==
    /\ f[0] = d
    /\ \A k \in 1 .. Len(s) : f[k - 1] \in D => f[k] = step[f[k - 1]][s[k]]

LEMMA RunUnique ==
    ASSUME NEW D, NEW A, NEW step, NEW d, NEW s, NEW r, NEW f,
           IsRun(D, A, step, d, s, r), StepsIn(D, step, d, s, f)
    PROVE  f[Len(s)] = r[Len(s)]
<1> USE DEF IsRun
<1> DEFINE S == {n \in 0 .. Len(s) : f[n] = r[n]}
<1>0. Len(s) \in Nat
  OBVIOUS
<1>1. 0 \in S
  BY <1>0 DEF IsRun, StepsIn
<1>2. ASSUME NEW n \in 0 .. Len(s) - 1, n \in S PROVE n + 1 \in S
  <2>1. n + 1 \in 1 .. Len(s) /\ (n + 1) - 1 = n /\ n \in 0 .. Len(s) /\ n + 1 \in 0 .. Len(s)
    BY ONLY <1>0, n \in 0 .. Len(s) - 1
  <2>2. r[n] \in D
    BY ONLY <2>1, r \in [0 .. Len(s) -> D]
  <2>3. r[n + 1] = step[r[n]][s[n + 1]]
    BY <2>1 DEF IsRun
  <2>4. f[n] = r[n]
    BY <1>2
  <2>5. f[n + 1] = step[f[n]][s[n + 1]]
    BY <2>1, <2>2, <2>4 DEF StepsIn
  <2> QED
    BY <2>1, <2>3, <2>4, <2>5
<1>3. Len(s) \in S
  <2> HIDE DEF S
  <2> QED
    BY ONLY <1>0, <1>1, <1>2, BoundedInduction
<1> QED
  BY <1>3

---------------------------------------------------------------------------
(* Sequences.                                                              *)

\* Concatenation, under a name that can be left unexpanded.
Cat(s, t) == s \o t

LEMMA CatType ==
    ASSUME NEW S, NEW s \in Seq(S), NEW t \in Seq(S)
    PROVE  /\ Cat(s, t) \in Seq(S)
           /\ Len(Cat(s, t)) = Len(s) + Len(t)
BY DEF Cat

LEMMA CatAssociative ==
    ASSUME NEW S, NEW s \in Seq(S), NEW t \in Seq(S), NEW u \in Seq(S)
    PROVE  Cat(Cat(s, t), u) = Cat(s, Cat(t, u))
BY ConcatAssociative DEF Cat

LEMMA CatEmpty ==
    ASSUME NEW S, NEW s \in Seq(S) PROVE Cat(s, <<>>) = s /\ Cat(<<>>, s) = s
BY ConcatEmptySeq DEF Cat

LEMMA SplitLast ==
    ASSUME NEW S, NEW s \in Seq(S), s # <<>>
    PROVE  \E t \in Seq(S), x \in S : s = Cat(t, <<x>>) /\ x = Last(s)
<1>1. Len(s) \in Nat /\ Len(s) \in 1 .. Len(s) /\ 1 \in 1 .. Len(s)
  OBVIOUS
<1>2. s = SubSeq(s, 1, Len(s) - 1) \o <<s[Len(s)]>>
  BY <1>1, SubSeqRecursiveSecond, SubSeqFull
<1>3. SubSeq(s, 1, Len(s) - 1) \in Seq(S) /\ s[Len(s)] \in S
  BY <1>1
<1> QED
  BY <1>2, <1>3 DEF Cat, Last

LEMMA LastOfCat ==
    ASSUME NEW S, NEW s \in Seq(S), NEW t \in Seq(S), t # <<>>
    PROVE  Cat(s, t) # <<>> /\ Last(Cat(s, t)) = Last(t)
<1>1. Len(s) \in Nat /\ Len(t) \in Nat /\ Len(t) > 0
  OBVIOUS
<1>2. /\ Len(s \o t) = Len(s) + Len(t)
      /\ (s \o t)[Len(s) + Len(t)] = t[Len(t)]
  BY <1>1, ConcatProperties
<1> QED
  BY <1>1, <1>2 DEF Last, Cat

\* A prefix with one element more.
LEMMA PrefixStep ==
    ASSUME NEW S, NEW s \in Seq(S), NEW n \in 0 .. Len(s) - 1
    PROVE  /\ SubSeq(s, 1, n) \in Seq(S) /\ Len(SubSeq(s, 1, n)) = n
           /\ n > 0 => SubSeq(s, 1, n) # <<>> /\ Last(SubSeq(s, 1, n)) = s[n]
           /\ s[n + 1] \in S /\ <<s[n + 1]>> \in Seq(S)
           /\ SubSeq(s, 1, n + 1) = Cat(SubSeq(s, 1, n), <<s[n + 1]>>)
<1>0. Len(s) \in Nat
  OBVIOUS
<1>1. n \in Nat /\ n + 1 \in 1 .. Len(s) /\ 1 \in 1 .. Len(s) /\ (n + 1) - 1 = n /\ n <= Len(s)
  BY ONLY <1>0, n \in 0 .. Len(s) - 1
<1>2. SubSeq(s, 1, n + 1) = SubSeq(s, 1, n) \o <<s[n + 1]>>
  BY <1>1, SubSeqRecursiveSecond
<1>3. SubSeq(s, 1, n) \in Seq(S) /\ Len(SubSeq(s, 1, n)) = n /\ s[n + 1] \in S
  BY <1>1
<1>4. n > 0 => SubSeq(s, 1, n)[n] = s[n]
  BY <1>1
<1>5. n > 0 => SubSeq(s, 1, n) # <<>>
  BY <1>1, <1>3
<1>6. <<s[n + 1]>> \in Seq(S)
  BY ONLY <1>3
<1> QED
  BY <1>2, <1>3, <1>4, <1>5, <1>6 DEF Cat, Last

---------------------------------------------------------------------------
(* crlfFixer.                                                              *)

Before == Bytes \cup {"none"}
FixState == [before : Before, out : Seq(Bytes)]
FixStep == [f \in FixState |-> [ch \in Bytes |-> FixByte(f, ch)]]
FixStart(before) == [before |-> before, out |-> <<>>]

LEMMA FixedByteType ==
    ASSUME NEW p, NEW ch \in Bytes
    PROVE  /\ FixedByte(p, ch) \in Seq(Bytes)
           /\ FixedByte(p, ch) # <<>> /\ Last(FixedByte(p, ch)) = ch
<1>1. CRLF \in Seq(Bytes) /\ CRLF # <<>> /\ Last(CRLF) = "LF"
  BY DEF CRLF, Bytes, Last
<1>2. <<ch>> \in Seq(Bytes) /\ <<ch>> # <<>> /\ Last(<<ch>>) = ch
  BY DEF Last
<1> QED
  BY <1>1, <1>2 DEF FixedByte

LEMMA FixStepType ==
    /\ FixStep \in [FixState -> [Bytes -> FixState]]
    /\ \A f \in FixState, ch \in Bytes :
         /\ FixStep[f][ch] = FixByte(f, ch)
         /\ FixStep[f][ch].before = ch
         /\ FixStep[f][ch].out = Cat(f.out, FixedByte(f.before, ch))
<1> SUFFICES ASSUME NEW f \in FixState, NEW ch \in Bytes PROVE FixByte(f, ch) \in FixState
  BY DEF FixStep, FixByte, Cat
<1>1. FixedByte(f.before, ch) \in Seq(Bytes) /\ f.out \in Seq(Bytes)
  BY FixedByteType DEF FixState
<1>2. f.out \o FixedByte(f.before, ch) \in Seq(Bytes)
  BY ONLY <1>1
<1> QED
  BY <1>2 DEF FixByte, FixState, Before

LEMMA FixStateEqual ==
    ASSUME NEW f \in FixState, NEW g \in FixState, f.before = g.before, f.out = g.out
    PROVE  f = g
BY DEF FixState

LEMMA FixStartType == ASSUME NEW p \in Before PROVE FixStart(p) \in FixState
BY DEF FixStart, FixState

FixRuns(p, b, r) == IsRun(FixState, Bytes, FixStep, FixStart(p), b, r)

\* Fix is where the fixer gets.
LEMMA FixRun ==
    ASSUME NEW p \in Before, NEW b \in Seq(Bytes)
    PROVE  \E r : FixRuns(p, b, r) /\ Fix(p, b) = r[Len(b)]
<1>1. PICK r : FixRuns(p, b, r)
  BY RunExists, FixStepType, FixStartType DEF FixRuns
<1> DEFINE Def(f) == f = [n \in 0 .. Len(b) |-> IF n = 0 THEN [before |-> p, out |-> <<>>]
                                              ELSE FixByte(f[n - 1], b[n])]
           f == CHOOSE g : Def(g)
<1>2. Def(r)
  <2>1. ASSUME NEW n \in 1 .. Len(b) PROVE r[n] = FixByte(r[n - 1], b[n])
    <3>1. r[n - 1] \in FixState /\ b[n] \in Bytes
      <4>1. n - 1 \in 0 .. Len(b) /\ Len(b) \in Nat
        OBVIOUS
      <4> QED
        BY <1>1, <4>1 DEF FixRuns, IsRun
    <3>2. r[n] = FixStep[r[n - 1]][b[n]]
      BY <1>1 DEF FixRuns, IsRun
    <3> QED
      BY <3>1, <3>2 DEF FixStep
  <2>2. r[0] = [before |-> p, out |-> <<>>] /\ r \in [0 .. Len(b) -> FixState]
    BY <1>1 DEF FixRuns, IsRun, FixStart
  <2>3. \A n \in 0 .. Len(b) : n # 0 => n \in 1 .. Len(b)
    OBVIOUS
  <2> QED
    BY <2>1, <2>2, <2>3
<1>3. Def(f)
  <2> HIDE DEF Def
  <2> QED
    BY <1>2
<1>4. Fix(p, b) = f[Len(b)]
  BY DEF Fix
<1>5. f[0] = FixStart(p)
  <2>1. 0 \in 0 .. Len(b)
    OBVIOUS
  <2> QED
    BY <1>3, <2>1 DEF FixStart
<1>6. ASSUME NEW k \in 1 .. Len(b), f[k - 1] \in FixState PROVE f[k] = FixStep[f[k - 1]][b[k]]
  <2>1. k \in 0 .. Len(b) /\ k # 0 /\ b[k] \in Bytes
    OBVIOUS
  <2>2. f[k] = FixByte(f[k - 1], b[k])
    <3> HIDE DEF f
    <3> QED
      BY <1>3, <2>1
  <2> HIDE DEF f
  <2> QED
    BY <1>6, <2>1, <2>2 DEF FixStep
<1> HIDE DEF f, Def
<1>7. f[Len(b)] = r[Len(b)]
  <2>1. StepsIn(FixState, FixStep, FixStart(p), b, f)
    BY <1>5, <1>6 DEF StepsIn
  <2> QED
    BY <1>1, <2>1, RunUnique DEF FixRuns
<1> QED
  BY <1>1, <1>4, <1>7

LEMMA FixType ==
    ASSUME NEW p \in Before, NEW b \in Seq(Bytes)
    PROVE  /\ Fix(p, b) \in FixState
           /\ Fix(p, b).out \in Seq(Bytes) /\ Fix(p, b).before \in Before
<1>1. PICK r : FixRuns(p, b, r) /\ Fix(p, b) = r[Len(b)]
  BY FixRun
<1>2. Len(b) \in 0 .. Len(b)
  OBVIOUS
<1>3. Fix(p, b) \in FixState
  BY <1>1, <1>2 DEF FixRuns, IsRun
<1> QED
  BY <1>3 DEF FixState

LEMMA FixEmpty == ASSUME NEW p \in Before PROVE Fix(p, <<>>) = FixStart(p)
<1>1. <<>> \in Seq(Bytes)
  OBVIOUS
<1>2. PICK r : FixRuns(p, <<>>, r) /\ Fix(p, <<>>) = r[Len(<<>>)]
  BY <1>1, FixRun
<1> QED
  BY <1>2 DEF FixRuns, IsRun

\* What was written before does not matter to the fixer.
Prefixed(o) == [f \in FixState |-> [before |-> f.before, out |-> o \o f.out]]

LEMMA PrefixedType ==
    ASSUME NEW o \in Seq(Bytes), NEW f \in FixState
    PROVE  /\ Prefixed(o)[f] \in FixState
           /\ Prefixed(o)[f].before = f.before
           /\ Prefixed(o)[f].out = Cat(o, f.out)
<1>1. f.out \in Seq(Bytes) /\ f.before \in Before
  BY DEF FixState
<1>2. o \o f.out \in Seq(Bytes)
  BY ONLY <1>1, o \in Seq(Bytes)
<1>3. Prefixed(o)[f] = [before |-> f.before, out |-> o \o f.out]
  BY DEF Prefixed
<1> QED
  BY <1>1, <1>2, <1>3 DEF FixState, Cat

LEMMA PrefixedCommutes ==
    ASSUME NEW o \in Seq(Bytes) PROVE Commutes(FixState, Bytes, FixStep, Prefixed(o))
<1>1. ASSUME NEW f \in FixState, NEW ch \in Bytes
      PROVE  Prefixed(o)[FixStep[f][ch]] = FixStep[Prefixed(o)[f]][ch]
  <2> DEFINE piece == FixedByte(f.before, ch)
             a == Prefixed(o)[FixStep[f][ch]]
             b == FixStep[Prefixed(o)[f]][ch]
  <2>1. f.out \in Seq(Bytes) /\ piece \in Seq(Bytes)
    BY FixedByteType DEF FixState
  <2>2. a \in FixState /\ a.before = ch /\ a.out = Cat(o, Cat(f.out, piece))
    <3> DEFINE g == FixStep[f][ch]
    <3>1. g \in FixState /\ g.before = ch /\ g.out = Cat(f.out, piece)
      BY FixStepType
    <3> HIDE DEF g
    <3>2. /\ Prefixed(o)[g] \in FixState
          /\ Prefixed(o)[g].before = g.before /\ Prefixed(o)[g].out = Cat(o, g.out)
      BY <3>1, PrefixedType
    <3> QED
      BY <3>1, <3>2 DEF g
  <2>3. b \in FixState /\ b.before = ch /\ b.out = Cat(Cat(o, f.out), piece)
    BY FixStepType, PrefixedType
  <2> HIDE DEF piece, a, b
  <2>4. Cat(Cat(o, f.out), piece) = Cat(o, Cat(f.out, piece))
    BY <2>1, CatAssociative
  <2>5. a = b
    BY <2>2, <2>3, <2>4, FixStateEqual
  <2> QED
    BY <2>5 DEF a, b
<1> QED
  BY <1>1 DEF Commutes

\* Fixing goes on where it stopped.
LEMMA FixConcat ==
    ASSUME NEW p \in Before, NEW s \in Seq(Bytes), NEW t \in Seq(Bytes)
    PROVE  /\ Fix(p, Cat(s, t)).before = Fix(Fix(p, s).before, t).before
           /\ Fix(p, Cat(s, t)).out = Cat(Fix(p, s).out, Fix(Fix(p, s).before, t).out)
<1> DEFINE m == Fix(p, s).before
           o == Fix(p, s).out
<1>1. Fix(p, s) \in FixState /\ o \in Seq(Bytes) /\ m \in Before
  BY FixType
<1>2. PICK r : FixRuns(p, s, r) /\ Fix(p, s) = r[Len(s)]
  BY FixRun
<1>3. s \o t \in Seq(Bytes)
  OBVIOUS
<1>4. PICK w : FixRuns(p, s \o t, w) /\ Fix(p, s \o t) = w[Len(s \o t)]
  BY <1>3, FixRun
<1>5. PICK u : FixRuns(m, t, u) /\ Fix(m, t) = u[Len(t)]
  BY <1>1, FixRun
<1>6. PICK q : IsRun(FixState, Bytes, FixStep, Fix(p, s), t, q)
  BY <1>1, RunExists, FixStepType
<1>7. w[Len(s \o t)] = q[Len(t)]
  BY <1>2, <1>4, <1>6, RunConcat DEF FixRuns
<1>8. Prefixed(o)[FixStart(m)] = Fix(p, s)
  <2>1. FixStart(m) \in FixState /\ FixStart(m).before = m /\ FixStart(m).out = <<>>
    BY <1>1, FixStartType DEF FixStart
  <2>2. Prefixed(o)[FixStart(m)].out = o
    BY <1>1, <2>1, PrefixedType, CatEmpty
  <2> QED
    BY <1>1, <2>1, <2>2, PrefixedType, FixStateEqual
<1>9. q[Len(t)] = Prefixed(o)[u[Len(t)]]
  BY <1>1, <1>5, <1>6, <1>8, RunMaps, PrefixedCommutes DEF FixRuns
<1>10. Fix(m, t) \in FixState
  BY <1>1, FixType
<1>11. Fix(p, Cat(s, t)) = Prefixed(o)[Fix(m, t)]
  BY <1>4, <1>5, <1>7, <1>9 DEF Cat
<1> QED
  BY <1>1, <1>10, <1>11, PrefixedType

LEMMA FixOne ==
    ASSUME NEW p \in Before, NEW ch \in Bytes
    PROVE  /\ Fix(p, <<ch>>).before = ch
           /\ Fix(p, <<ch>>).out = FixedByte(p, ch)
<1>1. <<ch>> \in Seq(Bytes) /\ Len(<<ch>>) = 1 /\ <<ch>>[1] = ch
  OBVIOUS
<1>2. PICK r : FixRuns(p, <<ch>>, r) /\ Fix(p, <<ch>>) = r[Len(<<ch>>)]
  BY <1>1, FixRun
<1>3. r[1] = FixStep[r[0]][ch] /\ r[0] = FixStart(p)
  BY <1>1, <1>2 DEF FixRuns, IsRun
<1>4. Fix(p, <<ch>>) = FixByte(FixStart(p), ch)
  BY <1>1, <1>2, <1>3, FixStartType DEF FixStep
<1>5. <<>> \o FixedByte(p, ch) = FixedByte(p, ch)
  BY FixedByteType, ConcatEmptySeq
<1> QED
  BY <1>4, <1>5 DEF FixByte, FixStart

\* The last byte is fixed to itself, possibly behind a CR.
LEMMA FixLast ==
    ASSUME NEW p \in Before, NEW b \in Seq(Bytes), b # <<>>
    PROVE  /\ Fix(p, b).before = Last(b)
           /\ Fix(p, b).out # <<>> /\ Last(Fix(p, b).out) = Last(b)
<1>1. PICK t \in Seq(Bytes), x \in Bytes : b = Cat(t, <<x>>) /\ x = Last(b)
  BY SplitLast
<1> DEFINE m == Fix(p, t).before
<1>2. m \in Before /\ Fix(p, t).out \in Seq(Bytes)
  BY FixType
<1>3. <<x>> \in Seq(Bytes)
  OBVIOUS
<1>4. /\ Fix(p, Cat(t, <<x>>)).before = Fix(m, <<x>>).before
      /\ Fix(p, Cat(t, <<x>>)).out = Cat(Fix(p, t).out, Fix(m, <<x>>).out)
  BY <1>3, FixConcat
<1>5. /\ Fix(m, <<x>>).before = x /\ Fix(m, <<x>>).out \in Seq(Bytes)
      /\ Fix(m, <<x>>).out # <<>> /\ Last(Fix(m, <<x>>).out) = x
  BY <1>2, FixOne, FixedByteType
<1>6. Fix(p, b).out # <<>> /\ Last(Fix(p, b).out) = x
  BY <1>1, <1>2, <1>4, <1>5, LastOfCat
<1> QED
  BY <1>1, <1>4, <1>5, <1>6

\* Every LF of g has a CR before it.
Stable(g) == \A k \in 1 .. Len(g) : g[k] = "LF" => k > 1 /\ g[k - 1] = "CR"

LEMMA FixStable ==
    ASSUME NEW p \in Before, NEW g \in Seq(Bytes), Stable(g)
    PROVE  Fix(p, g).out = g
<1> DEFINE S == {n \in 0 .. Len(g) : Fix(p, SubSeq(g, 1, n)).out = SubSeq(g, 1, n)}
<1>0. Len(g) \in Nat
  OBVIOUS
<1>1. 0 \in S
  <2>1. SubSeq(g, 1, 0) = <<>>
    BY SubSeqEmpty
  <2>2. Fix(p, <<>>).out = <<>>
    BY FixEmpty DEF FixStart
  <2>3. 0 \in 0 .. Len(g)
    BY <1>0
  <2> QED
    BY <2>1, <2>2, <2>3
<1>2. ASSUME NEW n \in 0 .. Len(g) - 1, n \in S PROVE n + 1 \in S
  <2> DEFINE a == SubSeq(g, 1, n)
             x == g[n + 1]
             m == Fix(p, a).before
  <2>1. n \in Nat /\ n + 1 \in 0 .. Len(g) /\ n + 1 \in 1 .. Len(g) /\ (n + 1) - 1 = n
    BY ONLY <1>0, n \in 0 .. Len(g) - 1
  <2>2. /\ a \in Seq(Bytes) /\ x \in Bytes /\ <<x>> \in Seq(Bytes)
        /\ n > 0 => a # <<>> /\ Last(a) = g[n]
        /\ SubSeq(g, 1, n + 1) = Cat(a, <<x>>)
    BY PrefixStep
  <2>3. Fix(p, a).out = a
    BY <1>2
  <2>4. x = "LF" => n > 0 /\ g[n] = "CR"
    BY <2>1 DEF Stable
  <2> HIDE DEF a, x
  <2>5. m \in Before
    BY <2>2, FixType
  <2>6. x = "LF" => m = "CR"
    BY <2>2, <2>4, FixLast
  <2>7. Fix(m, <<x>>).out = <<x>>
    BY <2>2, <2>5, <2>6, FixOne DEF FixedByte
  <2>8. Fix(p, Cat(a, <<x>>)).out = Cat(Fix(p, a).out, Fix(m, <<x>>).out)
    BY <2>2, FixConcat
  <2> QED
    BY <2>1, <2>2, <2>3, <2>7, <2>8
<1>3. Len(g) \in S
  <2> HIDE DEF S
  <2> QED
    BY ONLY <1>0, <1>1, <1>2, BoundedInduction
<1> QED
  BY <1>3, SubSeqFull

---------------------------------------------------------------------------
(* The CRLFs at the end.                                                   *)

LEMMA NoCRLFs == ASSUME NEW b, NEW n \in Nat PROVE OnlyCRLFs(b, n, n)
<1>1. 0 \in 0 .. n /\ n + 2 * 0 = n
  OBVIOUS
<1> QED
  BY <1>1 DEF OnlyCRLFs

LEMMA StrippedIsLeast ==
    ASSUME NEW b, NEW n \in Nat
    PROVE  /\ Stripped(b, n) \in 0 .. n /\ OnlyCRLFs(b, Stripped(b, n), n)
           /\ \A e \in 0 .. n : OnlyCRLFs(b, e, n) => Stripped(b, n) <= e
<1> DEFINE T == {e \in 0 .. n : OnlyCRLFs(b, e, n)}
<1>1. OnlyCRLFs(b, n, n)
  BY NoCRLFs
<1>2. T \subseteq Nat /\ T # {}
  BY <1>1
<1>3. \E x \in T : \A y \in T : x <= y
  <2> HIDE DEF T
  <2> QED
    BY <1>2, LeastNat
<1>4. Stripped(b, n) = CHOOSE x \in T : \A y \in T : x =< y
  BY DEF Stripped, Min
<1>5. Stripped(b, n) \in T /\ \A y \in T : Stripped(b, n) <= y
  <2> HIDE DEF T
  <2> QED
    BY <1>3, <1>4
<1> QED
  BY <1>5

CRLFAt(b, e) == e >= 2 /\ b[e - 1] = "CR" /\ b[e] = "LF"

LEMMA StrippedStops ==
    ASSUME NEW b, NEW n \in Nat PROVE ~CRLFAt(b, Stripped(b, n))
<1> DEFINE e == Stripped(b, n)
<1>1. e \in 0 .. n /\ OnlyCRLFs(b, e, n) /\ \A x \in 0 .. n : OnlyCRLFs(b, x, n) => e <= x
  BY StrippedIsLeast
<1> HIDE DEF e
<1>2. SUFFICES ASSUME CRLFAt(b, e) PROVE FALSE
  BY DEF e
<1>3. PICK m \in 0 .. n : e + 2 * m = n /\ \A k \in 1 .. m : b[e + 2 * k - 1] = "CR" /\ b[e + 2 * k] = "LF"
  BY <1>1 DEF OnlyCRLFs
<1>4. e >= 2 /\ e \in Nat /\ b[e - 1] = "CR" /\ b[e] = "LF"
  BY <1>1, <1>2 DEF CRLFAt
<1>5. e - 2 \in 0 .. n /\ m + 1 \in 0 .. n /\ (e - 2) + 2 * (m + 1) = n /\ ~(e <= e - 2)
  BY ONLY <1>3, <1>4, n \in Nat, m \in 0 .. n
<1>6. ASSUME NEW k \in 1 .. m + 1
      PROVE  b[(e - 2) + 2 * k - 1] = "CR" /\ b[(e - 2) + 2 * k] = "LF"
  <2>1. CASE k = 1
    <3>1. (e - 2) + 2 * k - 1 = e - 1 /\ (e - 2) + 2 * k = e
      BY ONLY <2>1, <1>4
    <3> QED
      BY <1>4, <3>1
  <2>2. CASE k # 1
    <3>1. /\ k - 1 \in 1 .. m /\ (e - 2) + 2 * k = e + 2 * (k - 1)
          /\ (e - 2) + 2 * k - 1 = e + 2 * (k - 1) - 1
      BY ONLY <2>2, <1>4, k \in 1 .. m + 1, m \in 0 .. n, n \in Nat
    <3> QED
      BY <1>3, <3>1
  <2> QED
    BY <2>1, <2>2
<1>7. OnlyCRLFs(b, e - 2, n)
  BY <1>5, <1>6 DEF OnlyCRLFs
<1> QED
  BY <1>1, <1>5, <1>7

\* CRLFs that no CRLF is before are all there are.
LEMMA StrippedUnique ==
    ASSUME NEW b, NEW n \in Nat, NEW e \in 0 .. n, OnlyCRLFs(b, e, n), ~CRLFAt(b, e)
    PROVE  Stripped(b, n) = e
<1> DEFINE a == Stripped(b, n)
<1>1. a \in 0 .. n /\ OnlyCRLFs(b, a, n) /\ a <= e
  BY StrippedIsLeast
<1> HIDE DEF a
<1>2. PICK i \in 0 .. n : e + 2 * i = n
  BY DEF OnlyCRLFs
<1>3. PICK m \in 0 .. n : a + 2 * m = n /\ \A k \in 1 .. m : b[a + 2 * k - 1] = "CR" /\ b[a + 2 * k] = "LF"
  BY <1>1 DEF OnlyCRLFs
<1>4. CASE a # e
  <2>1. /\ m - i \in 1 .. m /\ a + 2 * (m - i) = e /\ a + 2 * (m - i) - 1 = e - 1 /\ e >= 2
    <3>1. a + 2 * m = n
      BY <1>3
    <3> QED
      BY ONLY <1>1, <1>2, <1>4, <3>1, i \in 0 .. n, m \in 0 .. n, n \in Nat, e \in 0 .. n
  <2>2. b[e - 1] = "CR" /\ b[e] = "LF"
    BY <1>3, <2>1
  <2> QED
    BY <2>1, <2>2 DEF CRLFAt
<1> QED
  BY <1>4 DEF a

LEMMA CatAt ==
    ASSUME NEW S, NEW s \in Seq(S), NEW t \in Seq(S)
    PROVE  /\ Len(s) \in Nat /\ Len(t) \in Nat
           /\ \A i \in 1 .. Len(s) : Cat(s, t)[i] = s[i]
           /\ \A i \in 1 .. Len(t) : Cat(s, t)[Len(s) + i] = t[i]
<1>1. Len(s) \in Nat /\ Len(t) \in Nat
  OBVIOUS
<1>2. ASSUME NEW i \in 1 .. Len(s) PROVE (s \o t)[i] = s[i]
  BY <1>1, ConcatProperties
<1>3. ASSUME NEW i \in 1 .. Len(t) PROVE (s \o t)[Len(s) + i] = t[i]
  OBVIOUS
<1> QED
  BY <1>1, <1>2, <1>3 DEF Cat

\* Stripping what has been added to o, when no CRLF ends in or at the end of o.
LEMMA StrippedCat ==
    ASSUME NEW o \in Seq(Bytes), NEW x \in Seq(Bytes), NEW n \in 0 .. Len(x),
           ~CRLFAt(o, Len(o)), Len(o) > 0 /\ o[Len(o)] = "CR" => Len(x) = 0 \/ x[1] # "LF"
    PROVE  Stripped(Cat(o, x), Len(o) + n) = Len(o) + Stripped(x, n)
<1> DEFINE b == Cat(o, x)
           l == Len(o)
           e == Stripped(x, n)
<1>1. /\ l \in Nat /\ Len(x) \in Nat
      /\ \A i \in 1 .. l : b[i] = o[i]
      /\ \A i \in 1 .. Len(x) : b[l + i] = x[i]
  BY CatAt
<1>2. n \in Nat /\ l + n \in Nat
  BY <1>1
<1>3. e \in 0 .. n /\ OnlyCRLFs(x, e, n) /\ ~CRLFAt(x, e)
  BY <1>2, StrippedIsLeast, StrippedStops
<1> HIDE DEF b, l, e
<1>4. OnlyCRLFs(b, l + e, l + n)
  <2>1. PICK m \in 0 .. n : e + 2 * m = n /\ \A k \in 1 .. m : x[e + 2 * k - 1] = "CR" /\ x[e + 2 * k] = "LF"
    BY <1>3 DEF OnlyCRLFs
  <2>2. m \in 0 .. l + n /\ (l + e) + 2 * m = l + n
    <3>1. e + 2 * m = n
      BY <2>1
    <3> QED
      BY ONLY <1>1, <1>2, <1>3, <3>1, m \in 0 .. n
  <2>3. ASSUME NEW k \in 1 .. m
        PROVE  b[(l + e) + 2 * k - 1] = "CR" /\ b[(l + e) + 2 * k] = "LF"
    <3>1. /\ e + 2 * k \in 1 .. Len(x) /\ e + 2 * k - 1 \in 1 .. Len(x)
          /\ (l + e) + 2 * k - 1 = l + (e + 2 * k - 1) /\ (l + e) + 2 * k = l + (e + 2 * k)
      <4>1. e + 2 * m = n /\ l \in Nat /\ Len(x) \in Nat /\ e \in 0 .. n /\ n \in Nat
        BY <1>1, <1>2, <1>3, <2>1
      <4> QED
        BY ONLY <4>1, k \in 1 .. m, m \in 0 .. n, n \in 0 .. Len(x)
    <3> QED
      BY <1>1, <2>1, <3>1
  <2> QED
    BY <2>2, <2>3 DEF OnlyCRLFs
<1>5. ~CRLFAt(b, l + e)
  <2> SUFFICES ASSUME l + e >= 2, b[(l + e) - 1] = "CR", b[l + e] = "LF" PROVE FALSE
    BY DEF CRLFAt
  <2>1. CASE e = 0
    <3>1. l + e = l /\ (l + e) - 1 = l - 1 /\ l \in 1 .. l /\ l - 1 \in 1 .. l
      BY <1>1, <2>1
    <3>2. o[l - 1] = "CR" /\ o[l] = "LF" /\ l >= 2
      BY <1>1, <3>1
    <3> QED
      BY <3>2 DEF CRLFAt, l
  <2>2. CASE e = 1
    <3>1. /\ (l + e) - 1 = l /\ l + e = l + 1 /\ l \in 1 .. l /\ 1 \in 1 .. Len(x)
      BY <1>1, <1>3, <2>2
    <3>2. o[l] = "CR" /\ x[1] = "LF" /\ l > 0 /\ Len(x) # 0
      BY <1>1, <3>1
    <3> QED
      BY <3>2 DEF l
  <2>3. CASE e >= 2
    <3>1. (l + e) - 1 = l + (e - 1) /\ e \in 1 .. Len(x) /\ e - 1 \in 1 .. Len(x)
      BY ONLY <1>1, <1>3, <2>3, n \in 0 .. Len(x)
    <3>2. x[e - 1] = "CR" /\ x[e] = "LF"
      BY <1>1, <3>1
    <3> QED
      BY <1>3, <2>3, <3>2 DEF CRLFAt
  <2> QED
    BY <1>3, <2>1, <2>2, <2>3
<1>6. l + e \in 0 .. l + n
  BY <1>1, <1>2, <1>3
<1>7. Stripped(b, l + n) = l + e
  BY <1>2, <1>4, <1>5, <1>6, StrippedUnique
<1> QED
  BY <1>7 DEF b, l, e

\* A CRLF behind does not matter.
LEMMA StrippedCRLF ==
    ASSUME NEW f \in Seq(Bytes)
    PROVE  Stripped(Cat(f, CRLF), Len(f) + 2) = Stripped(f, Len(f))
<1> DEFINE b == Cat(f, CRLF)
           n == Len(f)
           e == Stripped(f, n)
<1>0. CRLF \in Seq(Bytes) /\ Len(CRLF) = 2 /\ CRLF[1] = "CR" /\ CRLF[2] = "LF"
  BY DEF CRLF, Bytes
<1>1. /\ n \in Nat /\ \A i \in 1 .. n : b[i] = f[i]
      /\ b[n + 1] = "CR" /\ b[n + 2] = "LF"
  BY <1>0, CatAt
<1>2. e \in 0 .. n /\ OnlyCRLFs(f, e, n) /\ ~CRLFAt(f, e)
  BY <1>1, StrippedIsLeast, StrippedStops
<1> HIDE DEF b, n, e
<1>3. PICK m \in 0 .. n : e + 2 * m = n /\ \A k \in 1 .. m : f[e + 2 * k - 1] = "CR" /\ f[e + 2 * k] = "LF"
  BY <1>2 DEF OnlyCRLFs
<1>4. m + 1 \in 0 .. n + 2 /\ e + 2 * (m + 1) = n + 2 /\ n + 2 \in Nat /\ e \in 0 .. n + 2
  <2>1. e + 2 * m = n
    BY <1>3
  <2> QED
    BY ONLY <1>1, <1>2, <2>1, m \in 0 .. n
<1>5. ASSUME NEW k \in 1 .. m + 1 PROVE b[e + 2 * k - 1] = "CR" /\ b[e + 2 * k] = "LF"
  <2>0. e + 2 * m = n /\ n \in Nat /\ e \in 0 .. n
    BY <1>1, <1>2, <1>3
  <2>1. CASE k = m + 1
    <3>1. e + 2 * k - 1 = n + 1 /\ e + 2 * k = n + 2
      BY ONLY <2>0, <2>1, m \in 0 .. n
    <3> QED
      BY <1>1, <3>1
  <2>2. CASE k # m + 1
    <3>1. k \in 1 .. m /\ e + 2 * k - 1 \in 1 .. n /\ e + 2 * k \in 1 .. n
      BY ONLY <2>0, <2>2, m \in 0 .. n, k \in 1 .. m + 1
    <3> QED
      BY <1>1, <1>3, <3>1
  <2> QED
    BY <2>1, <2>2
<1>6. OnlyCRLFs(b, e, n + 2)
  BY <1>4, <1>5 DEF OnlyCRLFs
<1>7. ~CRLFAt(b, e)
  <2>1. e >= 2 => e \in 1 .. n /\ e - 1 \in 1 .. n
    BY ONLY <1>1, <1>2
  <2> QED
    BY <1>1, <1>2, <2>1 DEF CRLFAt
<1>8. Stripped(b, n + 2) = e
  BY <1>4, <1>6, <1>7, StrippedUnique
<1> QED
  BY <1>8 DEF b, n, e

---------------------------------------------------------------------------
(* simple, write by write.                                                 *)

\* The bytes of f but for a CR at its end.
Kept(f) == IF f # <<>> /\ Last(f) = "CR" THEN Len(f) - 1 ELSE Len(f)

WriterState == [out : Seq(Bytes), crlfBuf : Seq(Bytes), wsp : Seq(Bytes), before : Before]

\* The writer after the bytes b: of the fixed bytes it holds back the CRLFs at
\* the end and a CR.
SimpleAt(c, b) ==
    /\ c \in WriterState
    /\ Fixed(b) = Cat(c.out, c.crlfBuf)
    /\ Len(c.out) = Stripped(Fixed(b), Kept(Fixed(b)))
    /\ c.before = Fix("none", b).before

LEMMA NoneBefore == "none" \in Before
BY DEF Before

LEMMA FixedType == ASSUME NEW b \in Seq(Bytes) PROVE Fixed(b) \in Seq(Bytes)
BY FixType, NoneBefore DEF Fixed

LEMMA KeptType ==
    ASSUME NEW f \in Seq(Bytes)
    PROVE  Kept(f) \in 0 .. Len(f) /\ Kept(f) \in Nat /\ Len(f) \in Nat
<1>1. Len(f) \in Nat /\ (f # <<>> => Len(f) > 0)
  OBVIOUS
<1> QED
  BY <1>1 DEF Kept

\* A row of pairs, position by position.
LEMMA Halves ==
    ASSUME NEW m \in Nat, NEW k \in 1 .. 2 * m
    PROVE  \E j \in 1 .. m : k = 2 * j \/ k = 2 * j - 1
<1> DEFINE j == (k + 1) \div 2
<1>1. j \in Int /\ 2 * j <= k + 1 /\ k <= 2 * j
  OBVIOUS
<1> HIDE DEF j
<1>2. j \in 1 .. m /\ (k = 2 * j \/ k = 2 * j - 1)
  BY <1>1
<1> QED
  BY <1>2

\* What is held back begins with a CR and needs no fixing.
LEMMA HeldBack ==
    ASSUME NEW o \in Seq(Bytes), NEW x \in Seq(Bytes),
           Len(o) = Stripped(Cat(o, x), Kept(Cat(o, x)))
    PROVE  /\ Stable(x) /\ (x # <<>> => x[1] = "CR")
           /\ ~CRLFAt(o, Len(o))
           /\ x = <<>> => ~(Len(o) > 0 /\ o[Len(o)] = "CR")
<1> DEFINE f == Cat(o, x)
           l == Len(o)
           n == Kept(f)
<1>1. /\ l \in Nat /\ Len(x) \in Nat /\ f \in Seq(Bytes) /\ Len(f) = l + Len(x)
      /\ \A i \in 1 .. l : f[i] = o[i]
      /\ \A i \in 1 .. Len(x) : f[l + i] = x[i]
  <2>1. f \in Seq(Bytes) /\ Len(f) = l + Len(x)
    BY CatType
  <2>2. /\ l \in Nat /\ Len(x) \in Nat
        /\ \A i \in 1 .. l : f[i] = o[i]
        /\ \A i \in 1 .. Len(x) : f[l + i] = x[i]
    BY ONLY o \in Seq(Bytes), x \in Seq(Bytes), CatAt
  <2> QED
    BY ONLY <2>1, <2>2
<1>2. n \in 0 .. Len(f) /\ n \in Nat
  BY <1>1, KeptType
<1>3. l \in 0 .. n /\ OnlyCRLFs(f, l, n) /\ ~CRLFAt(f, l)
  BY <1>2, StrippedIsLeast, StrippedStops
<1>4. \/ n = Len(f) /\ (f # <<>> => f[Len(f)] # "CR")
      \/ n = Len(f) - 1 /\ f # <<>> /\ f[Len(f)] = "CR"
  BY DEF Kept, Last
<1> HIDE DEF f, l, n
<1>5. PICK m \in 0 .. n : l + 2 * m = n /\ \A k \in 1 .. m : f[l + 2 * k - 1] = "CR" /\ f[l + 2 * k] = "LF"
  BY <1>3 DEF OnlyCRLFs
<1>6. m \in Nat /\ l + 2 * m = n
  BY <1>2, <1>5
<1>7. ASSUME NEW k \in 1 .. Len(x), x[k] = "LF" PROVE k > 1 /\ x[k - 1] = "CR"
  <2>1. f[l + k] = "LF" /\ l + k \in 1 .. Len(f) /\ "LF" # "CR"
    BY <1>1, <1>7
  <2>2. l + k # Len(f) \/ n = Len(f)
    BY <1>4, <2>1
  <2>3. k \in 1 .. 2 * m
    BY ONLY <1>1, <1>2, <1>4, <1>6, <2>2, k \in 1 .. Len(x)
  <2>4. PICK j \in 1 .. m : k = 2 * j \/ k = 2 * j - 1
    BY <1>6, <2>3, Halves
  <2>5. l + 2 * j - 1 = l + (2 * j - 1) /\ l + 2 * j = l + (2 * j)
    BY <1>1, <1>6
  <2>6. k # 2 * j - 1
    BY <1>5, <2>1, <2>5
  <2>7. k = 2 * j /\ k > 1 /\ k - 1 \in 1 .. Len(x) /\ l + 2 * j - 1 = l + (k - 1)
    BY ONLY <1>1, <1>6, <2>4, <2>6, k \in 1 .. Len(x), j \in 1 .. m
  <2> QED
    BY <1>1, <1>5, <2>7
<1>8. ASSUME x # <<>> PROVE x[1] = "CR"
  <2>1. Len(x) >= 1 /\ 1 \in 1 .. Len(x) /\ f[l + 1] = x[1]
    BY <1>1, <1>8
  <2>2. CASE m = 0
    <3>1. n = Len(f) - 1 /\ Len(f) = l + 1
      BY ONLY <1>1, <1>4, <1>6, <2>1, <2>2
    <3>2. n # Len(f)
      BY ONLY <1>1, <3>1
    <3> QED
      BY <1>4, <2>1, <3>1, <3>2
  <2>3. CASE m # 0
    <3>1. 1 \in 1 .. m /\ l + 2 * 1 - 1 = l + 1
      BY <1>1, <1>6, <2>3
    <3> QED
      BY <1>5, <2>1, <3>1
  <2> QED
    BY <2>2, <2>3
<1>9. ~CRLFAt(o, l)
  <2>1. l >= 2 => l \in 1 .. l /\ l - 1 \in 1 .. l
    BY <1>1
  <2> QED
    BY <1>1, <1>3, <2>1 DEF CRLFAt
<1>10. ASSUME x = <<>>, l > 0, o[l] = "CR" PROVE FALSE
  <2>1. Len(f) = l /\ l \in 1 .. l
    BY <1>1, <1>10
  <2>2. f # <<>> /\ f[Len(f)] = "CR"
    BY <1>1, <1>10, <2>1
  <2>3. n = Len(f) - 1
    BY <1>4, <2>2
  <2> QED
    BY ONLY <1>1, <1>3, <2>1, <2>3
<1> QED
  BY <1>7, <1>8, <1>9, <1>10 DEF Stable, l

LEMMA KeptOfCat ==
    ASSUME NEW o \in Seq(Bytes), NEW x \in Seq(Bytes), x # <<>>
    PROVE  Kept(Cat(o, x)) = Len(o) + Kept(x)
<1>0. Len(o) \in Nat /\ Len(x) \in Nat
  OBVIOUS
<1>1. Len(Cat(o, x)) = Len(o) + Len(x)
  BY CatType
<1>2. Cat(o, x) # <<>> /\ Last(Cat(o, x)) = Last(x)
  BY LastOfCat
<1> QED
  BY ONLY <1>0, <1>1, <1>2, x # <<>> DEF Kept

\* The two pieces of what a writer fixes.
LEMMA SplitAt ==
    ASSUME NEW S, NEW s \in Seq(S), NEW n \in 0 .. Len(s)
    PROVE  /\ SubSeq(s, 1, n) \in Seq(S) /\ Len(SubSeq(s, 1, n)) = n
           /\ SubSeq(s, n + 1, Len(s)) \in Seq(S)
           /\ Cat(SubSeq(s, 1, n), SubSeq(s, n + 1, Len(s))) = s
<1>0. Len(s) \in Nat
  OBVIOUS
<1>1. 1 \in 1 .. Len(s) + 1 /\ n \in 1 - 1 .. Len(s) /\ Len(s) \in n .. Len(s) /\ n \in Nat
  BY <1>0
<1>2. SubSeq(s, 1, n) \o SubSeq(s, n + 1, Len(s)) = SubSeq(s, 1, Len(s))
  BY <1>1, ConcatAdjacentSubSeq
<1>3. SubSeq(s, 1, Len(s)) = s
  BY SubSeqFull
<1>4. SubSeq(s, 1, n) \in Seq(S) /\ Len(SubSeq(s, 1, n)) = n
  BY <1>0, <1>1
<1>5. SubSeq(s, n + 1, Len(s)) \in Seq(S)
  <2>1. n + 1 \in Int /\ Len(s) \in Int /\ \A i \in n + 1 .. Len(s) : s[i] \in S
    BY <1>0, <1>1
  <2> QED
    BY ONLY <2>1, SubSeqProperties
<1> QED
  BY <1>2, <1>3, <1>4, <1>5 DEF Cat

LEMMA SimpleStart == SimpleAt(NewCanonicalizer, <<>>)
<1>1. <<>> \in Seq(Bytes) /\ Len(<<>>) = 0
  OBVIOUS
<1>2. Fix("none", <<>>) = FixStart("none")
  BY FixEmpty, NoneBefore
<1>3. Fixed(<<>>) = <<>> /\ Fix("none", <<>>).before = "none"
  BY <1>2 DEF Fixed, FixStart
<1>4. Stripped(<<>>, 0) = 0
  <2>1. Stripped(<<>>, 0) \in 0 .. 0
    BY StrippedIsLeast
  <2> QED
    BY ONLY <2>1
<1>5. Kept(<<>>) = 0
  BY DEF Kept
<1>6. Cat(<<>>, <<>>) = <<>>
  BY <1>1, CatEmpty
<1>7. NewCanonicalizer \in WriterState
  BY <1>1, NoneBefore DEF NewCanonicalizer, WriterState
<1>8. /\ NewCanonicalizer.out = <<>> /\ NewCanonicalizer.crlfBuf = <<>>
      /\ NewCanonicalizer.before = "none"
  BY DEF NewCanonicalizer
<1> QED
  BY <1>1, <1>3, <1>4, <1>5, <1>6, <1>7, <1>8 DEF SimpleAt

LEMMA SimpleWriteAt ==
    ASSUME NEW c, NEW b \in Seq(Bytes), NEW q \in Seq(Bytes), q # <<>>, SimpleAt(c, b)
    PROVE  SimpleAt(SimpleWrite(c, q), Cat(b, q))
<1> DEFINE p == c.before
           o == c.out
           held == c.crlfBuf
           new == Fix(p, q).out
           x == Cat(held, new)
           f == Fix(p, held \o q)
           n == Kept(x)
           e == Stripped(x, n)
           d == SimpleWrite(c, q)
<1>1. /\ c \in WriterState /\ p \in Before /\ o \in Seq(Bytes) /\ held \in Seq(Bytes)
      /\ Fixed(b) = Cat(o, held) /\ Len(o) = Stripped(Cat(o, held), Kept(Cat(o, held)))
      /\ p = Fix("none", b).before
  BY DEF SimpleAt, WriterState
<1>2. new \in Seq(Bytes) /\ new # <<>>
  BY <1>1, FixType, FixLast
<1>3. /\ Stable(held) /\ (held # <<>> => held[1] = "CR") /\ ~CRLFAt(o, Len(o))
      /\ held = <<>> => ~(Len(o) > 0 /\ o[Len(o)] = "CR")
  BY ONLY <1>1, HeldBack
<1>4. Fix(p, held).out = held
  BY <1>1, <1>3, FixStable
<1>5. Fix(p, held).before = p
  <2>1. CASE held = <<>>
    BY <1>1, <2>1, FixEmpty DEF FixStart
  <2>2. CASE held # <<>>
    <3>1. Fix(p, held).before = Last(held)
      BY <1>1, <2>2, FixLast
    <3>2. Fixed(b) # <<>> /\ Last(Fixed(b)) = Last(held)
      BY <1>1, <2>2, LastOfCat
    <3>3. b # <<>>
      BY <3>2, FixEmpty, NoneBefore DEF Fixed, FixStart
    <3>4. p = Last(b) /\ Last(Fixed(b)) = Last(b)
      BY <1>1, <3>3, FixLast, NoneBefore DEF Fixed
    <3> QED
      BY <3>1, <3>2, <3>4
  <2> QED
    BY <2>1, <2>2
<1>6. f.out = x /\ f.before = Fix(p, q).before
  <2>1. f = Fix(p, Cat(held, q))
    BY DEF Cat
  <2> HIDE DEF f
  <2> QED
    BY <1>1, <1>4, <1>5, <2>1, FixConcat
<1>7. /\ Fixed(Cat(b, q)) = Cat(o, x)
      /\ Fix("none", Cat(b, q)).before = Fix(p, q).before
  <2>1. /\ Fixed(Cat(b, q)) = Cat(Fixed(b), new)
        /\ Fix("none", Cat(b, q)).before = Fix(p, q).before
    BY <1>1, NoneBefore, FixConcat DEF Fixed
  <2>2. Cat(Cat(o, held), new) = Cat(o, x)
    BY <1>1, <1>2, CatAssociative
  <2> QED
    BY <1>1, <2>1, <2>2
<1>8. /\ x \in Seq(Bytes) /\ x # <<>> /\ n \in 0 .. Len(x) /\ n \in Nat /\ Len(x) \in Nat
      /\ e \in 0 .. n /\ e \in 0 .. Len(x)
  <2>1. x \in Seq(Bytes) /\ x # <<>>
    BY <1>1, <1>2, CatType, LastOfCat
  <2>2. n \in 0 .. Len(x) /\ n \in Nat /\ Len(x) \in Nat
    BY <2>1, KeptType
  <2>3. e \in 0 .. n
    BY <2>2, StrippedIsLeast
  <2> HIDE DEF x, n, e
  <2>4. e \in 0 .. Len(x)
    BY ONLY <2>2, <2>3
  <2> QED
    BY <2>1, <2>2, <2>3, <2>4
<1>9. d = [c EXCEPT !.out = o \o SubSeq(x, 1, e), !.before = f.before,
                    !.crlfBuf = SubSeq(x, e + 1, Len(x))]
  <2>1. SimpleWrite(c, q) = [c EXCEPT !.out = o \o SubSeq(f.out, 1, Stripped(f.out, Kept(f.out))),
                                      !.before = f.before,
                                      !.crlfBuf = SubSeq(f.out, Stripped(f.out, Kept(f.out)) + 1, Len(f.out))]
    BY DEF SimpleWrite, Kept
  <2> HIDE DEF f, x
  <2> QED
    BY <1>6, <2>1
<1>10. Len(o) > 0 /\ o[Len(o)] = "CR" => Len(x) = 0 \/ x[1] # "LF"
  <2> SUFFICES ASSUME Len(o) > 0 /\ o[Len(o)] = "CR" PROVE x[1] # "LF"
    OBVIOUS
  <2>1. held # <<>> /\ held[1] = "CR"
    BY <1>3
  <2>2. 1 \in 1 .. Len(held)
    BY <1>1, <2>1
  <2>3. x[1] = held[1]
    BY <1>1, <1>2, <2>2, CatAt
  <2> QED
    BY <2>1, <2>3
<1>11. Stripped(Cat(o, x), Len(o) + n) = Len(o) + e
  <2> HIDE DEF n, x, o
  <2> QED
    BY <1>1, <1>3, <1>8, <1>10, StrippedCat
<1>12. Kept(Cat(o, x)) = Len(o) + n
  BY <1>1, <1>8, KeptOfCat
<1> DEFINE front == SubSeq(x, 1, e)
           rest == SubSeq(x, e + 1, Len(x))
<1>13. front \in Seq(Bytes) /\ Len(front) = e /\ rest \in Seq(Bytes) /\ Cat(front, rest) = x
  <2> HIDE DEF x, e
  <2> QED
    BY <1>8, SplitAt
<1>14. f.before \in Before
  BY <1>1, <1>6, FixType
<1> HIDE DEF f, x, e, n, front, rest, d
<1>15. /\ d \in WriterState /\ d.out = Cat(o, front) /\ d.crlfBuf = rest /\ d.before = f.before
  <2>1. d = [c EXCEPT !.out = o \o front, !.before = f.before, !.crlfBuf = rest]
    BY <1>9 DEF front, rest
  <2>2. o \o front \in Seq(Bytes)
    BY <1>1, <1>13
  <2> QED
    BY <1>1, <1>13, <1>14, <2>1, <2>2 DEF WriterState, Cat
<1>16. Cat(d.out, d.crlfBuf) = Fixed(Cat(b, q))
  BY <1>1, <1>7, <1>13, <1>15, CatAssociative
<1>17. Len(d.out) = Len(o) + e
  BY <1>1, <1>13, <1>15, CatType
<1>18. SimpleAt(d, Cat(b, q))
  BY <1>6, <1>7, <1>11, <1>12, <1>15, <1>16, <1>17 DEF SimpleAt
<1> QED
  BY <1>18 DEF d

LEMMA SimpleCloseAt ==
    ASSUME NEW c, NEW b \in Seq(Bytes), SimpleAt(c, b)
    PROVE  SimpleClose(c) = SimpleBody(b)
<1> DEFINE f == Fixed(b)
           o == c.out
           held == c.crlfBuf
<1>1. /\ f \in Seq(Bytes) /\ o \in Seq(Bytes) /\ held \in Seq(Bytes)
      /\ f = Cat(o, held) /\ Len(o) = Stripped(f, Kept(f))
      /\ Len(f) = Len(o) + Len(held) /\ Len(o) \in Nat /\ Len(held) \in Nat
  <2>1. f \in Seq(Bytes) /\ o \in Seq(Bytes) /\ held \in Seq(Bytes)
    BY FixedType DEF SimpleAt, WriterState
  <2>2. f = Cat(o, held) /\ Len(o) = Stripped(f, Kept(f))
    BY DEF SimpleAt
  <2> HIDE DEF f, o, held
  <2>3. Len(Cat(o, held)) = Len(o) + Len(held)
    BY <2>1, CatType
  <2>4. Len(o) \in Nat /\ Len(held) \in Nat
    BY <2>1
  <2> QED
    BY ONLY <2>1, <2>2, <2>3, <2>4
<1> DEFINE tail == IF held # <<>> /\ Last(held) = "CR" THEN held ELSE <<>>
<1>2. SimpleClose(c) = o \o tail \o CRLF
  BY DEF SimpleClose
<1>3. SimpleBody(b) = SubSeq(f, 1, Stripped(f, Len(f))) \o CRLF
  BY DEF SimpleBody
<1> HIDE DEF f, o, held
<1>4. held # <<>> => f # <<>> /\ Last(f) = Last(held)
  BY <1>1, LastOfCat
<1>5. CASE f # <<>> /\ Last(f) = "CR"
  <2>1. Len(f) \in Nat /\ Kept(f) = Len(f) - 1 /\ Kept(f) \in Nat
    BY <1>1, <1>5, KeptType DEF Kept
  <2>2. Len(o) \in 0 .. Len(f) - 1
    BY <1>1, <2>1, StrippedIsLeast
  <2>3. held # <<>>
    <3>1. Len(held) # 0
      BY ONLY <1>1, <2>1, <2>2
    <3> QED
      BY <3>1
  <2>4. tail = held
    BY <1>4, <1>5, <2>3
  <2>5. ~CRLFAt(f, Len(f))
    BY <1>5 DEF CRLFAt, Last
  <2>6. OnlyCRLFs(f, Len(f), Len(f))
    BY <2>1, NoCRLFs
  <2>7. Stripped(f, Len(f)) = Len(f)
    BY <2>1, <2>5, <2>6, StrippedUnique
  <2>8. SubSeq(f, 1, Len(f)) = f
    BY <1>1, SubSeqFull
  <2> HIDE DEF tail
  <2> QED
    BY <1>1, <1>2, <1>3, <2>4, <2>7, <2>8 DEF Cat
<1>6. CASE ~(f # <<>> /\ Last(f) = "CR")
  <2>1. Kept(f) = Len(f)
    BY <1>6 DEF Kept
  <2>2. tail = <<>>
    BY <1>4, <1>6
  <2>3. SubSeq(f, 1, Len(o)) = o
    <3>1. \A i \in 1 .. Len(o) : f[i] = o[i]
      BY <1>1, CatAt
    <3>2. Len(o) \in 0 .. Len(f)
      BY ONLY <1>1
    <3>3. SubSeq(f, 1, Len(o)) \in Seq(Bytes) /\ Len(SubSeq(f, 1, Len(o))) = Len(o)
      BY <1>1, <3>2, SplitAt
    <3>4. ASSUME NEW i \in 1 .. Len(o) PROVE SubSeq(f, 1, Len(o))[i] = o[i]
      BY <1>1, <3>1, <3>2
    <3> QED
      BY ONLY <1>1, <3>3, <3>4, SeqEqual
  <2>4. o \o <<>> = o
    BY <1>1, ConcatEmptySeq
  <2> HIDE DEF tail
  <2> QED
    BY <1>1, <1>2, <1>3, <2>1, <2>2, <2>3, <2>4
<1> QED
  BY <1>5, <1>6

\* An empty line at the end does not matter to simple.
LEMMA SimpleEmptyLine ==
    ASSUME NEW b \in Seq(Bytes) PROVE SimpleBody(Cat(b, CRLF)) = SimpleBody(b)
<1> DEFINE f == Fixed(b)
           p == Fix("none", b).before
           e == Stripped(f, Len(f))
<1>1. /\ CRLF \in Seq(Bytes) /\ Len(CRLF) = 2 /\ Stable(CRLF)
      /\ f \in Seq(Bytes) /\ p \in Before /\ Len(f) \in Nat
  <2>1. CRLF \in Seq(Bytes) /\ Len(CRLF) = 2 /\ CRLF[1] = "CR" /\ CRLF[2] = "LF"
    BY DEF CRLF, Bytes
  <2>2. f \in Seq(Bytes) /\ p \in Before
    BY FixedType, FixType, NoneBefore
  <2> QED
    BY <2>1, <2>2 DEF Stable
<1>2. Fixed(Cat(b, CRLF)) = Cat(f, CRLF)
  BY <1>1, FixConcat, FixStable, NoneBefore DEF Fixed
<1>3. Len(Cat(f, CRLF)) = Len(f) + 2
  BY <1>1, CatType
<1>4. Stripped(Cat(f, CRLF), Len(f) + 2) = e /\ e \in 0 .. Len(f)
  BY <1>1, StrippedCRLF, StrippedIsLeast
<1>5. SubSeq(Cat(f, CRLF), 1, e) = SubSeq(f, 1, e)
  <2> HIDE DEF f, e
  <2>0. Cat(f, CRLF) \in Seq(Bytes) /\ e \in 0 .. Len(Cat(f, CRLF)) /\ e \in Nat
    BY <1>1, <1>3, <1>4, CatType
  <2>1. SubSeq(f, 1, e) \in Seq(Bytes) /\ Len(SubSeq(f, 1, e)) = e
    BY <1>1, <1>4, SplitAt
  <2>2. SubSeq(Cat(f, CRLF), 1, e) \in Seq(Bytes) /\ Len(SubSeq(Cat(f, CRLF), 1, e)) = e
    BY <2>0, SplitAt
  <2>3. ASSUME NEW i \in 1 .. e PROVE SubSeq(Cat(f, CRLF), 1, e)[i] = SubSeq(f, 1, e)[i]
    <3>1. i \in 1 .. Len(f)
      BY <1>1, <1>4
    <3>2. Cat(f, CRLF)[i] = f[i]
      BY <1>1, <3>1, CatAt
    <3>3. SubSeq(f, 1, e)[i] = f[i] /\ SubSeq(Cat(f, CRLF), 1, e)[i] = Cat(f, CRLF)[i]
      BY <1>1, <1>4, <2>0
    <3> QED
      BY <3>2, <3>3
  <2> QED
    BY ONLY <2>0, <2>1, <2>2, <2>3, SeqEqual
<1> QED
  BY <1>2, <1>3, <1>4, <1>5 DEF SimpleBody

---------------------------------------------------------------------------
(* relaxed, byte by byte.                                                  *)

RelaxedStep == [c \in WriterState |-> [ch \in Bytes |-> RelaxedByte(c, ch)]]

\* What a byte does to each part of the writer.
LEMMA RelaxedByteParts ==
    ASSUME NEW c \in WriterState, NEW ch \in Bytes, NEW d, d = RelaxedByte(c, ch)
    PROVE  /\ d \in WriterState /\ d.before = c.before
           /\ ch = "SP" => d.out = c.out /\ d.crlfBuf = c.crlfBuf /\ d.wsp = <<"SP">>
           /\ ch \in {"CR", "LF"} =>
                d.out = c.out /\ d.crlfBuf = Cat(c.crlfBuf, <<ch>>) /\ d.wsp = <<>>
           /\ ch = "x" =>
                /\ d.out = Cat(Cat(c.out, Cat(c.crlfBuf, c.wsp)), <<ch>>)
                /\ d.crlfBuf = <<>> /\ d.wsp = <<>>
<1>1. /\ c.out \in Seq(Bytes) /\ c.crlfBuf \in Seq(Bytes) /\ c.wsp \in Seq(Bytes)
      /\ <<ch>> \in Seq(Bytes) /\ <<>> \in Seq(Bytes) /\ <<"SP">> \in Seq(Bytes)
  BY DEF WriterState, Bytes
<1>2. CASE ch = "SP"
  <2>1. d = [c EXCEPT !.wsp = <<"SP">>]
    BY <1>2 DEF RelaxedByte
  <2> QED
    BY <1>1, <1>2, <2>1 DEF WriterState
<1>3. CASE ch \in {"CR", "LF"}
  <2>1. d = [c EXCEPT !.wsp = <<>>, !.crlfBuf = Append(@, ch)]
    BY <1>3 DEF RelaxedByte
  <2>2. Append(c.crlfBuf, ch) = Cat(c.crlfBuf, <<ch>>) /\ Cat(c.crlfBuf, <<ch>>) \in Seq(Bytes)
    <3>1. Append(c.crlfBuf, ch) = c.crlfBuf \o <<ch>>
      BY <1>1, AppendIsConcat
    <3> QED
      BY <1>1, <3>1, CatType DEF Cat
  <2> QED
    BY <1>1, <1>3, <2>1, <2>2 DEF WriterState
<1>4. CASE ch = "x"
  <2>1. d = [c EXCEPT !.out = @ \o c.crlfBuf \o c.wsp \o <<ch>>, !.crlfBuf = <<>>, !.wsp = <<>>]
    BY <1>4 DEF RelaxedByte
  <2>2. Cat(Cat(c.out, c.crlfBuf), c.wsp) = Cat(c.out, Cat(c.crlfBuf, c.wsp))
    BY <1>1, CatAssociative
  <2>3. Cat(Cat(c.out, Cat(c.crlfBuf, c.wsp)), <<ch>>) \in Seq(Bytes)
    BY <1>1, CatType
  <2>4. c.out \o c.crlfBuf \o c.wsp \o <<ch>> = Cat(Cat(c.out, Cat(c.crlfBuf, c.wsp)), <<ch>>)
    <3>1. c.out \o c.crlfBuf \o c.wsp \o <<ch>> = Cat(Cat(Cat(c.out, c.crlfBuf), c.wsp), <<ch>>)
      BY DEF Cat
    <3> QED
      BY <2>2, <3>1
  <2> QED
    BY <1>1, <1>4, <2>1, <2>3, <2>4 DEF WriterState
<1> QED
  BY <1>2, <1>3, <1>4 DEF Bytes

LEMMA RelaxedStepType ==
    /\ RelaxedStep \in [WriterState -> [Bytes -> WriterState]]
    /\ \A c \in WriterState, ch \in Bytes : RelaxedStep[c][ch] = RelaxedByte(c, ch)
BY RelaxedByteParts DEF RelaxedStep

LEMMA WriterStateEqual ==
    ASSUME NEW c \in WriterState, NEW d \in WriterState,
           c.out = d.out, c.crlfBuf = d.crlfBuf, c.wsp = d.wsp, c.before = d.before
    PROVE  c = d
BY DEF WriterState

RelaxedRuns(c, b, r) == IsRun(WriterState, Bytes, RelaxedStep, c, b, r)

\* RelaxedBytes is where the steps lead.
LEMMA RelaxedRun ==
    ASSUME NEW c \in WriterState, NEW b \in Seq(Bytes)
    PROVE  \E r : RelaxedRuns(c, b, r) /\ RelaxedBytes(c, b) = r[Len(b)]
<1>1. PICK r : RelaxedRuns(c, b, r)
  BY RunExists, RelaxedStepType DEF RelaxedRuns
<1> DEFINE Def(f) == f = [n \in 0 .. Len(b) |-> IF n = 0 THEN c ELSE RelaxedByte(f[n - 1], b[n])]
           f == CHOOSE g : Def(g)
<1>2. Def(r)
  <2>1. ASSUME NEW n \in 1 .. Len(b) PROVE r[n] = RelaxedByte(r[n - 1], b[n])
    <3>1. r[n - 1] \in WriterState /\ b[n] \in Bytes
      <4>1. n - 1 \in 0 .. Len(b) /\ b[n] \in Bytes
        OBVIOUS
      <4>2. r \in [0 .. Len(b) -> WriterState]
        BY <1>1 DEF RelaxedRuns, IsRun
      <4> QED
        BY ONLY <4>1, <4>2
    <3>2. r[n] = RelaxedStep[r[n - 1]][b[n]]
      BY <1>1 DEF RelaxedRuns, IsRun
    <3> QED
      BY <3>1, <3>2, RelaxedStepType
  <2>2. r[0] = c /\ r \in [0 .. Len(b) -> WriterState]
    BY <1>1 DEF RelaxedRuns, IsRun
  <2>3. \A n \in 0 .. Len(b) : n # 0 => n \in 1 .. Len(b)
    OBVIOUS
  <2> QED
    BY <2>1, <2>2, <2>3
<1>3. Def(f)
  <2> HIDE DEF Def
  <2> QED
    BY <1>2
<1>4. RelaxedBytes(c, b) = f[Len(b)]
  BY DEF RelaxedBytes
<1>5. f[0] = c
  <2>1. 0 \in 0 .. Len(b)
    OBVIOUS
  <2> QED
    BY <1>3, <2>1
<1>6. ASSUME NEW k \in 1 .. Len(b), f[k - 1] \in WriterState
      PROVE  f[k] = RelaxedStep[f[k - 1]][b[k]]
  <2>1. k \in 0 .. Len(b) /\ k # 0 /\ b[k] \in Bytes
    OBVIOUS
  <2>2. f[k] = RelaxedByte(f[k - 1], b[k])
    <3> HIDE DEF f
    <3> QED
      BY <1>3, <2>1
  <2> HIDE DEF f
  <2> QED
    BY <1>6, <2>1, <2>2, RelaxedStepType
<1> HIDE DEF f, Def
<1>7. f[Len(b)] = r[Len(b)]
  <2>1. StepsIn(WriterState, RelaxedStep, c, b, f)
    BY <1>5, <1>6 DEF StepsIn
  <2> QED
    BY <1>1, <2>1, RunUnique DEF RelaxedRuns
<1> QED
  BY <1>1, <1>4, <1>7

LEMMA RelaxedType ==
    ASSUME NEW c \in WriterState, NEW b \in Seq(Bytes)
    PROVE  RelaxedBytes(c, b) \in WriterState
<1>1. PICK r : RelaxedRuns(c, b, r) /\ RelaxedBytes(c, b) = r[Len(b)]
  BY RelaxedRun
<1>2. Len(b) \in 0 .. Len(b)
  OBVIOUS
<1> QED
  BY <1>1, <1>2 DEF RelaxedRuns, IsRun

LEMMA RelaxedConcat ==
    ASSUME NEW c \in WriterState, NEW s \in Seq(Bytes), NEW t \in Seq(Bytes)
    PROVE  RelaxedBytes(c, Cat(s, t)) = RelaxedBytes(RelaxedBytes(c, s), t)
<1>1. s \o t \in Seq(Bytes) /\ RelaxedBytes(c, s) \in WriterState
  BY RelaxedType
<1>2. PICK r : RelaxedRuns(c, s, r) /\ RelaxedBytes(c, s) = r[Len(s)]
  BY RelaxedRun
<1>3. PICK q : RelaxedRuns(RelaxedBytes(c, s), t, q) /\ RelaxedBytes(RelaxedBytes(c, s), t) = q[Len(t)]
  BY <1>1, RelaxedRun
<1>4. PICK w : RelaxedRuns(c, s \o t, w) /\ RelaxedBytes(c, s \o t) = w[Len(s \o t)]
  BY <1>1, RelaxedRun
<1>5. w[Len(s \o t)] = q[Len(t)]
  BY <1>2, <1>3, <1>4, RunConcat DEF RelaxedRuns
<1> QED
  BY <1>3, <1>4, <1>5 DEF Cat

LEMMA RelaxedOne ==
    ASSUME NEW c \in WriterState, NEW ch \in Bytes
    PROVE  RelaxedBytes(c, <<ch>>) = RelaxedByte(c, ch)
<1>1. <<ch>> \in Seq(Bytes) /\ Len(<<ch>>) = 1 /\ <<ch>>[1] = ch
  OBVIOUS
<1>2. PICK r : RelaxedRuns(c, <<ch>>, r) /\ RelaxedBytes(c, <<ch>>) = r[Len(<<ch>>)]
  BY <1>1, RelaxedRun
<1>3. r[1] = RelaxedStep[r[0]][ch] /\ r[0] = c
  BY <1>1, <1>2 DEF RelaxedRuns, IsRun
<1> QED
  BY <1>1, <1>2, <1>3, RelaxedStepType

\* The byte before is the fixer's: to write does not change it.
Marked(p) == [c \in WriterState |-> [c EXCEPT !.before = p]]

LEMMA MarkedType ==
    ASSUME NEW p \in Before, NEW c \in WriterState
    PROVE  /\ Marked(p)[c] \in WriterState /\ Marked(p)[c].before = p
           /\ Marked(p)[c].out = c.out /\ Marked(p)[c].crlfBuf = c.crlfBuf
           /\ Marked(p)[c].wsp = c.wsp
BY DEF Marked, WriterState

LEMMA MarkedCommutes ==
    ASSUME NEW p \in Before PROVE Commutes(WriterState, Bytes, RelaxedStep, Marked(p))
<1>1. ASSUME NEW c \in WriterState, NEW ch \in Bytes
      PROVE  Marked(p)[RelaxedStep[c][ch]] = RelaxedStep[Marked(p)[c]][ch]
  <2> DEFINE m == Marked(p)[c]
             d == RelaxedByte(c, ch)
             e == RelaxedByte(m, ch)
  <2>1. /\ m \in WriterState /\ m.before = p
        /\ m.out = c.out /\ m.crlfBuf = c.crlfBuf /\ m.wsp = c.wsp
    BY MarkedType
  <2>2. RelaxedStep[c][ch] = d /\ RelaxedStep[m][ch] = e
    BY <2>1, RelaxedStepType
  <2>3. /\ d \in WriterState
        /\ ch = "SP" => d.out = c.out /\ d.crlfBuf = c.crlfBuf /\ d.wsp = <<"SP">>
        /\ ch \in {"CR", "LF"} =>
             d.out = c.out /\ d.crlfBuf = Cat(c.crlfBuf, <<ch>>) /\ d.wsp = <<>>
        /\ ch = "x" =>
             /\ d.out = Cat(Cat(c.out, Cat(c.crlfBuf, c.wsp)), <<ch>>)
             /\ d.crlfBuf = <<>> /\ d.wsp = <<>>
    <3> HIDE DEF d
    <3> QED
      BY RelaxedByteParts DEF d
  <2>4. /\ e \in WriterState /\ e.before = m.before
        /\ ch = "SP" => e.out = m.out /\ e.crlfBuf = m.crlfBuf /\ e.wsp = <<"SP">>
        /\ ch \in {"CR", "LF"} =>
             e.out = m.out /\ e.crlfBuf = Cat(m.crlfBuf, <<ch>>) /\ e.wsp = <<>>
        /\ ch = "x" =>
             /\ e.out = Cat(Cat(m.out, Cat(m.crlfBuf, m.wsp)), <<ch>>)
             /\ e.crlfBuf = <<>> /\ e.wsp = <<>>
    <3> HIDE DEF e, m
    <3> QED
      BY <2>1, RelaxedByteParts DEF e
  <2> HIDE DEF m, d, e
  <2>5. d.out = e.out /\ d.crlfBuf = e.crlfBuf /\ d.wsp = e.wsp
    BY <2>1, <2>3, <2>4 DEF Bytes
  <2>6. /\ Marked(p)[d] \in WriterState /\ Marked(p)[d].before = p
        /\ Marked(p)[d].out = d.out /\ Marked(p)[d].crlfBuf = d.crlfBuf
        /\ Marked(p)[d].wsp = d.wsp
    BY <2>3, MarkedType
  <2>7. Marked(p)[d] = e
    BY <2>1, <2>4, <2>5, <2>6, WriterStateEqual
  <2> QED
    BY <2>2, <2>7 DEF m
<1> QED
  BY <1>1 DEF Commutes

LEMMA RelaxedMarked ==
    ASSUME NEW p \in Before, NEW c \in WriterState, NEW b \in Seq(Bytes)
    PROVE  RelaxedBytes(Marked(p)[c], b) = Marked(p)[RelaxedBytes(c, b)]
<1>1. Marked(p)[c] \in WriterState
  BY MarkedType
<1>2. PICK r : RelaxedRuns(c, b, r) /\ RelaxedBytes(c, b) = r[Len(b)]
  BY RelaxedRun
<1>3. PICK q : RelaxedRuns(Marked(p)[c], b, q) /\ RelaxedBytes(Marked(p)[c], b) = q[Len(b)]
  BY <1>1, RelaxedRun
<1>4. q[Len(b)] = Marked(p)[r[Len(b)]]
  BY <1>2, <1>3, MarkedCommutes, RunMaps DEF RelaxedRuns
<1> QED
  BY <1>2, <1>3, <1>4

\* The writer after the bytes b.
RelaxedAt(c, b) ==
    c = Marked(Fix("none", b).before)[RelaxedBytes(NewCanonicalizer, Fixed(b))]

LEMMA NewType == NewCanonicalizer \in WriterState
BY NoneBefore DEF NewCanonicalizer, WriterState

LEMMA RelaxedStart == RelaxedAt(NewCanonicalizer, <<>>)
<1>1. <<>> \in Seq(Bytes) /\ Len(<<>>) = 0
  OBVIOUS
<1>2. Fix("none", <<>>) = FixStart("none")
  BY FixEmpty, NoneBefore
<1>3. Fixed(<<>>) = <<>> /\ Fix("none", <<>>).before = "none"
  BY <1>2 DEF Fixed, FixStart
<1>4. PICK r : RelaxedRuns(NewCanonicalizer, <<>>, r) /\ RelaxedBytes(NewCanonicalizer, <<>>) = r[Len(<<>>)]
  BY <1>1, NewType, RelaxedRun
<1>5. RelaxedBytes(NewCanonicalizer, <<>>) = NewCanonicalizer
  BY <1>1, <1>4 DEF RelaxedRuns, IsRun
<1>6. Marked("none")[NewCanonicalizer] = NewCanonicalizer
  BY NewType DEF Marked, NewCanonicalizer
<1> QED
  BY <1>3, <1>5, <1>6 DEF RelaxedAt

LEMMA RelaxedWriteAt ==
    ASSUME NEW c, NEW b \in Seq(Bytes), NEW q \in Seq(Bytes), RelaxedAt(c, b)
    PROVE  RelaxedAt(RelaxedWrite(c, q), Cat(b, q))
<1> DEFINE p == Fix("none", b).before
           w == RelaxedBytes(NewCanonicalizer, Fixed(b))
           f == Fix(p, q)
           u == RelaxedBytes(w, f.out)
<1>1. p \in Before /\ Fixed(b) \in Seq(Bytes) /\ w \in WriterState
  BY FixType, FixedType, NoneBefore, NewType, RelaxedType
<1>2. f.before \in Before /\ f.out \in Seq(Bytes)
  BY <1>1, FixType
<1>3. u \in WriterState
  BY <1>1, <1>2, RelaxedType
<1>4. c = Marked(p)[w] /\ c.before = p
  BY <1>1, MarkedType DEF RelaxedAt
<1>5. RelaxedBytes(c, f.out) = Marked(p)[u]
  BY <1>1, <1>2, <1>4, RelaxedMarked
<1>6. RelaxedWrite(c, q) = [Marked(p)[u] EXCEPT !.before = f.before]
  BY <1>4, <1>5 DEF RelaxedWrite
<1>7. [Marked(p)[u] EXCEPT !.before = f.before] = Marked(f.before)[u]
  <2> HIDE DEF p, f, u
  <2>1. Marked(p)[u] = [u EXCEPT !.before = p] /\ Marked(f.before)[u] = [u EXCEPT !.before = f.before]
    BY <1>3 DEF Marked
  <2> QED
    BY <1>1, <1>2, <1>3, <2>1 DEF WriterState
<1>8. Fixed(Cat(b, q)) = Cat(Fixed(b), f.out) /\ Fix("none", Cat(b, q)).before = f.before
  BY <1>1, NoneBefore, FixConcat DEF Fixed
<1>9. RelaxedBytes(NewCanonicalizer, Fixed(Cat(b, q))) = u
  BY <1>1, <1>2, <1>8, NewType, RelaxedConcat
<1> QED
  BY <1>6, <1>7, <1>8, <1>9 DEF RelaxedAt

---------------------------------------------------------------------------
(* relaxed, of a whole body.                                               *)

TextAfter(f, k) == \E j \in DOMAIN f : j > k /\ f[j] = "x"

\* What the writer holds after k bytes of f, and will write.
Owed(f, c, k) ==
    IF TextAfter(f, k)
    THEN Cat(c.crlfBuf, IF k < Len(f) /\ f[k + 1] = "x" THEN c.wsp ELSE <<>>)
    ELSE <<>>

Counted(f, k, kept) == IF k \in Counting(f) THEN Append(kept, f[k]) ELSE kept

LEMMA OwedType ==
    ASSUME NEW f, NEW c \in WriterState, NEW k PROVE Owed(f, c, k) \in Seq(Bytes)
<1>1. c.crlfBuf \in Seq(Bytes) /\ c.wsp \in Seq(Bytes) /\ <<>> \in Seq(Bytes)
  BY DEF WriterState
<1> QED
  BY <1>1, CatType DEF Owed

\* Written and owed together grow by the bytes that count.
LEMMA OwedStep ==
    ASSUME NEW f \in Seq(Bytes), NEW c \in WriterState, NEW k \in 0 .. Len(f) - 1,
           NEW d, d = RelaxedByte(c, f[k + 1])
    PROVE  Cat(d.out, Owed(f, d, k + 1)) = Counted(f, k + 1, Cat(c.out, Owed(f, c, k)))
<1> DEFINE n == k + 1
           ch == f[n]
<1>0. Len(f) \in Nat
  OBVIOUS
<1>1. k \in Nat /\ n \in Nat /\ n \in 1 .. Len(f) /\ n > k /\ k < Len(f) /\ k + 1 = n
  BY ONLY <1>0, k \in 0 .. Len(f) - 1
<1>2. DOMAIN f = 1 .. Len(f) /\ ch \in Bytes
  BY <1>1
<1>3. /\ c.out \in Seq(Bytes) /\ c.crlfBuf \in Seq(Bytes) /\ c.wsp \in Seq(Bytes)
      /\ <<ch>> \in Seq(Bytes) /\ <<>> \in Seq(Bytes) /\ <<"SP">> \in Seq(Bytes)
  BY <1>2 DEF WriterState, Bytes
<1>4. /\ d \in WriterState
      /\ ch = "SP" => d.out = c.out /\ d.crlfBuf = c.crlfBuf /\ d.wsp = <<"SP">>
      /\ ch \in {"CR", "LF"} =>
           d.out = c.out /\ d.crlfBuf = Cat(c.crlfBuf, <<ch>>) /\ d.wsp = <<>>
      /\ ch = "x" =>
           /\ d.out = Cat(Cat(c.out, Cat(c.crlfBuf, c.wsp)), <<ch>>)
           /\ d.crlfBuf = <<>> /\ d.wsp = <<>>
  <2> HIDE DEF ch
  <2>1. d = RelaxedByte(c, ch)
    BY DEF ch
  <2> QED
    BY <1>2, <2>1, RelaxedByteParts
<1>5. TextAfter(f, k) <=> ch = "x" \/ TextAfter(f, n)
  <2>1. ASSUME NEW j \in 1 .. Len(f) PROVE j > k <=> j = n \/ j > n
    BY ONLY <1>1, j \in 1 .. Len(f)
  <2> QED
    BY <1>1, <1>2, <2>1 DEF TextAfter
<1>6. n \in Counting(f) <=>
        CASE ch = "SP" -> n < Len(f) /\ f[n + 1] = "x"
          [] ch = "x" -> TRUE
          [] OTHER -> TextAfter(f, n)
  BY <1>1, <1>2 DEF Counting, TextAfter
<1>7. Counted(f, n, Cat(c.out, Owed(f, c, k))) =
        IF n \in Counting(f) THEN Cat(Cat(c.out, Owed(f, c, k)), <<ch>>)
        ELSE Cat(c.out, Owed(f, c, k))
  <2>1. Cat(c.out, Owed(f, c, k)) \in Seq(Bytes)
    BY <1>3, OwedType, CatType
  <2>2. Append(Cat(c.out, Owed(f, c, k)), ch) = Cat(c.out, Owed(f, c, k)) \o <<ch>>
    BY <1>2, <2>1, AppendIsConcat
  <2> QED
    BY <2>2 DEF Counted, Cat
<1>8. n < Len(f) /\ f[n + 1] = "x" => TextAfter(f, n)
  <2> SUFFICES ASSUME n < Len(f), f[n + 1] = "x" PROVE TextAfter(f, n)
    OBVIOUS
  <2>1. n + 1 \in 1 .. Len(f) /\ n + 1 > n
    BY <1>0, <1>1
  <2> QED
    BY <1>2, <2>1 DEF TextAfter
<1> HIDE DEF n, ch
<1>9. /\ Cat(c.crlfBuf, <<>>) = c.crlfBuf /\ Cat(d.out, <<>>) = d.out
      /\ Cat(c.out, <<>>) = c.out /\ Cat(<<>>, <<>>) = <<>>
  BY <1>3, <1>4, CatEmpty DEF WriterState
<1>10. Owed(f, c, k) =
         IF TextAfter(f, k) THEN Cat(c.crlfBuf, IF ch = "x" THEN c.wsp ELSE <<>>) ELSE <<>>
  BY <1>1 DEF Owed, ch
<1>11. Owed(f, d, n) =
         IF TextAfter(f, n)
         THEN Cat(d.crlfBuf, IF n < Len(f) /\ f[n + 1] = "x" THEN d.wsp ELSE <<>>)
         ELSE <<>>
  BY DEF Owed
<1>12. CASE ch = "SP"
  <2>1. Owed(f, c, k) = IF TextAfter(f, n) THEN c.crlfBuf ELSE <<>>
    BY <1>5, <1>9, <1>10, <1>12
  <2>2. CASE n < Len(f) /\ f[n + 1] = "x"
    <3>1. Owed(f, d, n) = Cat(c.crlfBuf, <<"SP">>)
      BY <1>4, <1>8, <1>11, <1>12, <2>2
    <3>2. n \in Counting(f)
      BY <1>6, <1>12, <2>2
    <3>3. Cat(c.out, Cat(c.crlfBuf, <<"SP">>)) = Cat(Cat(c.out, c.crlfBuf), <<"SP">>)
      <4> DEFINE t == <<"SP">>
      <4>1. t \in Seq(Bytes)
        BY <1>3
      <4> HIDE DEF t
      <4>2. Cat(c.out, Cat(c.crlfBuf, t)) = Cat(Cat(c.out, c.crlfBuf), t)
        BY <1>3, <4>1, CatAssociative
      <4> QED
        BY <4>2 DEF t
    <3> QED
      BY <1>1, <1>4, <1>7, <1>8, <1>12, <2>1, <2>2, <3>1, <3>2, <3>3
  <2>3. CASE ~(n < Len(f) /\ f[n + 1] = "x")
    <3>1. Owed(f, d, n) = IF TextAfter(f, n) THEN c.crlfBuf ELSE <<>>
      BY <1>4, <1>9, <1>11, <1>12, <2>3
    <3>2. n \notin Counting(f)
      BY <1>6, <1>12, <2>3
    <3> QED
      BY <1>1, <1>4, <1>7, <1>12, <2>1, <3>1, <3>2
  <2> QED
    BY <2>2, <2>3
<1>13. CASE ch \in {"CR", "LF"}
  <2>1. Owed(f, c, k) = IF TextAfter(f, n) THEN c.crlfBuf ELSE <<>>
    BY <1>5, <1>9, <1>10, <1>13
  <2>2. Owed(f, d, n) = IF TextAfter(f, n) THEN Cat(c.crlfBuf, <<ch>>) ELSE <<>>
    <3>1. Cat(c.crlfBuf, <<ch>>) \in Seq(Bytes)
      BY <1>3, CatType
    <3>2. Cat(Cat(c.crlfBuf, <<ch>>), <<>>) = Cat(c.crlfBuf, <<ch>>)
      BY <3>1, CatEmpty
    <3> QED
      BY <1>4, <1>11, <1>13, <3>2
  <2>3. n \in Counting(f) <=> TextAfter(f, n)
    BY <1>6, <1>13
  <2>4. Cat(c.out, Cat(c.crlfBuf, <<ch>>)) = Cat(Cat(c.out, c.crlfBuf), <<ch>>)
    <3> DEFINE t == <<ch>>
    <3>1. t \in Seq(Bytes)
      BY <1>3
    <3> HIDE DEF t
    <3>2. Cat(c.out, Cat(c.crlfBuf, t)) = Cat(Cat(c.out, c.crlfBuf), t)
      BY <1>3, <3>1, CatAssociative
    <3> QED
      BY <3>2 DEF t
  <2> QED
    BY <1>1, <1>4, <1>7, <1>13, <2>1, <2>2, <2>3, <2>4
<1>14. CASE ch = "x"
  <2>1. Owed(f, c, k) = Cat(c.crlfBuf, c.wsp)
    BY <1>5, <1>10, <1>14
  <2>2. Owed(f, d, n) = <<>>
    BY <1>4, <1>9, <1>11, <1>14
  <2>3. n \in Counting(f)
    BY <1>6, <1>14
  <2> QED
    BY <1>1, <1>4, <1>7, <1>9, <1>14, <2>1, <2>2, <2>3
<1> QED
  BY <1>2, <1>12, <1>13, <1>14 DEF Bytes

\* What is written in the end: the bytes that count.
LEMMA RelaxedBodyIs ==
    ASSUME NEW b \in Seq(Bytes)
    PROVE  LET o == RelaxedBytes(NewCanonicalizer, Fixed(b)).out
           IN RelaxedBody(b) = o \o (IF o # <<>> THEN CRLF ELSE <<>>)
<1> DEFINE f == Fixed(b)
           o == RelaxedBytes(NewCanonicalizer, f).out
<1>1. f \in Seq(Bytes) /\ Len(f) \in Nat /\ DOMAIN f = 1 .. Len(f)
  <2>1. f \in Seq(Bytes)
    BY FixedType
  <2> HIDE DEF f
  <2> QED
    BY <2>1
<1> HIDE DEF f
<1>2. PICK r : RelaxedRuns(NewCanonicalizer, f, r) /\ RelaxedBytes(NewCanonicalizer, f) = r[Len(f)]
  BY <1>1, NewType, RelaxedRun
<1>3. /\ r[0] = NewCanonicalizer /\ r \in [0 .. Len(f) -> WriterState]
      /\ \A n \in 1 .. Len(f) : r[n] = RelaxedStep[r[n - 1]][f[n]]
  BY <1>2 DEF RelaxedRuns, IsRun
<1>4. ASSUME NEW n \in 0 .. Len(f) - 1
      PROVE  /\ r[n] \in WriterState /\ f[n + 1] \in Bytes
             /\ r[n + 1] \in WriterState /\ r[n + 1] = RelaxedByte(r[n], f[n + 1])
  <2>1. n + 1 \in 1 .. Len(f) /\ (n + 1) - 1 = n /\ n \in 0 .. Len(f) /\ n + 1 \in 0 .. Len(f)
    BY ONLY <1>1, n \in 0 .. Len(f) - 1
  <2>2. r[n] \in WriterState /\ r[n + 1] \in WriterState
    BY ONLY <1>3, <2>1
  <2>3. f[n + 1] \in Bytes
    BY ONLY <1>1, <2>1
  <2> QED
    BY <1>3, <2>1, <2>2, <2>3, RelaxedStepType
<1> DEFINE K == [k \in 0 .. Len(f) |-> Cat(r[k].out, Owed(f, r[k], k))]
           Def(g) == g = [n \in 0 .. Len(f) |->
                            IF n = 0 THEN <<>>
                            ELSE IF n \in Counting(f) THEN Append(g[n - 1], f[n]) ELSE g[n - 1]]
           g == CHOOSE x : Def(x)
<1>5. K[0] = <<>>
  <2>1. 0 \in 0 .. Len(f)
    BY <1>1
  <2>2. /\ NewCanonicalizer.out = <<>> /\ NewCanonicalizer.crlfBuf = <<>>
        /\ NewCanonicalizer.wsp = <<>>
    BY DEF NewCanonicalizer
  <2>3. Cat(<<>>, <<>>) = <<>>
    <3>1. <<>> \in Seq(Bytes)
      OBVIOUS
    <3> QED
      BY <3>1, CatEmpty
  <2>4. Owed(f, r[0], 0) = <<>>
    BY <1>3, <2>2, <2>3 DEF Owed
  <2> QED
    BY <1>3, <2>1, <2>2, <2>3, <2>4
<1>6. ASSUME NEW n \in 0 .. Len(f) - 1 PROVE K[n + 1] = Counted(f, n + 1, K[n])
  <2>1. n \in 0 .. Len(f) /\ n + 1 \in 0 .. Len(f)
    BY ONLY <1>1, n \in 0 .. Len(f) - 1
  <2>2. Cat(r[n + 1].out, Owed(f, r[n + 1], n + 1)) = Counted(f, n + 1, Cat(r[n].out, Owed(f, r[n], n)))
    BY <1>1, <1>4, OwedStep
  <2> QED
    BY <2>1, <2>2
<1>7. Def(K)
  <2>1. DOMAIN K = 0 .. Len(f) /\ K = [n \in 0 .. Len(f) |-> K[n]]
    OBVIOUS
  <2> HIDE DEF K
  <2>2. ASSUME NEW n \in 0 .. Len(f)
        PROVE  K[n] = IF n = 0 THEN <<>>
                      ELSE IF n \in Counting(f) THEN Append(K[n - 1], f[n]) ELSE K[n - 1]
    <3>1. CASE n = 0
      BY <1>5, <3>1
    <3>2. CASE n # 0
      <4>1. n - 1 \in 0 .. Len(f) - 1 /\ (n - 1) + 1 = n
        BY ONLY <1>1, <3>2, n \in 0 .. Len(f)
      <4>2. K[n] = Counted(f, n, K[n - 1])
        BY <1>6, <4>1
      <4> QED
        BY <3>2, <4>2 DEF Counted
    <3> QED
      BY <3>1, <3>2
  <2> QED
    BY <2>1, <2>2
<1>8. Def(g)
  <2> HIDE DEF Def, K
  <2> QED
    BY <1>7
<1> DEFINE S == {n \in 0 .. Len(f) : g[n] = K[n]}
<1>9. 0 \in S
  <2> HIDE DEF g, K
  <2>1. 0 \in 0 .. Len(f)
    BY <1>1
  <2> QED
    BY <1>5, <1>8, <2>1
<1>10. ASSUME NEW n \in 0 .. Len(f) - 1, n \in S PROVE n + 1 \in S
  <2> HIDE DEF g, K
  <2>1. n + 1 \in 0 .. Len(f) /\ n + 1 # 0 /\ (n + 1) - 1 = n
    BY ONLY <1>1, n \in 0 .. Len(f) - 1
  <2>2. g[n + 1] = Counted(f, n + 1, g[n])
    BY <1>8, <2>1 DEF Counted
  <2> QED
    BY <1>6, <1>10, <2>1, <2>2
<1>11. Len(f) \in S
  <2> HIDE DEF S
  <2> QED
    BY ONLY <1>1, <1>9, <1>10, BoundedInduction
<1>12. K[Len(f)] = o
  <2>1. ~TextAfter(f, Len(f))
    BY <1>1 DEF TextAfter
  <2>2. Owed(f, r[Len(f)], Len(f)) = <<>>
    BY <2>1 DEF Owed
  <2>3. Len(f) \in 0 .. Len(f)
    BY <1>1
  <2>4. r[Len(f)].out \in Seq(Bytes)
    BY <1>3, <2>3 DEF WriterState
  <2> QED
    BY <1>2, <2>2, <2>3, <2>4, CatEmpty
<1>13. RelaxedBody(b) = IF Counting(f) = {} THEN <<>> ELSE g[Len(f)] \o CRLF
  BY DEF RelaxedBody, f
<1> HIDE DEF g, K, Def
<1>14. g[Len(f)] = o
  BY <1>11, <1>12
<1> DEFINE U == {n \in 0 .. Len(f) : r[n].out = <<>> <=> \A j \in 1 .. n : f[j] # "x"}
<1>15. 0 \in U
  <2>1. 0 \in 0 .. Len(f) /\ r[0].out = <<>>
    BY <1>1, <1>3 DEF NewCanonicalizer
  <2> QED
    BY <2>1
<1>16. ASSUME NEW n \in 0 .. Len(f) - 1, n \in U PROVE n + 1 \in U
  <2>1. n + 1 \in 0 .. Len(f) /\ \A j \in 1 .. n + 1 : j \in 1 .. n \/ j = n + 1
    BY ONLY <1>1, n \in 0 .. Len(f) - 1
  <2>2. n + 1 \in 1 .. n + 1 /\ \A j \in 1 .. n : j \in 1 .. n + 1
    BY ONLY <1>1, n \in 0 .. Len(f) - 1
  <2>3. /\ r[n + 1].out \in Seq(Bytes) /\ r[n].out \in Seq(Bytes)
        /\ r[n].crlfBuf \in Seq(Bytes) /\ r[n].wsp \in Seq(Bytes)
    BY <1>4 DEF WriterState
  <2> DEFINE c == r[n]
             d == r[n + 1]
             ch == f[n + 1]
             s == Cat(c.out, Cat(c.crlfBuf, c.wsp))
             t == <<ch>>
  <2>4. c \in WriterState /\ ch \in Bytes /\ d = RelaxedByte(c, ch)
    BY <1>4
  <2>5. s \in Seq(Bytes) /\ t \in Seq(Bytes) /\ t # <<>>
    <3>1. s \in Seq(Bytes)
      BY <2>3, CatType
    <3> QED
      BY <2>4, <3>1
  <2>6. c.out = <<>> <=> \A j \in 1 .. n : f[j] # "x"
    BY <1>16
  <2> HIDE DEF c, d, ch
  <2>7. CASE ch = "x"
    <3>1. d.out = Cat(s, t)
      BY <2>4, <2>7, RelaxedByteParts
    <3> HIDE DEF s, t
    <3>2. d.out # <<>>
      BY <2>5, <3>1, LastOfCat
    <3> QED
      BY <2>1, <2>2, <2>7, <3>2 DEF d, ch
  <2>8. CASE ch # "x"
    <3>1. ch = "SP" \/ ch \in {"CR", "LF"}
      BY <2>4, <2>8 DEF Bytes
    <3>2. d.out = c.out
      BY <2>4, <3>1, RelaxedByteParts
    <3> QED
      BY <2>1, <2>2, <2>6, <2>8, <3>2 DEF d, ch
  <2> QED
    BY <2>7, <2>8
<1>17. Len(f) \in U
  <2> HIDE DEF U
  <2> QED
    BY ONLY <1>1, <1>15, <1>16, BoundedInduction
<1>18. o = <<>> <=> \A j \in 1 .. Len(f) : f[j] # "x"
  BY <1>2, <1>17
<1>19. Counting(f) = {} <=> \A j \in 1 .. Len(f) : f[j] # "x"
  <2>1. ASSUME NEW j \in 1 .. Len(f), f[j] = "x" PROVE j \in Counting(f)
    BY <1>1, <2>1 DEF Counting
  <2>2. ASSUME NEW i \in Counting(f) PROVE \E j \in 1 .. Len(f) : f[j] = "x"
    <3>1. i \in 1 .. Len(f) /\ (f[i] = "SP" => i < Len(f) /\ f[i + 1] = "x")
      BY <1>1 DEF Counting
    <3>2. f[i] # "SP" /\ f[i] # "x" => \E j \in 1 .. Len(f) : f[j] = "x"
      BY <1>1 DEF Counting
    <3>3. i < Len(f) => i + 1 \in 1 .. Len(f)
      BY ONLY <1>1, <3>1
    <3> QED
      BY <3>1, <3>2, <3>3
  <2> QED
    BY <2>1, <2>2
<1>20. o \in Seq(Bytes)
  <2>1. RelaxedBytes(NewCanonicalizer, f) \in WriterState
    BY <1>1, NewType, RelaxedType
  <2> QED
    BY <2>1 DEF WriterState
<1>21. RelaxedBody(b) = o \o (IF o # <<>> THEN CRLF ELSE <<>>)
  <2>1. <<>> \o <<>> = <<>>
    BY ConcatEmptySeq
  <2> HIDE DEF o
  <2> QED
    BY <1>13, <1>14, <1>18, <1>19, <2>1
<1> QED
  BY <1>21 DEF f

\* The writer after b, but for the byte before.
Relaxed(b) == RelaxedBytes(NewCanonicalizer, Fixed(b))

LEMMA RelaxedTypes ==
    ASSUME NEW b \in Seq(Bytes)
    PROVE  Relaxed(b) \in WriterState /\ Fix("none", b).before \in Before
BY FixedType, FixType, NoneBefore, NewType, RelaxedType DEF Relaxed

LEMMA RelaxedOfCat ==
    ASSUME NEW s \in Seq(Bytes), NEW t \in Seq(Bytes)
    PROVE  Relaxed(Cat(s, t)) = RelaxedBytes(Relaxed(s), Fix(Fix("none", s).before, t).out)
<1> DEFINE p == Fix("none", s).before
<1>1. p \in Before /\ Fixed(s) \in Seq(Bytes)
  BY FixType, FixedType, NoneBefore
<1>2. Fix(p, t).out \in Seq(Bytes)
  BY <1>1, FixType
<1>3. Fixed(Cat(s, t)) = Cat(Fixed(s), Fix(p, t).out)
  BY NoneBefore, FixConcat DEF Fixed
<1> QED
  BY <1>1, <1>2, <1>3, NewType, RelaxedConcat DEF Relaxed

LEMMA RelaxedCloseAt ==
    ASSUME NEW c, NEW b \in Seq(Bytes), RelaxedAt(c, b)
    PROVE  RelaxedClose(c) = RelaxedBody(b)
<1>1. c.out = Relaxed(b).out
  BY RelaxedTypes, MarkedType DEF RelaxedAt, Relaxed
<1> QED
  BY <1>1, RelaxedBodyIs DEF RelaxedClose, Relaxed

LEMMA SameOut ==
    ASSUME NEW a \in Seq(Bytes), NEW b \in Seq(Bytes), Relaxed(a).out = Relaxed(b).out
    PROVE  RelaxedBody(a) = RelaxedBody(b)
BY RelaxedBodyIs DEF Relaxed

LEMMA CRLFType == CRLF \in Seq(Bytes) /\ CRLF = Cat(<<"CR">>, <<"LF">>) /\ Stable(CRLF)
<1>1. CRLF \in Seq(Bytes) /\ Len(CRLF) = 2 /\ CRLF[1] = "CR" /\ CRLF[2] = "LF"
  BY DEF CRLF, Bytes
<1>2. CRLF = <<"CR">> \o <<"LF">>
  BY DEF CRLF
<1> QED
  BY <1>1, <1>2 DEF Stable, Cat

LEMMA RelaxedByteOut ==
    ASSUME NEW c \in WriterState, NEW ch \in Bytes, ch # "x"
    PROVE  RelaxedByte(c, ch) \in WriterState /\ RelaxedByte(c, ch).out = c.out
<1>1. ch = "SP" \/ ch \in {"CR", "LF"}
  BY DEF Bytes
<1> QED
  BY <1>1, RelaxedByteParts

\* An empty line at the end does not matter to relaxed.
LEMMA RelaxedEmptyLine ==
    ASSUME NEW b \in Seq(Bytes) PROVE RelaxedBody(Cat(b, CRLF)) = RelaxedBody(b)
<1> DEFINE w == Relaxed(b)
           p == Fix("none", b).before
           cr == <<"CR">>
           lf == <<"LF">>
<1>1. w \in WriterState /\ p \in Before /\ "CR" \in Bytes /\ "LF" \in Bytes
  BY RelaxedTypes DEF Bytes
<1>2. cr \in Seq(Bytes) /\ lf \in Seq(Bytes)
  BY <1>1
<1>3. Relaxed(Cat(b, CRLF)) = RelaxedBytes(w, CRLF)
  BY <1>1, CRLFType, RelaxedOfCat, FixStable
<1> DEFINE c == RelaxedByte(w, "CR")
<1>4. c \in WriterState /\ c.out = w.out
  BY <1>1, RelaxedByteOut
<1>5. RelaxedBytes(w, cr) = c /\ RelaxedBytes(c, lf) = RelaxedByte(c, "LF")
  BY <1>1, <1>4, RelaxedOne
<1>6. RelaxedByte(c, "LF").out = w.out
  BY <1>1, <1>4, RelaxedByteOut
<1> HIDE DEF w, c, cr, lf
<1>7. RelaxedBytes(w, Cat(cr, lf)) = RelaxedBytes(RelaxedBytes(w, cr), lf)
  BY <1>1, <1>2, RelaxedConcat
<1>8. Relaxed(Cat(b, CRLF)).out = w.out
  BY <1>3, <1>5, <1>6, <1>7, CRLFType DEF cr, lf
<1>9. Cat(b, CRLF) \in Seq(Bytes)
  BY CRLFType, CatType
<1> QED
  BY <1>8, <1>9, SameOut DEF w

\* Nor does a space before white space or a line end.
LEMMA RelaxedSpace ==
    ASSUME NEW u \in Seq(Bytes), NEW v \in Seq(Bytes), NEW ch \in {"SP", "CR"}
    PROVE  RelaxedBody(Cat(u, Cat(<<"SP">>, Cat(<<ch>>, v)))) = RelaxedBody(Cat(u, Cat(<<ch>>, v)))
<1> DEFINE w == Relaxed(u)
           p == Fix("none", u).before
           sp == <<"SP">>
           c == <<ch>>
           g == Fix(ch, v).out
           d == RelaxedByte(w, "SP")
<1>1. w \in WriterState /\ p \in Before /\ "SP" \in Bytes /\ ch \in Bytes /\ ch # "LF" /\ ch # "x"
  BY RelaxedTypes DEF Bytes
<1>2. sp \in Seq(Bytes) /\ c \in Seq(Bytes)
  BY <1>1
<1>3. ch \in Before /\ "SP" \in Before
  BY <1>1 DEF Before
<1>4. g \in Seq(Bytes)
  BY <1>3, FixType
<1>5. ASSUME NEW q \in Before PROVE Fix(q, Cat(c, v)).out = Cat(c, g)
  <2>1. Fix(q, c).before = ch /\ Fix(q, c).out = c
    BY <1>1, FixOne DEF FixedByte
  <2> HIDE DEF c
  <2> QED
    BY <1>2, <2>1, FixConcat
<1>6. Cat(c, v) \in Seq(Bytes) /\ Cat(c, g) \in Seq(Bytes)
  <2> HIDE DEF c, g
  <2> QED
    BY <1>2, <1>4, CatType
<1>7. Fix(p, Cat(sp, Cat(c, v))).out = Cat(sp, Cat(c, g))
  <2>1. Fix(p, sp).before = "SP" /\ Fix(p, sp).out = sp
    BY <1>1, FixOne DEF FixedByte
  <2>2. Fix("SP", Cat(c, v)).out = Cat(c, g)
    BY <1>3, <1>5
  <2> HIDE DEF c, sp, p, g
  <2> QED
    BY <1>1, <1>2, <1>6, <2>1, <2>2, FixConcat
<1>8. d \in WriterState /\ RelaxedByte(d, ch) = RelaxedByte(w, ch)
  <2> DEFINE e == RelaxedByte(d, ch)
             f == RelaxedByte(w, ch)
  <2>0. d = RelaxedByte(w, "SP")
    OBVIOUS
  <2> HIDE DEF w, d
  <2>1. /\ d \in WriterState /\ d.before = w.before
        /\ d.out = w.out /\ d.crlfBuf = w.crlfBuf
    <3>1. d = [w EXCEPT !.wsp = <<"SP">>]
      BY <2>0 DEF RelaxedByte
    <3>2. <<"SP">> \in Seq(Bytes)
      BY <1>1
    <3> QED
      BY <1>1, <3>1, <3>2 DEF WriterState
  <2>2. /\ e \in WriterState /\ e.before = d.before /\ e.out = d.out
        /\ ch = "SP" => e.crlfBuf = d.crlfBuf /\ e.wsp = <<"SP">>
        /\ ch = "CR" => e.crlfBuf = Cat(d.crlfBuf, <<ch>>) /\ e.wsp = <<>>
    BY <1>1, <2>1, RelaxedByteParts
  <2>3. /\ f \in WriterState /\ f.before = w.before /\ f.out = w.out
        /\ ch = "SP" => f.crlfBuf = w.crlfBuf /\ f.wsp = <<"SP">>
        /\ ch = "CR" => f.crlfBuf = Cat(w.crlfBuf, <<ch>>) /\ f.wsp = <<>>
    BY <1>1, RelaxedByteParts
  <2> HIDE DEF e, f
  <2>4. e = f
    BY <2>1, <2>2, <2>3, WriterStateEqual
  <2> QED
    BY <2>1, <2>4 DEF e, f
<1>9. RelaxedBytes(w, Cat(c, g)) = RelaxedBytes(RelaxedByte(w, ch), g)
  <2>1. RelaxedBytes(w, c) = RelaxedByte(w, ch)
    BY <1>1, RelaxedOne
  <2> HIDE DEF w, c, g
  <2> QED
    BY <1>1, <1>2, <1>4, <2>1, RelaxedConcat
<1>10. RelaxedBytes(w, Cat(sp, Cat(c, g))) = RelaxedBytes(RelaxedByte(w, ch), g)
  <2>1. RelaxedBytes(w, sp) = d
    BY <1>1, RelaxedOne
  <2>2. RelaxedBytes(d, c) = RelaxedByte(d, ch)
    BY <1>1, <1>8, RelaxedOne
  <2> HIDE DEF w, c, g, sp, d
  <2>3. RelaxedBytes(w, Cat(sp, Cat(c, g))) = RelaxedBytes(d, Cat(c, g))
    BY <1>1, <1>2, <1>6, <2>1, RelaxedConcat
  <2>4. RelaxedBytes(d, Cat(c, g)) = RelaxedBytes(RelaxedByte(d, ch), g)
    BY <1>2, <1>4, <1>8, <2>2, RelaxedConcat
  <2> QED
    BY <1>8, <2>3, <2>4
<1> HIDE DEF w, p, sp, c, g, d
<1>11. Cat(sp, Cat(c, v)) \in Seq(Bytes)
  BY <1>2, <1>6, CatType
<1>12. Relaxed(Cat(u, Cat(sp, Cat(c, v)))) = Relaxed(Cat(u, Cat(c, v)))
  <2>1. Relaxed(Cat(u, Cat(sp, Cat(c, v)))) = RelaxedBytes(w, Cat(sp, Cat(c, g)))
    BY <1>7, <1>11, RelaxedOfCat DEF w, p
  <2>2. Fix(p, Cat(c, v)).out = Cat(c, g)
    BY <1>1, <1>5
  <2>3. Relaxed(Cat(u, Cat(c, v))) = RelaxedBytes(w, Cat(c, g))
    BY <1>6, <2>2, RelaxedOfCat DEF w, p
  <2> QED
    BY <1>9, <1>10, <2>1, <2>3
<1>13. Cat(u, Cat(sp, Cat(c, v))) \in Seq(Bytes) /\ Cat(u, Cat(c, v)) \in Seq(Bytes)
  BY <1>6, <1>11, CatType
<1>14. RelaxedBody(Cat(u, Cat(sp, Cat(c, v)))) = RelaxedBody(Cat(u, Cat(c, v)))
  BY <1>12, <1>13, SameOut
<1> QED
  BY <1>14 DEF sp, c

---------------------------------------------------------------------------
(* Either canonicalizer.                                                   *)

WriterAt(kind, c, b) == IF kind = "simple" THEN SimpleAt(c, b) ELSE RelaxedAt(c, b)

LEMMA WriterStart == ASSUME NEW kind PROVE WriterAt(kind, NewCanonicalizer, <<>>)
BY SimpleStart, RelaxedStart DEF WriterAt

LEMMA WriterWrites ==
    ASSUME NEW kind, NEW c, NEW b \in Seq(Bytes), NEW q \in Seq(Bytes), q # <<>>,
           WriterAt(kind, c, b)
    PROVE  WriterAt(kind, Write(kind, c, q), Cat(b, q))
BY SimpleWriteAt, RelaxedWriteAt DEF WriterAt, Write

LEMMA WriterCloses ==
    ASSUME NEW kind, NEW c, NEW b \in Seq(Bytes), WriterAt(kind, c, b)
    PROVE  Close(kind, c) = CanonicalBody(kind, b)
BY SimpleCloseAt, RelaxedCloseAt DEF WriterAt, Close, CanonicalBody

LEMMA EmptyLine ==
    ASSUME NEW kind, NEW b \in Seq(Bytes)
    PROVE  CanonicalBody(kind, Cat(b, CRLF)) = CanonicalBody(kind, b)
BY SimpleEmptyLine, RelaxedEmptyLine DEF CanonicalBody

\* The CRLF that is taken from the end of a body.
LEMMA LastLine ==
    ASSUME NEW b \in Seq(Bytes), Len(b) > 2, IsSuffix(CRLF \o CRLF, b)
    PROVE  /\ SubSeq(b, 1, Len(b) - 2) \in Seq(Bytes)
           /\ b = Cat(SubSeq(b, 1, Len(b) - 2), CRLF)
<1> DEFINE n == Len(b)
           s == CRLF \o CRLF
<1>0. IsSuffix(s, b)
  OBVIOUS
<1>1. s \in Seq(Bytes) /\ Len(s) = 4 /\ s[3] = "CR" /\ s[4] = "LF"
  <2>1. CRLF \in Seq(Bytes) /\ Len(CRLF) = 2 /\ CRLF[1] = "CR" /\ CRLF[2] = "LF"
    BY DEF CRLF, Bytes
  <2>0. s = Cat(CRLF, CRLF)
    BY DEF Cat
  <2> HIDE DEF s
  <2>2. s \in Seq(Bytes) /\ Len(s) = Len(CRLF) + Len(CRLF)
    BY <2>0, <2>1, CatType
  <2>3. s[3] = CRLF[1] /\ s[4] = CRLF[2]
    <3>0. CRLF \in Seq(Bytes)
      BY <2>1
    <3>1. \A i \in 1 .. Len(CRLF) : Cat(CRLF, CRLF)[Len(CRLF) + i] = CRLF[i]
      BY ONLY <3>0, CatAt
    <3>2. /\ 1 \in 1 .. Len(CRLF) /\ Len(CRLF) + 1 = 3
          /\ 2 \in 1 .. Len(CRLF) /\ Len(CRLF) + 2 = 4
      BY <2>1
    <3> QED
      BY <2>0, <3>1, <3>2
  <2> QED
    BY <2>1, <2>2, <2>3
<1>2. n \in Nat /\ n > 2 /\ n - 2 \in 0 .. n
  OBVIOUS
<1> HIDE DEF s
<1>3. /\ Len(Reverse(s)) = 4 /\ Reverse(s)[1] = s[4] /\ Reverse(s)[2] = s[3]
  BY <1>1 DEF Reverse
<1>4. /\ Len(Reverse(b)) = n /\ Reverse(b) \in Seq(Bytes)
      /\ Reverse(b)[1] = b[n] /\ Reverse(b)[2] = b[n - 1]
  BY <1>2 DEF Reverse
<1>5. Reverse(s)[1] = Reverse(b)[1] /\ Reverse(s)[2] = Reverse(b)[2]
  <2>0. /\ Len(Reverse(s)) <= Len(Reverse(b))
        /\ SubSeq(Reverse(s), 1, Len(Reverse(s))) = SubSeq(Reverse(b), 1, Len(Reverse(s)))
    BY <1>0 DEF IsSuffix, IsPrefix
  <2>1. SubSeq(Reverse(b), 1, 4) = Reverse(s) /\ 4 <= n
    <3>1. Reverse(s) \in Seq(Bytes)
      <4>1. ASSUME NEW i \in 1 .. 4 PROVE s[(4 - i) + 1] \in Bytes
        <5>1. (4 - i) + 1 \in 1 .. Len(s)
          BY <1>1
        <5>2. s \in Seq(Bytes)
          BY <1>1
        <5> QED
          BY ONLY <5>1, <5>2, ElementOfSeq
      <4>2. Reverse(s) = [i \in 1 .. 4 |-> s[(4 - i) + 1]]
        BY <1>1 DEF Reverse
      <4> QED
        BY ONLY <4>1, <4>2
    <3>2. SubSeq(Reverse(s), 1, Len(Reverse(s))) = Reverse(s)
      BY <3>1, SubSeqFull
    <3> QED
      BY <1>3, <1>4, <2>0, <3>2
  <2>2. SubSeq(Reverse(b), 1, 4)[1] = Reverse(b)[1] /\ SubSeq(Reverse(b), 1, 4)[2] = Reverse(b)[2]
    BY <1>4, <2>1
  <2> QED
    BY <2>1, <2>2
<1>6. b[n - 1] = "CR" /\ b[n] = "LF"
  BY <1>1, <1>3, <1>4, <1>5
<1>7. /\ SubSeq(b, 1, n - 2) \in Seq(Bytes)
      /\ Cat(SubSeq(b, 1, n - 2), SubSeq(b, (n - 2) + 1, n)) = b
  BY <1>2, SplitAt
<1>8. SubSeq(b, (n - 2) + 1, n) = CRLF
  <2>1. (n - 2) + 1 = n - 1
    BY <1>2
  <2>2. SubSeq(b, n - 1, n) = CRLF
    <3> DEFINE t == SubSeq(b, n - 1, n)
    <3>1. n - 1 \in Int /\ n \in Int /\ \A i \in n - 1 .. n : b[i] \in Bytes
      BY <1>2
    <3>2. /\ t \in Seq(Bytes) /\ Len(t) = 2
          /\ \A i \in 1 .. 2 : t[i] = b[(n - 1) + i - 1]
      <4>1. n - 1 <= n /\ n - (n - 1) + 1 = 2
        BY <1>2
      <4> QED
        BY <3>1, <4>1, SubSeqProperties
    <3> HIDE DEF t
    <3>3. t[1] = b[n - 1] /\ t[2] = b[n]
      <4>1. (n - 1) + 1 - 1 = n - 1 /\ (n - 1) + 2 - 1 = n /\ 1 \in 1 .. 2 /\ 2 \in 1 .. 2
        BY <1>2
      <4> QED
        BY <3>2, <4>1
    <3>4. CRLF \in Seq(Bytes) /\ Len(CRLF) = 2 /\ CRLF[1] = "CR" /\ CRLF[2] = "LF"
      BY DEF CRLF, Bytes
    <3>5. \A i \in 1 .. Len(t) : t[i] = CRLF[i]
      BY <1>6, <3>2, <3>3, <3>4
    <3>6. t = CRLF
      BY ONLY <3>2, <3>4, <3>5, SeqEqual
    <3> QED
      BY <3>6 DEF t
  <2> QED
    BY <2>1, <2>2
<1> QED
  BY <1>7, <1>8

\* One byte of a body, with what is before and behind it.
LEMMA SplitByte ==
    ASSUME NEW b \in Seq(Bytes), NEW i \in 1 .. Len(b)
    PROVE  /\ SubSeq(b, 1, i - 1) \in Seq(Bytes) /\ SubSeq(b, i + 1, Len(b)) \in Seq(Bytes)
           /\ b = Cat(SubSeq(b, 1, i - 1), SubSeq(b, i, Len(b)))
           /\ SubSeq(b, i, Len(b)) = Cat(<<b[i]>>, SubSeq(b, i + 1, Len(b)))
<1>1. /\ Len(b) \in Nat /\ i - 1 \in 0 .. Len(b) /\ (i - 1) + 1 = i
      /\ i \in 0 .. Len(b) /\ Len(b) \in i .. Len(b)
  OBVIOUS
<1>2. /\ SubSeq(b, 1, i - 1) \in Seq(Bytes)
      /\ Cat(SubSeq(b, 1, i - 1), SubSeq(b, (i - 1) + 1, Len(b))) = b
  BY <1>1, SplitAt
<1>3. SubSeq(b, i + 1, Len(b)) \in Seq(Bytes)
  BY <1>1, SplitAt
<1>4. SubSeq(b, i, Len(b)) = <<b[i]>> \o SubSeq(b, i + 1, Len(b))
  BY <1>1, SubSeqRecursiveFirst
<1> QED
  BY <1>1, <1>2, <1>3, <1>4 DEF Cat

\* A space put before white space or a line end.
LEMMA SpaceBefore ==
    ASSUME NEW b \in Seq(Bytes), NEW i \in 1 .. Len(b), b[i] = "SP" \/ b[i] = "CR"
    PROVE  LET a == SubSeq(b, 1, i - 1) \o <<"SP">> \o SubSeq(b, i, Len(b))
           IN a \in Seq(Bytes) /\ RelaxedBody(a) = RelaxedBody(b)
<1> DEFINE u == SubSeq(b, 1, i - 1)
           t == SubSeq(b, i, Len(b))
           v == SubSeq(b, i + 1, Len(b))
           sp == <<"SP">>
           c == <<b[i]>>
<1>1. u \in Seq(Bytes) /\ v \in Seq(Bytes) /\ b = Cat(u, t) /\ t = Cat(c, v)
  BY SplitByte
<1>2. sp \in Seq(Bytes) /\ c \in Seq(Bytes)
  BY DEF Bytes
<1>3. RelaxedBody(Cat(u, Cat(sp, Cat(c, v)))) = RelaxedBody(Cat(u, Cat(c, v)))
  BY <1>1, RelaxedSpace
<1> HIDE DEF u, t, v, sp, c
<1>4. t \in Seq(Bytes)
  BY <1>1, <1>2, CatType
<1>5. Cat(Cat(u, sp), t) = Cat(u, Cat(sp, t)) /\ Cat(u, Cat(sp, t)) \in Seq(Bytes)
  <2>1. u \in Seq(Bytes)
    BY <1>1
  <2>2. Cat(sp, t) \in Seq(Bytes)
    BY <1>2, <1>4, CatType
  <2>3. Cat(Cat(u, sp), t) = Cat(u, Cat(sp, t))
    BY <1>2, <1>4, <2>1, CatAssociative
  <2> QED
    BY <2>1, <2>2, <2>3, CatType
<1>6. u \o sp \o t = Cat(Cat(u, sp), t)
  BY DEF Cat
<1>7. u \o sp \o t \in Seq(Bytes) /\ RelaxedBody(u \o sp \o t) = RelaxedBody(b)
  BY <1>1, <1>3, <1>5, <1>6
<1> QED
  BY <1>7 DEF u, sp, t

---------------------------------------------------------------------------
(* The body.                                                               *)

\* The writer is where it is after the bytes it was fed, and what a side hashed
\* is the canonical form of the body as it is now.
BodyInv ==
    /\ body \in Seq(Bytes) /\ fed \in 0 .. Len(body)
    /\ can \in [header : Canonicalizers, body : Canonicalizers]
    /\ side \in {"sign", "transit", "verify", "done"}
    /\ side = "transit" => fed = 0
    /\ WriterAt(can.body, writer, SubSeq(body, 1, fed))
    /\ side # "sign" => signed.body = CanonicalBody(can.body, body)
    /\ side = "done" => verified.body = CanonicalBody(can.body, body)

LEMMA NothingFed ==
    ASSUME NEW s PROVE SubSeq(s, 1, 0) = <<>>
BY SubSeqEmpty

LEMMA BodyInit == Init => BodyInv
<1> SUFFICES ASSUME Init PROVE BodyInv
  OBVIOUS
<1>1. body \in Seq(Bytes)
  BY MessagesAssumption DEF Init
<1>2. Len(body) \in Nat
  BY <1>1
<1>3. fed = 0 /\ fed \in 0 .. Len(body)
  BY <1>2 DEF Init
<1>4. WriterAt(can.body, writer, SubSeq(body, 1, fed))
  BY <1>3, NothingFed, WriterStart DEF Init
<1> QED
  BY <1>1, <1>3, <1>4 DEF Init, BodyInv

LEMMA BodyWrite == BodyInv /\ WriteBody => BodyInv'
<1> SUFFICES ASSUME BodyInv, WriteBody PROVE BodyInv'
  OBVIOUS
<1>1. /\ body \in Seq(Bytes) /\ fed \in 0 .. Len(body) /\ Len(body) \in Nat
      /\ WriterAt(can.body, writer, SubSeq(body, 1, fed))
  <2>1. body \in Seq(Bytes) /\ fed \in 0 .. Len(body) /\ WriterAt(can.body, writer, SubSeq(body, 1, fed))
    BY DEF BodyInv
  <2> QED
    BY <2>1
<1>2. PICK n \in 1 .. Len(body) - fed :
        /\ writer' = Write(can.body, writer, SubSeq(body, fed + 1, fed + n))
        /\ fed' = fed + n
  BY DEF WriteBody
<1> DEFINE q == SubSeq(body, fed + 1, fed + n)
           b == SubSeq(body, 1, fed)
<1>3. /\ fed \in Nat /\ fed + n \in Nat /\ fed + n \in 0 .. Len(body) /\ 1 \in 1 .. Len(body) + 1
      /\ fed \in 1 - 1 .. Len(body) /\ fed + n \in fed .. Len(body) /\ n >= 1
  BY <1>1
<1>4. b \in Seq(Bytes) /\ q \in Seq(Bytes) /\ q # <<>>
  <2>1. b \in Seq(Bytes)
    BY <1>1, SplitAt
  <2>2. fed + 1 \in Int /\ fed + n \in Int /\ \A i \in fed + 1 .. fed + n : body[i] \in Bytes
    BY <1>1, <1>3
  <2>3. fed + 1 <= fed + n /\ (fed + n) - (fed + 1) + 1 = n /\ n # 0
    BY ONLY <1>3, n \in 1 .. Len(body) - fed
  <2>4. q \in Seq(Bytes) /\ Len(q) = n
    BY ONLY <2>2, <2>3, SubSeqProperties
  <2>5. q # <<>>
    <3> HIDE DEF q
    <3> QED
      BY <2>3, <2>4
  <2> QED
    BY <2>1, <2>4, <2>5
<1>5. Cat(b, q) = SubSeq(body, 1, fed + n)
  BY <1>1, <1>3, ConcatAdjacentSubSeq DEF Cat
<1>6. WriterAt(can.body, writer', Cat(b, q))
  <2> HIDE DEF b, q
  <2> QED
    BY <1>1, <1>2, <1>4, WriterWrites DEF b, q
<1>7. WriterAt(can.body, writer', SubSeq(body, 1, fed'))
  BY <1>2, <1>5, <1>6
<1>8. UNCHANGED <<body, can, side, signed, verified>> /\ side \in {"sign", "verify"}
  BY DEF WriteBody, Hashing
<1>9. fed' \in 0 .. Len(body)
  BY <1>2, <1>3
<1> QED
  BY <1>7, <1>8, <1>9 DEF BodyInv

\* The body is hashed when the writer got all of it.
LEMMA BodyHashed ==
    BodyInv /\ Complete => Hashes.body = CanonicalBody(can.body, body)
<1> SUFFICES ASSUME BodyInv, Complete PROVE Hashes.body = CanonicalBody(can.body, body)
  OBVIOUS
<1>1. body \in Seq(Bytes) /\ WriterAt(can.body, writer, body)
  BY SubSeqFull DEF BodyInv, Complete
<1> QED
  BY <1>1, WriterCloses DEF Hashes

\* When the body is changed on the way, what counts is not.
LEMMA BodyTransit ==
    ASSUME BodyInv, side = "transit", side' \in {"transit", "verify"},
           UNCHANGED <<can, hashVars, signed, verified>>,
           body' \in Seq(Bytes), CanonicalBody(can.body, body') = CanonicalBody(can.body, body)
    PROVE  BodyInv'
<1>1. fed' = 0 /\ fed' \in 0 .. Len(body') /\ fed = 0
  <2>1. Len(body') \in Nat /\ fed' = 0 /\ fed = 0
    BY DEF BodyInv, hashVars
  <2> QED
    BY <2>1
<1>2. WriterAt(can.body, writer', SubSeq(body', 1, fed'))
  <2>1. WriterAt(can.body, writer, <<>>)
    BY <1>1, NothingFed DEF BodyInv
  <2> QED
    BY <1>1, <2>1, NothingFed DEF hashVars
<1>3. signed' = signed /\ can' = can /\ side' # "sign" /\ side' # "done"
  OBVIOUS
<1>4. signed.body = CanonicalBody(can.body, body) /\ can \in [header : Canonicalizers, body : Canonicalizers]
  BY DEF BodyInv
<1> QED
  BY <1>1, <1>2, <1>3, <1>4 DEF BodyInv

LEMMA BodyNext == BodyInv /\ [Next]_vars => BodyInv'
<1> SUFFICES ASSUME BodyInv, [Next]_vars PROVE BodyInv'
  OBVIOUS
<1>1. CASE WriteBody
  BY <1>1, BodyWrite
<1>2. CASE PickKey
  BY <1>2 DEF BodyInv, PickKey
<1>3. CASE SignHash
  <2>1. signed'.body = CanonicalBody(can.body, body) /\ UNCHANGED <<body, can>> /\ side' = "transit"
    BY <1>3, BodyHashed DEF SignHash
  <2>2. fed' = 0 /\ writer' = NewCanonicalizer
    BY <1>3 DEF SignHash, StartHashing
  <2>3. WriterAt(can.body, writer', SubSeq(body, 1, fed'))
    BY <2>2, NothingFed, WriterStart
  <2>4. fed' \in 0 .. Len(body) /\ body \in Seq(Bytes) /\ can \in [header : Canonicalizers, body : Canonicalizers]
    <3>1. body \in Seq(Bytes) /\ can \in [header : Canonicalizers, body : Canonicalizers]
      BY DEF BodyInv
    <3> QED
      BY <2>2, <3>1
  <2> QED
    BY <2>1, <2>2, <2>3, <2>4 DEF BodyInv
<1>4. CASE CompareHash
  <2>1. verified'.body = CanonicalBody(can.body, body)
    BY <1>4, BodyHashed DEF CompareHash
  <2> QED
    BY <1>4, <2>1 DEF BodyInv, CompareHash, hashVars
<1>5. CASE AddField
  BY <1>5, BodyTransit DEF AddField, InTransit, BodyInv
<1>6. CASE ChangeEnd
  <2>0. body \in Seq(Bytes)
    BY DEF BodyInv
  <2>1. CASE body' = body \o CRLF
    <3>1. body' = Cat(body, CRLF) /\ body' \in Seq(Bytes)
      BY <2>0, <2>1, CRLFType, CatType DEF Cat
    <3>2. CanonicalBody(can.body, body') = CanonicalBody(can.body, body)
      BY <2>0, <3>1, EmptyLine
    <3> QED
      BY <1>6, <3>1, <3>2, BodyTransit DEF ChangeEnd, InTransit
  <2>2. CASE Len(body) > 2 /\ IsSuffix(CRLF \o CRLF, body) /\ body' = SubSeq(body, 1, Len(body) - 2)
    <3>1. body' \in Seq(Bytes) /\ body = Cat(body', CRLF)
      BY <2>0, <2>2, LastLine
    <3>2. CanonicalBody(can.body, body') = CanonicalBody(can.body, body)
      BY <3>1, EmptyLine
    <3> QED
      BY <1>6, <3>1, <3>2, BodyTransit DEF ChangeEnd, InTransit
  <2> QED
    BY <1>6, <2>1, <2>2 DEF ChangeEnd
<1>7. CASE ChangeSpace
  <2>0. body \in Seq(Bytes) /\ side = "transit" /\ side' = "verify"
    BY <1>7 DEF BodyInv, ChangeSpace, InTransit
  <2>1. CASE /\ can.body = "relaxed"
             /\ \E i \in DOMAIN body :
                  /\ body[i] = "SP" \/ body[i] = "CR"
                  /\ body' = SubSeq(body, 1, i - 1) \o <<"SP">> \o SubSeq(body, i, Len(body))
    <3>1. PICK i \in DOMAIN body :
            /\ body[i] = "SP" \/ body[i] = "CR"
            /\ body' = SubSeq(body, 1, i - 1) \o <<"SP">> \o SubSeq(body, i, Len(body))
      BY <2>1
    <3>2. i \in 1 .. Len(body)
      BY <2>0
    <3>3. body' \in Seq(Bytes) /\ RelaxedBody(body') = RelaxedBody(body)
      BY <2>0, <3>1, <3>2, SpaceBefore
    <3>4. CanonicalBody(can.body, body') = CanonicalBody(can.body, body)
      BY <2>1, <3>3 DEF CanonicalBody
    <3> QED
      BY <1>7, <2>0, <3>3, <3>4, BodyTransit DEF ChangeSpace, InTransit
  <2>2. CASE UNCHANGED body
    BY <1>7, <2>0, <2>2, BodyTransit DEF ChangeSpace, InTransit
  <2> QED
    BY <1>7, <2>1, <2>2 DEF ChangeSpace
<1>8. CASE Arrive
  BY <1>8, BodyTransit DEF Arrive, InTransit, BodyInv
<1>9. CASE UNCHANGED vars
  BY <1>9 DEF BodyInv, vars, hashVars
<1> QED
  BY <1>1, <1>2, <1>3, <1>4, <1>5, <1>6, <1>7, <1>8, <1>9 DEF Next

LEMMA BodyInvariant == Spec => []BodyInv
BY BodyInit, BodyNext, PTL DEF Spec

LEMMA ImpliesWritesDoNotMatter == BodyInv => WritesDoNotMatter
<1> SUFFICES ASSUME BodyInv PROVE WritesDoNotMatter
  OBVIOUS
<1>1. SubSeq(body, 1, fed) \in Seq(Bytes)
  BY SplitAt DEF BodyInv
<1> QED
  BY <1>1, WriterCloses DEF BodyInv, WritesDoNotMatter

\* However a body is cut into writes, a canonicalizer that is closed has written
\* what the algorithm makes of the bytes so far (canonical.go:61-174).
THEOREM WritesDoNotMatterHolds == Spec => []WritesDoNotMatter
BY BodyInvariant, ImpliesWritesDoNotMatter, PTL

SameBody == side = "done" => verified.body = signed.body

LEMMA ImpliesSameBody == BodyInv => SameBody
BY DEF BodyInv, SameBody

---------------------------------------------------------------------------
(* Picking from the bottom.                                                *)

Above(N, i) == {j \in N : j > i}

\* A set of positions that is not empty has a last one.
LEMMA Greatest ==
    ASSUME NEW l \in Nat, NEW T, T \subseteq 1 .. l, T # {}
    PROVE  \E x \in T : \A y \in T : y <= x
<1> DEFINE U == {l - x : x \in T}
<1>1. U \subseteq Nat /\ U # {}
  <2>1. ASSUME NEW x \in T PROVE l - x \in Nat
    <3>1. x \in 1 .. l
      OBVIOUS
    <3> QED
      BY ONLY <3>1, l \in Nat
  <2> QED
    BY <2>1
<1>2. PICK u \in U : \A v \in U : u <= v
  <2> HIDE DEF U
  <2> QED
    BY <1>1, LeastNat
<1>3. PICK x \in T : u = l - x
  OBVIOUS
<1>4. ASSUME NEW y \in T PROVE y <= x
  <2>1. l - y \in U /\ x \in 1 .. l /\ y \in 1 .. l
    OBVIOUS
  <2>2. l - x <= l - y
    BY <1>2, <1>3, <2>1
  <2> QED
    BY ONLY <2>1, <2>2, l \in Nat
<1> QED
  BY <1>4

LEMMA Positions ==
    ASSUME NEW l \in Nat, NEW N, N \subseteq 1 .. l
    PROVE  /\ IsFiniteSet(N) /\ Cardinality(N) \in Nat
           /\ \A i : /\ IsFiniteSet(Above(N, i)) /\ Cardinality(Above(N, i)) \in Nat
                     /\ Cardinality(Above(N, i)) <= Cardinality(N)
           /\ \A i \in N : Cardinality(Above(N, i)) < Cardinality(N)
<1>1. IsFiniteSet(1 .. l)
  BY FS_Interval
<1>2. IsFiniteSet(N) /\ Cardinality(N) \in Nat
  BY <1>1, FS_Subset, FS_CardinalityType
<1>3. ASSUME NEW i
      PROVE  /\ IsFiniteSet(Above(N, i)) /\ Cardinality(Above(N, i)) \in Nat
             /\ Cardinality(Above(N, i)) <= Cardinality(N)
             /\ Cardinality(N) = Cardinality(Above(N, i)) => N = Above(N, i)
  <2>1. Above(N, i) \in SUBSET N
    BY DEF Above
  <2> QED
    BY <1>2, <2>1, FS_Subset, FS_CardinalityType
<1>4. ASSUME NEW i \in N PROVE Cardinality(Above(N, i)) < Cardinality(N)
  <2>1. i \notin Above(N, i)
    BY DEF Above
  <2>2. Cardinality(N) # Cardinality(Above(N, i))
    BY <1>3, <2>1
  <2> QED
    BY ONLY <1>2, <1>3, <2>2
<1> QED
  BY <1>2, <1>3, <1>4

\* No two positions have as many above them.
LEMMA AboveUnique ==
    ASSUME NEW l \in Nat, NEW N, N \subseteq 1 .. l, NEW i \in N, NEW j \in N,
           Cardinality(Above(N, i)) = Cardinality(Above(N, j))
    PROVE  i = j
<1>1. ASSUME NEW x \in N, NEW y \in N, x < y
      PROVE  Cardinality(Above(N, x)) # Cardinality(Above(N, y))
  <2>1. x \in 1 .. l /\ y \in 1 .. l /\ \A z \in N : z \in 1 .. l
    OBVIOUS
  <2>2. y \in Above(N, x) /\ y \notin Above(N, y)
    BY <1>1, <2>1 DEF Above
  <2>3. Above(N, y) \in SUBSET Above(N, x)
    <3>1. ASSUME NEW z \in N, z > y PROVE z > x
      <4>1. z \in 1 .. l /\ x < y /\ x \in 1 .. l /\ y \in 1 .. l
        BY <1>1, <2>1
      <4> QED
        BY ONLY <3>1, <4>1
    <3> QED
      BY <3>1 DEF Above
  <2>4. IsFiniteSet(Above(N, x))
    BY Positions
  <2> QED
    BY <2>2, <2>3, <2>4, FS_Subset
<1>2. i < j \/ j < i \/ i = j
  <2>1. i \in 1 .. l /\ j \in 1 .. l
    OBVIOUS
  <2> QED
    BY ONLY <2>1
<1> QED
  BY <1>1, <1>2

\* For every number smaller than theirs a position has so many above it.
LEMMA AboveExists ==
    ASSUME NEW l \in Nat, NEW N, N \subseteq 1 .. l, NEW at \in Nat, at < Cardinality(N)
    PROVE  \E i \in N : Cardinality(Above(N, i)) = at
<1> DEFINE S == {n \in 0 .. at : \E i \in N : Cardinality(Above(N, i)) = n}
<1>0. IsFiniteSet(N) /\ Cardinality(N) \in Nat /\ N # {}
  <2>1. IsFiniteSet(N) /\ Cardinality(N) \in Nat
    BY Positions
  <2>2. Cardinality(N) # 0
    BY ONLY <2>1, at \in Nat, at < Cardinality(N)
  <2> QED
    BY <2>1, <2>2, FS_EmptySet
<1>1. 0 \in S
  <2>1. PICK x \in N : \A y \in N : y <= x
    BY <1>0, Greatest
  <2>2. Above(N, x) = {}
    <3>1. \A y \in N : x \in 1 .. l /\ y \in 1 .. l
      OBVIOUS
    <3>2. ASSUME NEW y \in N PROVE ~(y > x)
      <4>1. y <= x /\ x \in 1 .. l /\ y \in 1 .. l
        BY <2>1, <3>1
      <4> QED
        BY ONLY <4>1
    <3> QED
      BY <3>2 DEF Above
  <2> QED
    BY <2>2, FS_EmptySet
<1>2. ASSUME NEW n \in 0 .. at - 1, n \in S PROVE n + 1 \in S
  <2>1. PICK i \in N : Cardinality(Above(N, i)) = n
    BY <1>2
  <2> DEFINE A == Above(N, i) \cup {i}
  <2>2. i \notin Above(N, i) /\ A \subseteq N
    BY DEF Above
  <2>3. IsFiniteSet(A) /\ Cardinality(A) = n + 1
    <3>1. IsFiniteSet(Above(N, i))
      BY Positions
    <3> QED
      BY <2>1, <2>2, <3>1, FS_AddElement
  <2>4. N \ A # {}
    <3>1. n + 1 # Cardinality(N)
      BY ONLY <1>0, n \in 0 .. at - 1, at \in Nat, at < Cardinality(N)
    <3> QED
      BY <2>2, <2>3, <3>1
  <2>5. PICK x \in N \ A : \A y \in N \ A : y <= x
    <3>1. N \ A \subseteq 1 .. l
      OBVIOUS
    <3> HIDE DEF A
    <3> QED
      BY <2>4, <3>1, Greatest
  <2>6. Above(N, x) = A
    <3>0. \A y \in N : y \in 1 .. l
      OBVIOUS
    <3>1. x \in N /\ x \in 1 .. l /\ i \in 1 .. l /\ x # i /\ ~(x > i)
      BY DEF Above
    <3>2. x < i
      BY ONLY <3>1
    <3>3. ASSUME NEW y \in A PROVE y \in N /\ y > x
      <4>1. y \in N /\ y \in 1 .. l /\ (y = i \/ y > i)
        BY DEF Above
      <4> QED
        BY ONLY <3>1, <3>2, <4>1
    <3>4. ASSUME NEW y \in N, y > x PROVE y \in A
      <4>1. y \notin N \ A
        <5>1. y \in 1 .. l /\ ~(y <= x)
          BY ONLY <3>0, <3>1, <3>4
        <5> QED
          BY <2>5, <5>1
      <4> QED
        BY <4>1
    <3> QED
      BY <3>3, <3>4 DEF Above
  <2>7. n + 1 \in 0 .. at
    BY ONLY at \in Nat, n \in 0 .. at - 1
  <2> QED
    BY <2>3, <2>5, <2>6, <2>7
<1>3. at \in S
  <2> HIDE DEF S
  <2> QED
    BY ONLY at \in Nat, <1>1, <1>2, BoundedInduction
<1> QED
  BY <1>3

\* Positions moved down by a.
LEMMA Shifted ==
    ASSUME NEW N, N \subseteq Nat, IsFiniteSet(N), NEW a \in Nat
    PROVE  IsFiniteSet({a + i : i \in N}) /\ Cardinality({a + i : i \in N}) = Cardinality(N)
<1> DEFINE T == {a + i : i \in N}
           f == [i \in N |-> a + i]
<1>1. f \in [N -> T]
  OBVIOUS
<1>2. ASSUME NEW i \in N, NEW j \in N, f[i] = f[j] PROVE i = j
  <2>1. i \in Nat /\ j \in Nat /\ a + i = a + j
    BY <1>2
  <2> QED
    BY ONLY <2>1, a \in Nat
<1>3. \A t \in T : \E i \in N : f[i] = t
  OBVIOUS
<1> HIDE DEF f, T
<1>4. f \in Bijection(N, T)
  BY <1>1, <1>2, <1>3 DEF Bijection, Injection, Surjection, IsInjective
<1>5. ExistsBijection(N, T)
  BY <1>4 DEF ExistsBijection
<1>6. IsFiniteSet(T) /\ Cardinality(T) = Cardinality(N)
  BY <1>5, FS_Bijection
<1> QED
  BY <1>6 DEF T

---------------------------------------------------------------------------
(* The fields that are hashed.                                             *)

FieldNames == Names \cup {"dkim-signature"}
Field == [name : FieldNames, form : Forms, from : {"author", "hop"}]

LEMMA NamedType ==
    ASSUME NEW g \in Seq(Field), NEW n
    PROVE  /\ Len(g) \in Nat /\ DOMAIN g = 1 .. Len(g) /\ Named(g, n) \subseteq 1 .. Len(g)
           /\ IsFiniteSet(Named(g, n)) /\ Cardinality(Named(g, n)) \in Nat
<1>1. Len(g) \in Nat /\ DOMAIN g = 1 .. Len(g)
  OBVIOUS
<1>2. Named(g, n) \subseteq 1 .. Len(g)
  BY <1>1 DEF Named
<1> QED
  BY <1>1, <1>2, Positions

LEMMA PickIs ==
    ASSUME NEW g \in Seq(Field), NEW n, NEW at \in Nat
    PROVE  /\ Pick(g, n, at) = 0 <=> at >= Cardinality(Named(g, n))
           /\ Pick(g, n, at) # 0 =>
                /\ Pick(g, n, at) \in Named(g, n)
                /\ Cardinality(Above(Named(g, n), Pick(g, n, at))) = at
           /\ \A i \in Named(g, n) : Cardinality(Above(Named(g, n), i)) = at => Pick(g, n, at) = i
<1> DEFINE N == Named(g, n)
           F == {i \in N : Cardinality(Above(N, i)) = at}
           l == Len(g)
<1>1. /\ l \in Nat /\ N \subseteq 1 .. l
      /\ IsFiniteSet(N) /\ Cardinality(N) \in Nat
  BY NamedType
<1>2. Pick(g, n, at) = IF F = {} THEN 0 ELSE CHOOSE i \in F : TRUE
  BY DEF Pick, Above
<1> HIDE DEF N, l
<1>3. F = {} <=> at >= Cardinality(N)
  <2>1. CASE at < Cardinality(N)
    <3>0. \E i \in N : Cardinality(Above(N, i)) = at
      BY ONLY <1>1, <2>1, at \in Nat, AboveExists
    <3>1. F # {}
      BY <3>0
    <3>2. ~(at >= Cardinality(N))
      BY ONLY <1>1, <2>1, at \in Nat
    <3> QED
      BY <3>1, <3>2
  <2>2. CASE ~(at < Cardinality(N))
    <3>1. at >= Cardinality(N)
      BY ONLY <1>1, <2>2, at \in Nat
    <3>2. ASSUME NEW i \in N PROVE Cardinality(Above(N, i)) # at
      <4>1. Cardinality(Above(N, i)) < Cardinality(N)
        BY <1>1, Positions
      <4> QED
        BY ONLY <2>2, <4>1
    <3> QED
      BY <3>1, <3>2
  <2> QED
    BY <2>1, <2>2
<1>4. ASSUME NEW i \in N, NEW j \in N,
             Cardinality(Above(N, i)) = at, Cardinality(Above(N, j)) = at
      PROVE  i = j
  BY <1>1, <1>4, AboveUnique
<1>5. ASSUME F # {} PROVE Pick(g, n, at) \in F /\ Pick(g, n, at) # 0
  <2>1. Pick(g, n, at) \in F
    BY <1>2, <1>5
  <2>2. Pick(g, n, at) \in 1 .. l
    BY <1>1, <2>1
  <2> QED
    BY ONLY <2>1, <2>2, <1>1
<1>6. Pick(g, n, at) = 0 <=> at >= Cardinality(N)
  BY <1>2, <1>3, <1>5
<1>7. Pick(g, n, at) # 0 => Pick(g, n, at) \in N /\ Cardinality(Above(N, Pick(g, n, at))) = at
  BY <1>2, <1>5
<1>8. ASSUME NEW i \in N, Cardinality(Above(N, i)) = at PROVE Pick(g, n, at) = i
  <2>1. F # {}
    BY <1>8
  <2> QED
    BY <1>4, <1>5, <1>8, <2>1
<1> QED
  BY <1>6, <1>7, <1>8 DEF N

\* How often the first k keys name n.
Times(ks, k, n) == Cardinality({j \in 1 .. k : ks[j] = n})

LEMMA TimesType ==
    ASSUME NEW ks, NEW k \in Nat, NEW n
    PROVE  /\ Times(ks, k, n) \in Nat
           /\ Times(ks, 0, n) = 0
           /\ Times(ks, k + 1, n) = Times(ks, k, n) + (IF ks[k + 1] = n THEN 1 ELSE 0)
           /\ \A m \in Nat : m >= k => Times(ks, m, n) >= Times(ks, k, n) /\ Times(ks, m, n) \in Nat
<1> DEFINE A(m) == {j \in 1 .. m : ks[j] = n}
<1>1. ASSUME NEW m \in Nat PROVE IsFiniteSet(A(m)) /\ Times(ks, m, n) \in Nat
  <2>1. A(m) \subseteq 1 .. m
    OBVIOUS
  <2> QED
    BY <2>1, Positions DEF Times
<1>2. Times(ks, 0, n) = 0
  <2>1. A(0) = {}
    OBVIOUS
  <2> QED
    BY <2>1, FS_EmptySet DEF Times
<1>3. Times(ks, k + 1, n) = Times(ks, k, n) + (IF ks[k + 1] = n THEN 1 ELSE 0)
  <2>0. k + 1 \in 1 .. k + 1 /\ k + 1 \notin 1 .. k /\ \A j \in 1 .. k + 1 : j \in 1 .. k \/ j = k + 1
    OBVIOUS
  <2>00. \A j \in 1 .. k : j \in 1 .. k + 1
    OBVIOUS
  <2>1. CASE ks[k + 1] = n
    <3>1. A(k + 1) = A(k) \cup {k + 1} /\ k + 1 \notin A(k)
      BY <2>0, <2>00, <2>1
    <3> HIDE DEF A
    <3>2. Cardinality(A(k + 1)) = Cardinality(A(k)) + 1
      BY <1>1, <3>1, FS_AddElement
    <3> QED
      BY <2>1, <3>2 DEF Times, A
  <2>2. CASE ks[k + 1] # n
    <3>1. A(k + 1) = A(k)
      BY <2>0, <2>00, <2>2
    <3>2. Times(ks, k, n) \in Nat /\ Times(ks, k + 1, n) = Times(ks, k, n)
      BY <1>1, <3>1 DEF Times
    <3> QED
      BY <2>2, <3>2
  <2> QED
    BY <2>1, <2>2
<1>4. ASSUME NEW m \in Nat, m >= k PROVE Times(ks, m, n) >= Times(ks, k, n)
  <2>1. A(k) \in SUBSET A(m)
    BY <1>4
  <2> HIDE DEF A
  <2>2. Cardinality(A(k)) <= Cardinality(A(m)) /\ Cardinality(A(k)) \in Nat /\ Cardinality(A(m)) \in Nat
    BY <1>1, <2>1, FS_Subset, FS_CardinalityType
  <2>3. Cardinality(A(m)) >= Cardinality(A(k))
    BY ONLY <2>2
  <2> QED
    BY <2>3 DEF Times, A
<1> QED
  BY <1>1, <1>2, <1>3, <1>4

\* The field that key k picks, or 0.
Choice(g, ks, k) == Pick(g, ks[k], Times(ks, k - 1, ks[k]))

Pieces(g, ks) ==
    [k \in 1 .. Len(ks) |-> IF Choice(g, ks, k) = 0 THEN <<>> ELSE <<g[Choice(g, ks, k)]>>]

CatStep == [s \in Seq(Field) |-> [t \in Seq(Field) |-> Cat(s, t)]]

\* The pieces up to k, one behind the other.
HashRun(p) == CHOOSE r : IsRun(Seq(Field), Seq(Field), CatStep, <<>>, p, r)
HashedAt(g, ks, k) == HashRun(Pieces(g, ks))[k]

LEMMA ChoiceType ==
    ASSUME NEW g \in Seq(Field), NEW ks \in Seq(Names), NEW k \in 1 .. Len(ks)
    PROVE  /\ k - 1 \in Nat /\ Times(ks, k - 1, ks[k]) \in Nat
           /\ Choice(g, ks, k) = 0 <=> Times(ks, k - 1, ks[k]) >= Cardinality(Named(g, ks[k]))
           /\ Choice(g, ks, k) # 0 =>
                 /\ Choice(g, ks, k) \in 1 .. Len(g) /\ g[Choice(g, ks, k)] \in Field
                 /\ g[Choice(g, ks, k)].name = ks[k]
<1>1. k - 1 \in Nat
  OBVIOUS
<1> DEFINE n == ks[k]
           at == Times(ks, k - 1, n)
           i == Choice(g, ks, k)
<1>2. at \in Nat
  BY <1>1, TimesType
<1>3. i = Pick(g, n, at)
  BY DEF Choice
<1> HIDE DEF n, at, i
<1>4. i = 0 <=> at >= Cardinality(Named(g, n))
  BY <1>2, <1>3, PickIs
<1>5. i # 0 => i \in Named(g, n)
  BY <1>2, <1>3, PickIs
<1>6. i # 0 => i \in 1 .. Len(g) /\ g[i].name = n
  BY <1>5, NamedType DEF Named
<1>7. i # 0 => g[i] \in Field
  BY <1>6
<1> QED
  BY <1>1, <1>2, <1>4, <1>6, <1>7 DEF n, at, i

LEMMA PiecesType ==
    ASSUME NEW g \in Seq(Field), NEW ks \in Seq(Names)
    PROVE  Pieces(g, ks) \in Seq(Seq(Field)) /\ Len(Pieces(g, ks)) = Len(ks) /\ Len(ks) \in Nat
<1>1. ASSUME NEW k \in 1 .. Len(ks)
      PROVE  (IF Choice(g, ks, k) = 0 THEN <<>> ELSE <<g[Choice(g, ks, k)]>>) \in Seq(Field)
  BY ChoiceType
<1>2. Len(ks) \in Nat
  OBVIOUS
<1> QED
  BY <1>1, <1>2 DEF Pieces

LEMMA HashedSteps ==
    ASSUME NEW g \in Seq(Field), NEW ks \in Seq(Names)
    PROVE  /\ HashedAt(g, ks, 0) = <<>>
           /\ \A k \in 0 .. Len(ks) : HashedAt(g, ks, k) \in Seq(Field)
           /\ \A k \in 1 .. Len(ks) :
                HashedAt(g, ks, k) =
                  IF Choice(g, ks, k) = 0 THEN HashedAt(g, ks, k - 1)
                  ELSE Cat(HashedAt(g, ks, k - 1), <<g[Choice(g, ks, k)]>>)
<1> DEFINE p == Pieces(g, ks)
           r == HashRun(p)
<1>1. p \in Seq(Seq(Field)) /\ Len(p) = Len(ks) /\ Len(ks) \in Nat
  BY PiecesType
<1>2. CatStep \in [Seq(Field) -> [Seq(Field) -> Seq(Field)]]
  BY CatType DEF CatStep
<1>3. <<>> \in Seq(Field)
  OBVIOUS
<1>4. IsRun(Seq(Field), Seq(Field), CatStep, <<>>, p, r)
  <2> HIDE DEF p
  <2>1. \E x : IsRun(Seq(Field), Seq(Field), CatStep, <<>>, p, x)
    BY <1>1, <1>2, <1>3, RunExists
  <2> QED
    BY <2>1 DEF HashRun
<1> HIDE DEF r
<1>5. r[0] = <<>> /\ r \in [0 .. Len(ks) -> Seq(Field)]
  BY <1>1, <1>4 DEF IsRun
<1>6. ASSUME NEW k \in 1 .. Len(ks)
      PROVE  r[k] = IF Choice(g, ks, k) = 0 THEN r[k - 1] ELSE Cat(r[k - 1], <<g[Choice(g, ks, k)]>>)
  <2>1. r[k] = CatStep[r[k - 1]][p[k]]
    BY <1>1, <1>4 DEF IsRun
  <2>2. k - 1 \in 0 .. Len(ks)
    BY ONLY <1>1, k \in 1 .. Len(ks)
  <2>3. r[k - 1] \in Seq(Field)
    BY ONLY <1>5, <2>2
  <2>4. p[k] \in Seq(Field) /\ p[k] = IF Choice(g, ks, k) = 0 THEN <<>> ELSE <<g[Choice(g, ks, k)]>>
    <3>1. p[k] = IF Choice(g, ks, k) = 0 THEN <<>> ELSE <<g[Choice(g, ks, k)]>>
      BY DEF Pieces
    <3> HIDE DEF p
    <3>2. p[k] \in Seq(Field)
      BY <1>1
    <3> QED
      BY <3>1, <3>2
  <2> HIDE DEF p
  <2>5. r[k] = Cat(r[k - 1], p[k])
    BY <2>1, <2>3, <2>4 DEF CatStep
  <2>6. Cat(r[k - 1], <<>>) = r[k - 1]
    BY <2>3, CatEmpty
  <2> QED
    BY <2>4, <2>5, <2>6
<1> QED
  BY <1>5, <1>6 DEF HashedAt, r

LEMMA NamedAppend ==
    ASSUME NEW s \in Seq(Field), NEW x \in Field, NEW n
    PROVE  Cardinality(Named(Cat(s, <<x>>), n)) =
             Cardinality(Named(s, n)) + (IF x.name = n THEN 1 ELSE 0)
<1> DEFINE t == Cat(s, <<x>>)
           l == Len(s)
<1>1. /\ l \in Nat /\ t \in Seq(Field) /\ Len(t) = l + 1
      /\ \A i \in 1 .. l : t[i] = s[i]
      /\ t[l + 1] = x
  <2> DEFINE one == <<x>>
  <2>1. one \in Seq(Field) /\ Len(one) = 1 /\ one[1] = x /\ 1 \in 1 .. Len(one)
    OBVIOUS
  <2> HIDE DEF one
  <2>2. Cat(s, one) \in Seq(Field) /\ Len(Cat(s, one)) = l + Len(one)
    BY <2>1, CatType
  <2>3. /\ l \in Nat /\ \A i \in 1 .. l : Cat(s, one)[i] = s[i]
        /\ Cat(s, one)[l + 1] = one[1]
    BY <2>1, CatAt
  <2> QED
    BY <2>1, <2>2, <2>3 DEF one
<1> HIDE DEF t, l
<1>2. /\ IsFiniteSet(Named(s, n)) /\ Cardinality(Named(s, n)) \in Nat
      /\ DOMAIN s = 1 .. l /\ DOMAIN t = 1 .. l + 1 /\ Named(s, n) \subseteq 1 .. l
  <2>1. /\ IsFiniteSet(Named(s, n)) /\ Cardinality(Named(s, n)) \in Nat
        /\ DOMAIN s = 1 .. l /\ Named(s, n) \subseteq 1 .. l
    BY NamedType DEF l
  <2>2. DOMAIN t = 1 .. l + 1
    BY <1>1, NamedType
  <2> QED
    BY <2>1, <2>2
<1>3. /\ \A i \in 1 .. l : i \in 1 .. l + 1 /\ i # l + 1
      /\ \A i \in 1 .. l + 1 : i \in 1 .. l \/ i = l + 1
      /\ l + 1 \in 1 .. l + 1
  BY ONLY <1>1
<1>4. CASE x.name = n
  <2>1. Named(t, n) = Named(s, n) \cup {l + 1} /\ l + 1 \notin Named(s, n)
    BY <1>1, <1>2, <1>3, <1>4 DEF Named
  <2>2. Cardinality(Named(t, n)) = Cardinality(Named(s, n)) + 1
    BY <1>2, <2>1, FS_AddElement
  <2> QED
    BY <1>4, <2>2 DEF t
<1>5. CASE x.name # n
  <2>1. Named(t, n) = Named(s, n)
    BY <1>1, <1>2, <1>3, <1>5 DEF Named
  <2> QED
    BY <1>2, <1>5, <2>1 DEF t
<1> QED
  BY <1>4, <1>5

Lesser(a, b) == IF a < b THEN a ELSE b

\* Of a name so many fields are hashed as are there, and asked for.
LEMMA HashedCount ==
    ASSUME NEW g \in Seq(Field), NEW ks \in Seq(Names), NEW n, NEW m \in 0 .. Len(ks)
    PROVE  Cardinality(Named(HashedAt(g, ks, m), n)) = Lesser(Times(ks, m, n), Cardinality(Named(g, n)))
<1> DEFINE S == {k \in 0 .. m : Cardinality(Named(HashedAt(g, ks, k), n))
                                  = Lesser(Times(ks, k, n), Cardinality(Named(g, n)))}
<1>0. Len(ks) \in Nat /\ m \in Nat /\ Cardinality(Named(g, n)) \in Nat
  BY NamedType
<1>1. 0 \in S
  <2>1. HashedAt(g, ks, 0) = <<>> /\ Times(ks, 0, n) = 0
    BY HashedSteps, TimesType
  <2>2. Named(<<>>, n) = {}
    BY DEF Named
  <2>3. Lesser(0, Cardinality(Named(g, n))) = 0
    BY <1>0 DEF Lesser
  <2>4. Cardinality({}) = 0 /\ 0 \in 0 .. m
    BY <1>0, FS_EmptySet
  <2> QED
    BY <2>1, <2>2, <2>3, <2>4
<1>2. ASSUME NEW k \in 0 .. m - 1, k \in S PROVE k + 1 \in S
  <2> DEFINE i == Choice(g, ks, k + 1)
             s == HashedAt(g, ks, k)
             u == HashedAt(g, ks, k + 1)
             c == Cardinality(Named(g, n))
             t == Times(ks, k, n)
  <2>1. /\ k \in Nat /\ k + 1 \in 1 .. Len(ks) /\ (k + 1) - 1 = k /\ k \in 0 .. Len(ks)
        /\ k + 1 \in 0 .. m
    BY ONLY <1>0, k \in 0 .. m - 1, m \in 0 .. Len(ks)
  <2>2. s \in Seq(Field) /\ u = IF i = 0 THEN s ELSE Cat(s, <<g[i]>>)
    BY <2>1, HashedSteps
  <2>3. Cardinality(Named(s, n)) = Lesser(t, c)
    BY <1>2
  <2>4. /\ i = 0 <=> Times(ks, k, ks[k + 1]) >= Cardinality(Named(g, ks[k + 1]))
        /\ i # 0 => g[i] \in Field /\ g[i].name = ks[k + 1]
    BY <2>1, ChoiceType
  <2>5. t \in Nat /\ Times(ks, k + 1, n) = t + (IF ks[k + 1] = n THEN 1 ELSE 0)
    BY <2>1, TimesType
  <2>6. ks[k + 1] = n => (i = 0 <=> t >= c)
    BY <2>4
  <2> HIDE DEF i, s, u, c, t
  <2>7. Cardinality(Named(u, n)) = Lesser(Times(ks, k + 1, n), c)
    <3>0. c \in Nat
      BY <1>0 DEF c
    <3>1. CASE i = 0
      <4>1. Lesser(Times(ks, k + 1, n), c) = Lesser(t, c)
        <5>1. CASE ks[k + 1] = n
          <6>1. t >= c /\ Times(ks, k + 1, n) = t + 1
            BY <2>5, <2>6, <3>1, <5>1
          <6> QED
            BY ONLY <2>5, <3>0, <6>1 DEF Lesser
        <5>2. CASE ks[k + 1] # n
          <6>1. Times(ks, k + 1, n) = t
            BY <2>5, <5>2
          <6> QED
            BY <6>1
        <5> QED
          BY <5>1, <5>2
      <4> QED
        BY <2>2, <2>3, <3>1, <4>1
    <3>2. CASE i # 0
      <4>1. Cardinality(Named(u, n)) = Lesser(t, c) + (IF ks[k + 1] = n THEN 1 ELSE 0)
        BY <2>2, <2>3, <2>4, <3>2, NamedAppend
      <4>2. CASE ks[k + 1] = n
        <5>1. t < c /\ Times(ks, k + 1, n) = t + 1 /\ Cardinality(Named(u, n)) = Lesser(t, c) + 1
          <6>1. ~(t >= c)
            BY <2>6, <3>2, <4>2
          <6>2. t < c
            BY ONLY <2>5, <3>0, <6>1
          <6> QED
            BY <2>5, <4>1, <4>2, <6>2
        <5>2. Lesser(t, c) = t
          BY <5>1 DEF Lesser
        <5>3. Lesser(t + 1, c) = t + 1
          BY ONLY <2>5, <3>0, <5>1 DEF Lesser
        <5> QED
          BY <5>1, <5>2, <5>3
      <4>3. CASE ks[k + 1] # n
        <5>1. Times(ks, k + 1, n) = t /\ Lesser(t, c) \in Nat
          BY <2>5, <3>0, <4>3 DEF Lesser
        <5> QED
          BY <4>1, <4>3, <5>1
      <4> QED
        BY <4>2, <4>3
    <3> QED
      BY <3>1, <3>2
  <2> QED
    BY <2>1, <2>7 DEF u, c
<1>3. m \in S
  <2> HIDE DEF S
  <2> QED
    BY ONLY <1>0, <1>1, <1>2, BoundedInduction
<1> QED
  BY <1>3

---------------------------------------------------------------------------
(* Fields on top.                                                          *)

\* The fields below the first a.
Below(g, a) == [i \in 1 .. Len(g) - a |-> g[a + i]]

LEMMA BelowType ==
    ASSUME NEW g \in Seq(Field), NEW a \in 0 .. Len(g)
    PROVE  /\ Below(g, a) \in Seq(Field) /\ Len(Below(g, a)) = Len(g) - a
           /\ Len(g) \in Nat /\ Len(g) - a \in Nat /\ a \in Nat
           /\ \A i \in 1 .. Len(g) - a : a + i \in 1 .. Len(g) /\ Below(g, a)[i] = g[a + i]
<1>1. Len(g) \in Nat
  OBVIOUS
<1>2. Len(g) - a \in Nat /\ a \in Nat
  BY ONLY <1>1, a \in 0 .. Len(g)
<1>3. ASSUME NEW i \in 1 .. Len(g) - a PROVE a + i \in 1 .. Len(g)
  BY ONLY <1>1, <1>2, <1>3, i \in 1 .. Len(g) - a
<1>4. \A i \in 1 .. Len(g) - a : g[a + i] \in Field
  BY <1>3
<1>5. Below(g, a) \in Seq(Field) /\ Len(Below(g, a)) = Len(g) - a
  BY <1>2, <1>4 DEF Below
<1> QED
  BY <1>1, <1>2, <1>3, <1>5 DEF Below

\* A field has as many of its name above the position in the whole header.
LEMMA BelowNamed ==
    ASSUME NEW g \in Seq(Field), NEW a \in 0 .. Len(g), NEW n
    PROVE  /\ {i \in Named(g, n) : i > a} = {a + i : i \in Named(Below(g, a), n)}
           /\ Cardinality({i \in Named(g, n) : i > a}) = Cardinality(Named(Below(g, a), n))
           /\ \A i \in Named(Below(g, a), n) :
                /\ a + i \in Named(g, n)
                /\ Cardinality(Above(Named(g, n), a + i)) = Cardinality(Above(Named(Below(g, a), n), i))
<1> DEFINE b == Below(g, a)
           N == Named(b, n)
           M == Named(g, n)
           l == Len(g)
<1>1. /\ b \in Seq(Field) /\ Len(b) = l - a /\ l \in Nat /\ l - a \in Nat /\ a \in Nat
      /\ \A i \in 1 .. l - a : a + i \in 1 .. l /\ b[i] = g[a + i]
  BY BelowType
<1>2. DOMAIN g = 1 .. l /\ M \subseteq 1 .. l
  BY NamedType
<1> HIDE DEF b
<1>3. DOMAIN b = 1 .. l - a /\ N \subseteq 1 .. l - a /\ IsFiniteSet(N)
  BY <1>1, NamedType
<1> HIDE DEF l
<1>4. ASSUME NEW i \in 1 .. l - a PROVE i \in N <=> a + i \in M
  BY <1>1, <1>2, <1>3 DEF Named
<1>5. ASSUME NEW j \in M, j > a PROVE j - a \in 1 .. l - a /\ a + (j - a) = j
  <2>1. j \in 1 .. l
    BY <1>2
  <2> QED
    BY ONLY <1>1, <1>5, <2>1
<1> HIDE DEF N, M
<1>6. ASSUME NEW i \in N PROVE i \in 1 .. l - a /\ i \in Nat /\ i > 0 /\ a + i > a /\ a + i \in M
  <2>1. i \in 1 .. l - a
    BY <1>3
  <2>2. a + i \in M
    BY <1>4, <2>1
  <2>3. i \in Nat /\ i > 0 /\ a + i > a
    BY ONLY <1>1, <2>1
  <2> QED
    BY <2>1, <2>2, <2>3
<1>7. {i \in M : i > a} = {a + i : i \in N}
  <2>1. ASSUME NEW j \in M, j > a PROVE \E i \in N : j = a + i
    BY <1>4, <1>5, <2>1
  <2> QED
    BY <1>6, <2>1
<1>8. N \subseteq Nat
  BY <1>6
<1>9. Cardinality({i \in M : i > a}) = Cardinality(N)
  BY <1>1, <1>3, <1>7, <1>8, Shifted
<1>10. ASSUME NEW i \in N PROVE Cardinality(Above(M, a + i)) = Cardinality(Above(N, i))
  <2>1. Above(M, a + i) = {a + j : j \in Above(N, i)}
    <3>1. ASSUME NEW j \in M, j > a + i PROVE \E x \in Above(N, i) : j = a + x
      <4>1. j \in Int /\ i \in Nat
        BY <1>2, <1>6
      <4>2. j > a
        BY ONLY <1>1, <3>1, <4>1
      <4>3. j - a \in N /\ a + (j - a) = j
        BY <1>4, <1>5, <4>2
      <4>4. j - a > i
        BY ONLY <1>1, <3>1, <4>1
      <4> QED
        BY <4>3, <4>4 DEF Above
    <3>2. ASSUME NEW x \in Above(N, i) PROVE a + x \in M /\ a + x > a + i
      <4>1. x \in N /\ x > i /\ x \in Nat /\ i \in Nat
        BY <1>6 DEF Above
      <4>2. a + x > a + i
        BY ONLY <1>1, <4>1
      <4> QED
        BY <1>6, <4>1, <4>2
    <3> QED
      BY <3>1, <3>2 DEF Above
  <2>2. Above(N, i) \subseteq Nat /\ IsFiniteSet(Above(N, i))
    <3>1. Above(N, i) \subseteq Nat
      BY <1>8 DEF Above
    <3>2. IsFiniteSet(Above(N, i))
      BY <1>1, <1>3, Positions
    <3> QED
      BY <3>1, <3>2
  <2> QED
    BY <1>1, <2>1, <2>2, Shifted
<1> QED
  BY <1>6, <1>7, <1>9, <1>10 DEF N, M, b

\* Each name on top is the name of enough fields below.
EnoughBelow(g, a, ks) ==
    \A i \in 1 .. a :
        Times(ks, Len(ks), g[i].name) <= Cardinality(Named(Below(g, a), g[i].name))

LEMMA SamePieces ==
    ASSUME NEW g \in Seq(Field), NEW a \in 0 .. Len(g), NEW ks \in Seq(Names), EnoughBelow(g, a, ks)
    PROVE  Pieces(g, ks) = Pieces(Below(g, a), ks)
<1> DEFINE b == Below(g, a)
<1>0. /\ b \in Seq(Field) /\ Len(b) = Len(g) - a /\ a \in Nat /\ Len(g) \in Nat
      /\ \A i \in 1 .. Len(g) - a : a + i \in 1 .. Len(g) /\ b[i] = g[a + i]
  BY BelowType
<1>1. ASSUME NEW k \in 1 .. Len(ks)
      PROVE  (IF Choice(g, ks, k) = 0 THEN <<>> ELSE <<g[Choice(g, ks, k)]>>)
               = (IF Choice(b, ks, k) = 0 THEN <<>> ELSE <<b[Choice(b, ks, k)]>>)
  <2> DEFINE n == ks[k]
             at == Times(ks, k - 1, n)
             i == Choice(b, ks, k)
             j == Choice(g, ks, k)
             N == Named(b, n)
             M == Named(g, n)
  <2>1. at \in Nat /\ i = Pick(b, n, at) /\ j = Pick(g, n, at)
    BY ChoiceType DEF Choice
  <2>2. /\ {x \in M : x > a} = {a + x : x \in N}
        /\ Cardinality({x \in M : x > a}) = Cardinality(N)
        /\ \A x \in N : a + x \in M /\ Cardinality(Above(M, a + x)) = Cardinality(Above(N, x))
    BY BelowNamed
  <2>3. /\ IsFiniteSet(M) /\ Cardinality(M) \in Nat /\ M \subseteq 1 .. Len(g)
        /\ Cardinality(N) \in Nat /\ N \subseteq 1 .. Len(g) - a
    <3>1. IsFiniteSet(M) /\ Cardinality(M) \in Nat /\ M \subseteq 1 .. Len(g)
      BY NamedType
    <3>2. Cardinality(N) \in Nat /\ N \subseteq 1 .. Len(g) - a
      BY <1>0, NamedType
    <3> QED
      BY <3>1, <3>2
  <2>4. Times(ks, Len(ks), n) > at
    <3>1. k - 1 \in Nat /\ k \in Nat /\ (k - 1) + 1 = k /\ Len(ks) \in Nat /\ Len(ks) >= k
      OBVIOUS
    <3> DEFINE m == k - 1
    <3>2. Times(ks, k, n) = at + 1
      <4>1. m \in Nat /\ m + 1 = k /\ at = Times(ks, m, n) /\ ks[k] = n
        BY <3>1
      <4> HIDE DEF m, n, at
      <4>2. Times(ks, m + 1, n) = Times(ks, m, n) + (IF ks[m + 1] = n THEN 1 ELSE 0)
        BY <4>1, TimesType
      <4> QED
        BY <4>1, <4>2
    <3>3. Times(ks, Len(ks), n) >= Times(ks, k, n) /\ Times(ks, Len(ks), n) \in Nat
      BY <3>1, TimesType
    <3> QED
      BY ONLY <2>1, <3>2, <3>3
  <2>5. Times(ks, Len(ks), n) \in Nat
    <3>1. Len(ks) \in Nat
      OBVIOUS
    <3> QED
      BY <3>1, TimesType
  <2>6. ASSUME NEW x \in 1 .. a, g[x].name = n PROVE Times(ks, Len(ks), n) <= Cardinality(N)
    BY <2>6 DEF EnoughBelow
  <2> HIDE DEF n, at, i, j, N, M, b
  <2>7. CASE i # 0
    <3>1. i \in N /\ Cardinality(Above(N, i)) = at
      BY <1>0, <2>1, <2>7, PickIs DEF N
    <3>2. a + i \in M /\ Cardinality(Above(M, a + i)) = at
      BY <2>2, <3>1
    <3>3. j = a + i
      BY <2>1, <3>2, PickIs DEF M
    <3>4. i \in 1 .. Len(g) - a
      BY <2>3, <3>1
    <3>5. j # 0 /\ g[j] = b[i]
      <4>1. a + i # 0
        BY ONLY <1>0, <3>4
      <4> QED
        BY <1>0, <3>3, <3>4, <4>1
    <3> QED
      BY <2>7, <3>5 DEF i, j
  <2>8. CASE i = 0
    <3>1. at >= Cardinality(N)
      BY <1>0, <2>1, <2>8, PickIs DEF N
    <3>2. ASSUME NEW x \in M PROVE x > a
      <4>1. x \in 1 .. Len(g) /\ g[x].name = n
        BY <2>3 DEF M, Named
      <4>2. CASE x \in 1 .. a
        <5>1. Times(ks, Len(ks), n) <= Cardinality(N)
          BY <2>6, <4>1, <4>2
        <5> QED
          BY ONLY <2>1, <2>3, <2>4, <2>5, <3>1, <5>1
      <4> QED
        BY ONLY <1>0, <4>1, <4>2
    <3>3. {x \in M : x > a} = M
      BY <3>2
    <3>4. at >= Cardinality(M)
      BY <2>2, <3>1, <3>3
    <3>5. j = 0
      BY <2>1, <3>4, PickIs DEF M
    <3> QED
      BY <2>8, <3>5 DEF i, j
  <2> QED
    BY <2>7, <2>8
<1> QED
  BY <1>1 DEF Pieces

\* When a name is asked for more often than there are fields of it below, a
\* field of that name on top is hashed.
LEMMA OtherHash ==
    ASSUME NEW g \in Seq(Field), NEW a \in 0 .. Len(g), NEW ks \in Seq(Names), NEW x \in 1 .. a,
           Times(ks, Len(ks), g[x].name) > Cardinality(Named(Below(g, a), g[x].name))
    PROVE  HashedAt(g, ks, Len(ks)) # HashedAt(Below(g, a), ks, Len(ks))
<1> DEFINE b == Below(g, a)
           n == g[x].name
           N == Named(b, n)
           M == Named(g, n)
           t == Times(ks, Len(ks), n)
<1>0. /\ b \in Seq(Field) /\ a \in Nat /\ Len(g) \in Nat /\ Len(ks) \in Nat
  BY BelowType
<1>1. x \in 1 .. Len(g) /\ ~(x > a)
  BY ONLY <1>0, a \in 0 .. Len(g), x \in 1 .. a
<1>2. x \in M
  BY <1>1, NamedType DEF Named
<1>3. IsFiniteSet(M) /\ Cardinality(M) \in Nat /\ Cardinality(N) \in Nat
  <2>1. IsFiniteSet(M) /\ Cardinality(M) \in Nat
    BY NamedType
  <2>2. Cardinality(N) \in Nat
    BY <1>0, NamedType
  <2> QED
    BY <2>1, <2>2
<1>4. Cardinality(N) < Cardinality(M)
  <2> DEFINE L == {i \in M : i > a}
  <2>1. L \in SUBSET M /\ x \notin L
    BY <1>1
  <2>2. Cardinality(L) = Cardinality(N)
    BY BelowNamed
  <2> HIDE DEF L, M, N
  <2>3. Cardinality(L) <= Cardinality(M) /\ Cardinality(L) # Cardinality(M)
    BY <1>2, <1>3, <2>1, FS_Subset
  <2> QED
    BY ONLY <1>3, <2>2, <2>3
<1>5. t \in Nat /\ t > Cardinality(N)
  BY <1>0, TimesType
<1>6. /\ Cardinality(Named(HashedAt(g, ks, Len(ks)), n)) = Lesser(t, Cardinality(M))
      /\ Cardinality(Named(HashedAt(b, ks, Len(ks)), n)) = Lesser(t, Cardinality(N))
  <2>1. Len(ks) \in 0 .. Len(ks)
    BY <1>0
  <2>2. Cardinality(Named(HashedAt(g, ks, Len(ks)), n)) = Lesser(t, Cardinality(M))
    BY <2>1, HashedCount
  <2>3. Cardinality(Named(HashedAt(b, ks, Len(ks)), n)) = Lesser(t, Cardinality(N))
    BY <1>0, <2>1, HashedCount
  <2> QED
    BY <2>2, <2>3
<1> HIDE DEF b, n, N, M, t
<1>7. Lesser(t, Cardinality(M)) # Lesser(t, Cardinality(N))
  BY ONLY <1>3, <1>4, <1>5 DEF Lesser
<1>8. HashedAt(g, ks, Len(ks)) # HashedAt(b, ks, Len(ks))
  BY <1>6, <1>7
<1> QED
  BY <1>8 DEF b

---------------------------------------------------------------------------
(* The header and its canonical form.                                      *)

CanonHeader(kind, g) == [i \in 1 .. Len(g) |-> CanonicalizeHeader(kind, g[i])]

LEMMA CanonType ==
    ASSUME NEW kind, NEW g \in Seq(Field)
    PROVE  /\ CanonHeader(kind, g) \in Seq(Field) /\ Len(CanonHeader(kind, g)) = Len(g)
           /\ \A i \in 1 .. Len(g) : CanonHeader(kind, g)[i] = CanonicalizeHeader(kind, g[i])
           /\ \A i \in 1 .. Len(g) : CanonHeader(kind, g)[i].name = g[i].name
           /\ \A n : Named(CanonHeader(kind, g), n) = Named(g, n)
<1> DEFINE c == CanonHeader(kind, g)
<1>1. ASSUME NEW i \in 1 .. Len(g)
      PROVE  CanonicalizeHeader(kind, g[i]) \in Field /\ CanonicalizeHeader(kind, g[i]).name = g[i].name
  <2>1. g[i] \in Field
    OBVIOUS
  <2> QED
    BY <2>1 DEF CanonicalizeHeader, Field, Forms
<1>2. Len(g) \in Nat /\ DOMAIN g = 1 .. Len(g)
  OBVIOUS
<1>3. c \in Seq(Field) /\ Len(c) = Len(g) /\ \A i \in 1 .. Len(g) : c[i] = CanonicalizeHeader(kind, g[i])
  BY <1>1, <1>2 DEF CanonHeader
<1> HIDE DEF c
<1>4. DOMAIN c = 1 .. Len(g)
  BY <1>3
<1>5. \A i \in 1 .. Len(g) : c[i].name = g[i].name
  BY <1>1, <1>3
<1>6. \A n : Named(c, n) = Named(g, n)
  BY <1>2, <1>4, <1>5 DEF Named
<1> QED
  BY <1>3, <1>5, <1>6 DEF c

\* The fields that were added are on top, by their names; the rest is the
\* author's.
Shape(g, ad) ==
    /\ g \in Seq(Field) /\ ad \in Seq(FieldNames) /\ Len(ad) \in 0 .. Len(g)
    /\ \A i \in 1 .. Len(g) : g[i].from = "author" <=> i > Len(ad)
    /\ {g[i].name : i \in 1 .. Len(ad)} = Range(ad)

\* What one side has done with the first k keys.
Progress(g, kind, ks, k, p, fields) ==
    /\ k \in 0 .. Len(ks) /\ p \in [Names -> Nat]
    /\ \A n \in Names : p[n] = Lesser(Times(ks, k, n), Cardinality(Named(g, n)))
    /\ fields = HashedAt(CanonHeader(kind, g), ks, k)

LEMMA ProgressStart ==
    ASSUME NEW g \in Seq(Field), NEW kind, NEW ks \in Seq(Names)
    PROVE  Progress(g, kind, ks, 0, [n \in Names |-> 0], <<>>)
<1>1. \A n : Lesser(Times(ks, 0, n), Cardinality(Named(g, n))) = 0
  <2> TAKE n
  <2>1. Times(ks, 0, n) = 0 /\ Cardinality(Named(g, n)) \in Nat
    BY TimesType, NamedType
  <2> QED
    BY <2>1 DEF Lesser
<1>2. HashedAt(CanonHeader(kind, g), ks, 0) = <<>>
  BY CanonType, HashedSteps
<1>3. 0 \in 0 .. Len(ks)
  OBVIOUS
<1> QED
  BY <1>1, <1>2, <1>3 DEF Progress

LEMMA ProgressPick ==
    ASSUME NEW g \in Seq(Field), NEW kind, NEW ks \in Seq(Names), NEW k, NEW p, NEW fields,
           Progress(g, kind, ks, k, p, fields), k < Len(ks),
           NEW i, i = Pick(g, ks[k + 1], p[ks[k + 1]])
    PROVE  /\ i = 0 => Progress(g, kind, ks, k + 1, p, fields)
           /\ i # 0 => Progress(g, kind, ks, k + 1, [p EXCEPT ![ks[k + 1]] = @ + 1],
                                Append(fields, CanonicalizeHeader(kind, g[i])))
<1> DEFINE key == ks[k + 1]
           c == CanonHeader(kind, g)
           t == Times(ks, k, key)
           size == Cardinality(Named(g, key))
           j == Choice(c, ks, k + 1)
<1>1. /\ k \in 0 .. Len(ks) /\ Len(ks) \in Nat /\ p \in [Names -> Nat]
      /\ \A n \in Names : p[n] = Lesser(Times(ks, k, n), Cardinality(Named(g, n)))
      /\ fields = HashedAt(c, ks, k)
  BY DEF Progress
<1>2. /\ k \in Nat /\ k + 1 \in 1 .. Len(ks) /\ (k + 1) - 1 = k /\ k + 1 \in 0 .. Len(ks)
  BY ONLY <1>1, k < Len(ks)
<1>3. key \in Names
  BY <1>2
<1>4. /\ c \in Seq(Field) /\ Len(c) = Len(g) /\ Named(c, key) = Named(g, key)
      /\ \A x \in 1 .. Len(g) : c[x] = CanonicalizeHeader(kind, g[x])
  BY CanonType
<1>5. t \in Nat /\ size \in Nat /\ p[key] = Lesser(t, size)
  <2>1. t \in Nat
    BY <1>2, TimesType
  <2>2. size \in Nat
    BY NamedType
  <2> QED
    BY <1>1, <1>3, <2>1, <2>2
<1>6. j = Pick(c, key, t)
  BY <1>2 DEF Choice
<1>7. j = Pick(g, key, t)
  BY <1>4, <1>6 DEF Pick
<1>8. i = Pick(g, key, p[key])
  OBVIOUS
<1>9. i = j /\ (i = 0 <=> t >= size) /\ (i # 0 => p[key] = t /\ i \in 1 .. Len(g))
  <2> HIDE DEF key, t, size, j
  <2>1. CASE t < size
    <3>1. p[key] = t /\ ~(t >= size)
      BY <1>5, <2>1 DEF Lesser
    <3>2. i \in Named(g, key) /\ i # 0
      BY <1>5, <1>8, <2>1, <3>1, PickIs DEF size
    <3> QED
      BY <1>7, <1>8, <3>1, <3>2, NamedType
  <2>2. CASE ~(t < size)
    <3>1. p[key] = size /\ t >= size
      <4>1. p[key] = size
        BY <1>5, <2>2 DEF Lesser
      <4>2. t >= size
        BY ONLY <1>5, <2>2
      <4> QED
        BY <4>1, <4>2
    <3>2. i = 0
      <4>1. p[key] >= size /\ p[key] \in Nat
        BY <1>5, <3>1
      <4> QED
        BY <1>8, <4>1, PickIs DEF size
    <3>3. j = 0
      BY <1>5, <1>7, <3>1, PickIs DEF size
    <3> QED
      BY <3>1, <3>2, <3>3
  <2> QED
    BY <2>1, <2>2
<1>10. HashedAt(c, ks, k + 1) = IF j = 0 THEN HashedAt(c, ks, k) ELSE Cat(HashedAt(c, ks, k), <<c[j]>>)
  <2> HIDE DEF c, j
  <2> QED
    BY <1>2, <1>4, HashedSteps DEF j
<1>11. ASSUME NEW n \in Names
       PROVE  Times(ks, k + 1, n) = Times(ks, k, n) + (IF key = n THEN 1 ELSE 0) /\ Times(ks, k, n) \in Nat
  BY <1>2, TimesType
<1>12. HashedAt(c, ks, k) \in Seq(Field)
  <2> HIDE DEF c
  <2> QED
    BY <1>1, <1>4, HashedSteps
<1> HIDE DEF key, c, t, size, j
<1>13. CASE i = 0
  <2>1. fields = HashedAt(c, ks, k + 1)
    BY <1>1, <1>9, <1>10, <1>13
  <2>2. ASSUME NEW n \in Names PROVE p[n] = Lesser(Times(ks, k + 1, n), Cardinality(Named(g, n)))
    <3>1. CASE n = key
      <4>1. t >= size /\ Times(ks, k + 1, n) = t + 1
        BY <1>9, <1>11, <1>13, <3>1 DEF t
      <4>2. Lesser(t + 1, size) = size /\ Lesser(t, size) = size
        BY ONLY <1>5, <4>1 DEF Lesser
      <4> QED
        BY <1>5, <3>1, <4>1, <4>2 DEF size
    <3>2. CASE n # key
      <4>1. Times(ks, k + 1, n) = Times(ks, k, n)
        BY <1>11, <3>2
      <4> QED
        BY <1>1, <4>1
    <3> QED
      BY <3>1, <3>2
  <2> QED
    BY <1>1, <1>2, <1>13, <2>1, <2>2 DEF Progress, c
<1>14. CASE i # 0
  <2> DEFINE q == [p EXCEPT ![key] = @ + 1]
             new == Append(fields, CanonicalizeHeader(kind, g[i]))
  <2>1. new = HashedAt(c, ks, k + 1)
    <3>1. c[j] = CanonicalizeHeader(kind, g[i]) /\ c[j] \in Field
      <4>1. c[j] \in Field
        BY <1>4, <1>9, <1>14
      <4> QED
        BY <1>4, <1>9, <1>14, <4>1
    <3>2. Append(HashedAt(c, ks, k), c[j]) = HashedAt(c, ks, k) \o <<c[j]>>
      BY <1>12, <3>1, AppendIsConcat
    <3> QED
      BY <1>1, <1>9, <1>10, <1>14, <3>1, <3>2 DEF Cat
  <2>2. q \in [Names -> Nat]
    BY <1>1, <1>3
  <2>3. ASSUME NEW n \in Names PROVE q[n] = Lesser(Times(ks, k + 1, n), Cardinality(Named(g, n)))
    <3>1. CASE n = key
      <4>1. t < size /\ Times(ks, k + 1, n) = t + 1 /\ p[key] = t
        <5>1. ~(t >= size) /\ Times(ks, k + 1, n) = t + 1 /\ p[key] = t
          BY <1>9, <1>11, <1>14, <3>1 DEF t
        <5>2. t < size
          BY ONLY <1>5, <5>1
        <5> QED
          BY <5>1, <5>2
      <4>2. Lesser(t + 1, size) = t + 1
        BY ONLY <1>5, <4>1 DEF Lesser
      <4>3. q[n] = t + 1
        BY <1>1, <1>3, <3>1, <4>1
      <4> QED
        BY <3>1, <4>1, <4>2, <4>3 DEF size
    <3>2. CASE n # key
      <4>1. Times(ks, k + 1, n) = Times(ks, k, n)
        BY <1>11, <3>2
      <4>2. q[n] = p[n]
        BY <1>1, <3>2
      <4> QED
        BY <1>1, <4>1, <4>2
    <3> QED
      BY <3>1, <3>2
  <2> HIDE DEF q, new
  <2>4. Progress(g, kind, ks, k + 1, q, new)
    BY <1>2, <2>1, <2>2, <2>3 DEF Progress, c
  <2> QED
    BY <1>14, <2>4 DEF q, new, key
<1> QED
  BY <1>13, <1>14

\* A field on top of the others.
LEMMA ShapeTop ==
    ASSUME NEW kind, NEW g, NEW ad, Shape(g, ad), NEW n \in FieldNames
    PROVE  LET top == <<[name |-> n, form |-> "canonical", from |-> "hop"]>> \o g
           IN /\ Shape(top, Append(ad, n))
              /\ Below(CanonHeader(kind, top), Len(Append(ad, n))) = Below(CanonHeader(kind, g), Len(ad))
<1> DEFINE f == [name |-> n, form |-> "canonical", from |-> "hop"]
           one == <<f>>
           top == Cat(one, g)
           more == Append(ad, n)
           l == Len(g)
           a == Len(ad)
<1>1. /\ g \in Seq(Field) /\ ad \in Seq(FieldNames) /\ a \in 0 .. l /\ l \in Nat /\ a \in Nat
      /\ \A i \in 1 .. l : g[i].from = "author" <=> i > a
      /\ {g[i].name : i \in 1 .. a} = Range(ad)
  BY DEF Shape
<1>2. /\ f \in Field /\ f.name = n /\ f.from # "author"
      /\ one \in Seq(Field) /\ Len(one) = 1 /\ one[1] = f
  BY DEF Field, Forms
<1>3. /\ more \in Seq(FieldNames) /\ Len(more) = a + 1 /\ more[a + 1] = n
      /\ \A i \in 1 .. a : more[i] = ad[i]
  BY <1>1
<1> HIDE DEF f, one, more, l, a
<1>4. /\ top \in Seq(Field) /\ Len(top) = l + 1 /\ top[1] = f
      /\ \A i \in 1 .. l : top[1 + i] = g[i]
  <2>1. top \in Seq(Field) /\ Len(top) = Len(one) + Len(g)
    BY <1>1, <1>2, CatType
  <2>2. /\ \A i \in 1 .. Len(one) : top[i] = one[i]
        /\ \A i \in 1 .. Len(g) : top[Len(one) + i] = g[i]
    <3>1. one \in Seq(Field) /\ g \in Seq(Field)
      BY <1>1, <1>2
    <3> QED
      BY ONLY <3>1, CatAt
  <2>3. 1 \in 1 .. Len(one)
    BY <1>2
  <2> HIDE DEF top
  <2>4. top[1] = f
    BY <1>2, <2>2, <2>3
  <2>5. Len(top) = l + 1
    BY ONLY <1>1, <1>2, <2>1 DEF l
  <2> QED
    BY <1>2, <2>1, <2>2, <2>4, <2>5 DEF l
<1> HIDE DEF top
<1>5. ASSUME NEW i \in 1 .. l + 1 PROVE i = 1 \/ (i - 1 \in 1 .. l /\ top[i] = g[i - 1] /\ i # 1)
  <2>1. i = 1 \/ (i - 1 \in 1 .. l /\ 1 + (i - 1) = i /\ i # 1)
    BY ONLY <1>1, i \in 1 .. l + 1
  <2> QED
    BY <1>4, <2>1
<1>6. ASSUME NEW i \in 1 .. l + 1 PROVE top[i].from = "author" <=> i > a + 1
  <2>1. CASE i = 1
    <3>1. ~(i > a + 1)
      BY ONLY <1>1, <2>1
    <3> QED
      BY <1>2, <1>4, <2>1, <3>1
  <2>2. CASE i # 1
    <3>1. i - 1 \in 1 .. l /\ top[i] = g[i - 1]
      BY <1>5, <2>2
    <3>2. i - 1 > a <=> i > a + 1
      BY ONLY <1>1, i \in 1 .. l + 1
    <3> QED
      BY <1>1, <3>1, <3>2
  <2> QED
    BY <2>1, <2>2
<1>7. {top[i].name : i \in 1 .. a + 1} = Range(more)
  <2>1. DOMAIN more = 1 .. a + 1 /\ DOMAIN ad = 1 .. a
    BY <1>1, <1>3 DEF a
  <2>2. Range(ad) = {ad[i] : i \in 1 .. a} /\ Range(more) = {more[i] : i \in 1 .. a + 1}
    BY <2>1 DEF Range
  <2>3. 1 \in 1 .. a + 1 /\ a + 1 \in 1 .. a + 1 /\ \A i \in 1 .. a : i \in 1 .. a + 1 /\ 1 + i \in 1 .. a + 1
    BY <1>1
  <2>4. ASSUME NEW i \in 1 .. a + 1 PROVE top[i].name \in Range(more)
    <3>1. CASE i = 1
      BY <1>2, <1>3, <1>4, <2>2, <2>3, <3>1
    <3>2. CASE i # 1
      <4>1. i \in 1 .. l + 1 /\ i - 1 \in 1 .. a
        BY ONLY <1>1, <3>2, i \in 1 .. a + 1
      <4>2. top[i].name \in Range(ad)
        BY <1>1, <1>5, <3>2, <4>1
      <4>3. PICK x \in 1 .. a : top[i].name = ad[x]
        BY <2>2, <4>2
      <4> QED
        BY <1>3, <2>2, <2>3, <4>3
    <3> QED
      BY <3>1, <3>2
  <2>5. ASSUME NEW i \in 1 .. a + 1 PROVE \E x \in 1 .. a + 1 : more[i] = top[x].name
    <3>1. CASE i = a + 1
      BY <1>2, <1>3, <1>4, <2>3, <3>1
    <3>2. CASE i # a + 1
      <4>1. i \in 1 .. a
        BY ONLY <1>1, <3>2, i \in 1 .. a + 1
      <4>2. more[i] \in Range(ad)
        BY <1>3, <2>2, <4>1
      <4>3. PICK x \in 1 .. a : more[i] = g[x].name
        BY <1>1, <4>2
      <4>4. x \in 1 .. l
        BY ONLY <1>1, x \in 1 .. a
      <4>5. top[1 + x].name = more[i]
        BY <1>4, <4>3, <4>4
      <4> QED
        BY <2>3, <4>5
    <3> QED
      BY <3>1, <3>2
  <2> QED
    BY <2>2, <2>4, <2>5
<1>8. a + 1 \in 0 .. l + 1
  BY ONLY <1>1
<1>9. Shape(top, more)
  BY <1>3, <1>4, <1>6, <1>7, <1>8 DEF Shape
<1>10. Below(CanonHeader(kind, top), a + 1) = Below(CanonHeader(kind, g), a)
  <2> DEFINE c == CanonHeader(kind, g)
             d == CanonHeader(kind, top)
  <2>1. Len(c) = l /\ \A i \in 1 .. l : c[i] = CanonicalizeHeader(kind, g[i])
    BY <1>1, CanonType DEF l
  <2>2. Len(d) = l + 1 /\ \A i \in 1 .. l + 1 : d[i] = CanonicalizeHeader(kind, top[i])
    BY <1>4, CanonType
  <2> HIDE DEF c, d
  <2>3. Len(d) - (a + 1) = Len(c) - a
    BY ONLY <1>1, <2>1, <2>2
  <2>4. ASSUME NEW i \in 1 .. Len(c) - a PROVE d[(a + 1) + i] = c[a + i]
    <3>1. a + i \in 1 .. l /\ 1 + (a + i) = (a + 1) + i /\ (a + 1) + i \in 1 .. l + 1
      BY ONLY <1>1, <2>1, i \in 1 .. Len(c) - a
    <3> QED
      BY <1>4, <2>1, <2>2, <3>1
  <2>5. Below(d, a + 1) = Below(c, a)
    BY <2>3, <2>4 DEF Below
  <2> QED
    BY <2>5 DEF c, d
<1>11. Shape(top, more) /\ Below(CanonHeader(kind, top), Len(more)) = Below(CanonHeader(kind, g), a)
  BY <1>3, <1>9, <1>10
<1> QED
  BY <1>11 DEF top, more, a, one, f, Cat

\* A field that is written anew.
LEMMA ShapeReformed ==
    ASSUME NEW g, NEW ad, Shape(g, ad), NEW i \in DOMAIN g, NEW form \in Forms
    PROVE  /\ Shape([g EXCEPT ![i].form = form], ad)
           /\ CanonHeader("relaxed", [g EXCEPT ![i].form = form]) = CanonHeader("relaxed", g)
<1> DEFINE d == [g EXCEPT ![i].form = form]
<1>1. /\ g \in Seq(Field) /\ ad \in Seq(FieldNames) /\ Len(ad) \in 0 .. Len(g)
      /\ \A j \in 1 .. Len(g) : g[j].from = "author" <=> j > Len(ad)
      /\ {g[j].name : j \in 1 .. Len(ad)} = Range(ad)
      /\ Len(g) \in Nat /\ DOMAIN g = 1 .. Len(g)
  BY DEF Shape
<1>2. ASSUME NEW j \in 1 .. Len(g)
      PROVE  /\ d[j] \in Field /\ d[j].name = g[j].name /\ d[j].from = g[j].from
             /\ CanonicalizeHeader("relaxed", d[j]) = CanonicalizeHeader("relaxed", g[j])
  <2>1. g[j] \in Field
    BY <1>1
  <2>2. d[j] = IF j = i THEN [g[j] EXCEPT !.form = form] ELSE g[j]
    BY <1>1
  <2>3. /\ d[j] \in Field /\ d[j].name = g[j].name /\ d[j].from = g[j].from
        /\ [d[j] EXCEPT !.form = "canonical"] = [g[j] EXCEPT !.form = "canonical"]
    <3> HIDE DEF d
    <3> QED
      BY <2>1, <2>2 DEF Field
  <2> HIDE DEF d
  <2> QED
    BY <2>3 DEF CanonicalizeHeader
<1>3. d \in Seq(Field) /\ Len(d) = Len(g)
  <2>1. DOMAIN d = 1 .. Len(g) /\ d = [j \in 1 .. Len(g) |-> d[j]]
    BY <1>1
  <2> HIDE DEF d
  <2>2. d \in [1 .. Len(g) -> Field]
    BY <1>2, <2>1
  <2> QED
    BY <1>1, <2>1, <2>2
<1> HIDE DEF d
<1>4. \A j \in 1 .. Len(ad) : j \in 1 .. Len(g)
  BY <1>1
<1>5. {d[j].name : j \in 1 .. Len(ad)} = {g[j].name : j \in 1 .. Len(ad)}
  BY <1>2, <1>4
<1>6. Shape(d, ad)
  BY <1>1, <1>2, <1>3, <1>5 DEF Shape
<1>7. CanonHeader("relaxed", d) = CanonHeader("relaxed", g)
  BY <1>2, <1>3 DEF CanonHeader
<1> QED
  BY <1>6, <1>7 DEF d

---------------------------------------------------------------------------
(* The fields.                                                             *)

\* Each side hashes the fields that the keys choose in the header as it is; the
\* signer hashed what is below the fields that were added since.
HeaderInv ==
    /\ keys \in Seq(Names) /\ side \in {"sign", "transit", "verify", "done"}
    /\ Shape(h, added)
    /\ side = "sign" => added = <<>>
    /\ side = "transit" => asked = 0 /\ picked = [n \in Names |-> 0] /\ hashed = <<>>
    /\ Progress(h, can.header, keys, asked, picked, hashed)
    /\ side # "sign" =>
         signed.fields = HashedAt(Below(CanonHeader(can.header, h), Len(added)), keys, Len(keys))
    /\ side = "done" => verified.fields = HashedAt(CanonHeader(can.header, h), keys, Len(keys))

LEMMA HeaderInit == Init => HeaderInv
<1> SUFFICES ASSUME Init PROVE HeaderInv
  OBVIOUS
<1>1. h \in Seq([name : Names, form : Forms, from : {"author"}]) /\ keys \in Seq(Names)
  BY MessagesAssumption DEF Init
<1>2. added = <<>> /\ side = "sign" /\ picked = [n \in Names |-> 0] /\ hashed = <<>> /\ asked = 0
  BY DEF Init
<1>3. Shape(h, added)
  <2>1. /\ Len(h) \in Nat
        /\ \A i \in 1 .. Len(h) : h[i] \in [name : Names, form : Forms, from : {"author"}]
    BY ONLY <1>1, LenProperties, ElementOfSeq
  <2>2. \A i \in 1 .. Len(h) : h[i] \in Field /\ h[i].from = "author" /\ i > 0
    BY <2>1 DEF Field, FieldNames
  <2>3. h \in Seq(Field)
    BY <1>1, <2>2
  <2>4. added \in Seq(FieldNames) /\ Len(added) = 0 /\ Len(added) \in 0 .. Len(h)
    BY <1>2, <2>1
  <2>5. Range(added) = {} /\ {h[i].name : i \in 1 .. Len(added)} = {}
    BY <1>2, <2>4 DEF Range
  <2> QED
    BY <2>2, <2>3, <2>4, <2>5 DEF Shape
<1>4. Progress(h, can.header, keys, asked, picked, hashed)
  BY <1>1, <1>2, <1>3, ProgressStart DEF Shape
<1> QED
  BY <1>1, <1>2, <1>3, <1>4 DEF HeaderInv

LEMMA HeaderPick == HeaderInv /\ PickKey => HeaderInv'
<1> SUFFICES ASSUME HeaderInv, PickKey PROVE HeaderInv'
  OBVIOUS
<1>1. /\ h \in Seq(Field) /\ keys \in Seq(Names) /\ asked < Len(keys)
      /\ Progress(h, can.header, keys, asked, picked, hashed)
  BY DEF HeaderInv, Shape, PickKey
<1> DEFINE i == Pick(h, keys[asked + 1], picked[keys[asked + 1]])
<1>2. /\ i = 0 => UNCHANGED <<picked, hashed>>
      /\ i # 0 => /\ picked' = [picked EXCEPT ![keys[asked + 1]] = @ + 1]
                  /\ hashed' = Append(hashed, CanonicalizeHeader(can.header, h[i]))
      /\ asked' = asked + 1
  BY DEF PickKey
<1> HIDE DEF i
<1>3. Progress(h, can.header, keys, asked', picked', hashed')
  <2>1. i = Pick(h, keys[asked + 1], picked[keys[asked + 1]])
    BY DEF i
  <2>2. CASE i = 0
    <3>1. Progress(h, can.header, keys, asked + 1, picked, hashed)
      BY <1>1, <2>1, <2>2, ProgressPick
    <3> QED
      BY <1>2, <2>2, <3>1
  <2>3. CASE i # 0
    <3>1. Progress(h, can.header, keys, asked + 1, [picked EXCEPT ![keys[asked + 1]] = @ + 1],
                   Append(hashed, CanonicalizeHeader(can.header, h[i])))
      BY <1>1, <2>1, <2>3, ProgressPick
    <3> QED
      BY <1>2, <2>3, <3>1
  <2> QED
    BY <2>2, <2>3
<1>4. UNCHANGED <<h, keys, can, side, signed, verified, added>> /\ side \in {"sign", "verify"}
  BY DEF PickKey, Hashing
<1> QED
  BY <1>3, <1>4 DEF HeaderInv

\* A side has hashed what all its keys choose.
LEMMA HeaderHashed ==
    HeaderInv /\ Complete => Hashes.fields = HashedAt(CanonHeader(can.header, h), keys, Len(keys))
BY DEF HeaderInv, Complete, Progress, Hashes

\* On the way only what is on top of the author's fields changes, or what the
\* canonicalization forgives.
LEMMA HeaderTransit ==
    ASSUME HeaderInv, side = "transit", side' \in {"transit", "verify"},
           UNCHANGED <<keys, can, hashVars, signed, verified>>,
           Shape(h', added'),
           Below(CanonHeader(can.header, h'), Len(added')) = Below(CanonHeader(can.header, h), Len(added))
    PROVE  HeaderInv'
<1>1. asked' = 0 /\ picked' = [n \in Names |-> 0] /\ hashed' = <<>> /\ keys' \in Seq(Names)
  BY DEF HeaderInv, hashVars
<1>2. h' \in Seq(Field)
  BY DEF Shape
<1>3. Progress(h', can.header, keys', asked', picked', hashed')
  BY <1>1, <1>2, ProgressStart
<1>4. signed' = signed /\ can' = can /\ keys' = keys /\ side' # "sign" /\ side' # "done"
  OBVIOUS
<1>5. signed.fields = HashedAt(Below(CanonHeader(can.header, h), Len(added)), keys, Len(keys))
  BY DEF HeaderInv
<1> QED
  BY <1>1, <1>3, <1>4, <1>5 DEF HeaderInv

LEMMA BelowNothing == ASSUME NEW g \in Seq(Field) PROVE Below(g, 0) = g
<1>1. Below(g, 0) \in Seq(Field) /\ Len(Below(g, 0)) = Len(g) /\ \A i \in 1 .. Len(g) : Below(g, 0)[i] = g[i]
  <2>1. 0 \in 0 .. Len(g) /\ Len(g) - 0 = Len(g) /\ \A i \in 1 .. Len(g) : 0 + i = i
    OBVIOUS
  <2>2. /\ Below(g, 0) \in Seq(Field) /\ Len(Below(g, 0)) = Len(g) - 0
        /\ \A i \in 1 .. Len(g) - 0 : Below(g, 0)[i] = g[0 + i]
    BY <2>1, BelowType
  <2> QED
    BY <2>1, <2>2
<1> QED
  BY ONLY <1>1, g \in Seq(Field), SeqEqual

LEMMA HeaderNext == HeaderInv /\ [Next]_vars => HeaderInv'
<1> SUFFICES ASSUME HeaderInv, [Next]_vars PROVE HeaderInv'
  OBVIOUS
<1>0. Shape(h, added) /\ h \in Seq(Field)
  BY DEF HeaderInv, Shape
<1>1. CASE WriteBody
  BY <1>1 DEF WriteBody, HeaderInv
<1>2. CASE PickKey
  BY <1>2, HeaderPick
<1>3. CASE SignHash
  <2> DEFINE c == CanonHeader(can.header, h)
  <2>1. /\ signed'.fields = HashedAt(c, keys, Len(keys))
        /\ UNCHANGED <<keys, can>> /\ side' = "transit" /\ keys \in Seq(Names)
    BY <1>3, HeaderHashed DEF SignHash, HeaderInv
  <2>2. /\ h' = <<[name |-> "dkim-signature", form |-> "canonical", from |-> "hop"]>> \o h
        /\ added' = <<"dkim-signature">>
    BY <1>3 DEF SignHash
  <2>3. added = <<>> /\ "dkim-signature" \in FieldNames /\ Len(added) = 0
    BY <1>3 DEF SignHash, HeaderInv, FieldNames
  <2>4. added' = Append(added, "dkim-signature")
    BY <2>2, <2>3
  <2>5. /\ Shape(h', added')
        /\ Below(CanonHeader(can.header, h'), Len(added')) = Below(c, Len(added))
    <3>1. PICK n \in FieldNames : n = "dkim-signature"
      BY <2>3
    <3>2. /\ h' = <<[name |-> n, form |-> "canonical", from |-> "hop"]>> \o h
          /\ added' = Append(added, n)
      BY <2>2, <2>4, <3>1
    <3> QED
      BY <1>0, <3>2, ShapeTop
  <2>6. Below(c, Len(added)) = c
    BY <1>0, <2>3, CanonType, BelowNothing
  <2>7. asked' = 0 /\ picked' = [n \in Names |-> 0] /\ hashed' = <<>>
    BY <1>3 DEF SignHash, StartHashing
  <2>8. Progress(h', can.header, keys, asked', picked', hashed')
    BY <2>1, <2>5, <2>7, ProgressStart DEF Shape
  <2> QED
    BY <2>1, <2>5, <2>6, <2>7, <2>8 DEF HeaderInv
<1>4. CASE CompareHash
  <2>1. verified'.fields = HashedAt(CanonHeader(can.header, h), keys, Len(keys))
    BY <1>4, HeaderHashed DEF CompareHash
  <2> QED
    BY <1>4, <2>1 DEF HeaderInv, CompareHash, hashVars
<1>5. CASE AddField
  <2>1. PICK n \in Names :
          /\ h' = <<[name |-> n, form |-> "canonical", from |-> "hop"]>> \o h
          /\ added' = Append(added, n)
    BY <1>5 DEF AddField
  <2>2. n \in FieldNames
    BY DEF FieldNames
  <2>3. /\ Shape(h', added')
        /\ Below(CanonHeader(can.header, h'), Len(added')) = Below(CanonHeader(can.header, h), Len(added))
    BY <1>0, <2>1, <2>2, ShapeTop
  <2> QED
    BY <1>5, <2>3, HeaderTransit DEF AddField, InTransit
<1>6. CASE ChangeEnd
  <2>1. h' = h /\ added' = added
    BY <1>6 DEF ChangeEnd
  <2> QED
    BY <1>0, <1>6, <2>1, HeaderTransit DEF ChangeEnd, InTransit
<1>7. CASE ChangeSpace
  <2>1. CASE UNCHANGED h
    <3>1. h' = h /\ added' = added
      BY <1>7, <2>1 DEF ChangeSpace
    <3> QED
      BY <1>0, <1>7, <3>1, HeaderTransit DEF ChangeSpace, InTransit
  <2>2. CASE can.header = "relaxed" /\ \E i \in DOMAIN h, form \in Forms : h' = [h EXCEPT ![i].form = form]
    <3>1. PICK i \in DOMAIN h, form \in Forms : h' = [h EXCEPT ![i].form = form]
      BY <2>2
    <3>2. added' = added
      BY <1>7 DEF ChangeSpace
    <3>3. Shape(h', added) /\ CanonHeader("relaxed", h') = CanonHeader("relaxed", h)
      BY <1>0, <3>1, ShapeReformed
    <3> QED
      BY <1>7, <2>2, <3>2, <3>3, HeaderTransit DEF ChangeSpace, InTransit
  <2> QED
    BY <1>7, <2>1, <2>2 DEF ChangeSpace
<1>8. CASE Arrive
  <2>1. h' = h /\ added' = added
    BY <1>8 DEF Arrive
  <2> QED
    BY <1>0, <1>8, <2>1, HeaderTransit DEF Arrive, InTransit
<1>9. CASE UNCHANGED vars
  BY <1>9 DEF HeaderInv, vars, hashVars
<1> QED
  BY <1>1, <1>2, <1>3, <1>4, <1>5, <1>6, <1>7, <1>8, <1>9 DEF Next

LEMMA HeaderInvariant == Spec => []HeaderInv
BY HeaderInit, HeaderNext, PTL DEF Spec

\* What Oversigned says of the header as it is hashed.
LEMMA OversignedIs ==
    HeaderInv => (Oversigned <=> ~EnoughBelow(CanonHeader(can.header, h), Len(added), keys))
<1> SUFFICES ASSUME HeaderInv
             PROVE  Oversigned <=> ~EnoughBelow(CanonHeader(can.header, h), Len(added), keys)
  OBVIOUS
<1> DEFINE g == CanonHeader(can.header, h)
           a == Len(added)
           asks(n) == Times(keys, Len(keys), n)
           has(n) == Cardinality(Named(Below(g, a), n))
<1>1. /\ h \in Seq(Field) /\ keys \in Seq(Names) /\ a \in 0 .. Len(h)
      /\ \A i \in 1 .. Len(h) : h[i].from = "author" <=> i > a
      /\ {h[i].name : i \in 1 .. a} = Range(added)
  BY DEF HeaderInv, Shape
<1>2. /\ g \in Seq(Field) /\ Len(g) = Len(h)
      /\ \A i \in 1 .. Len(h) : g[i].name = h[i].name
      /\ \A n : Named(g, n) = Named(h, n)
  BY <1>1, CanonType
<1>3. Len(keys) \in Nat /\ DOMAIN keys = 1 .. Len(keys) /\ Len(h) \in Nat
  BY <1>1
<1> HIDE DEF g, a
<1>4. \A i \in 1 .. a : i \in 1 .. Len(h)
  BY ONLY <1>1, <1>3
<1>5. ASSUME NEW n
      PROVE  /\ Cardinality({i \in DOMAIN keys : keys[i] = n}) = asks(n) /\ asks(n) \in Nat
             /\ Cardinality({i \in Named(h, n) : h[i].from = "author"}) = has(n) /\ has(n) \in Nat
  <2>1. Cardinality({i \in DOMAIN keys : keys[i] = n}) = asks(n) /\ asks(n) \in Nat
    <3>1. {i \in DOMAIN keys : keys[i] = n} = {i \in 1 .. Len(keys) : keys[i] = n}
      BY <1>3
    <3>2. asks(n) \in Nat
      BY <1>1, <1>3, TimesType
    <3> QED
      BY <3>1, <3>2 DEF Times
  <2>2. {i \in Named(h, n) : h[i].from = "author"} = {i \in Named(g, n) : i > a}
    <3>1. Named(h, n) \subseteq 1 .. Len(h)
      BY <1>1, NamedType
    <3> QED
      BY <1>1, <1>2, <3>1
  <2>3. Cardinality({i \in Named(g, n) : i > a}) = has(n)
    BY <1>1, <1>2, BelowNamed
  <2>4. has(n) \in Nat
    BY <1>1, <1>2, BelowType, NamedType
  <2> QED
    BY <2>1, <2>2, <2>3, <2>4
<1>6. Oversigned <=> \E n \in Range(added) : asks(n) > has(n)
  BY <1>5 DEF Oversigned
<1>7. EnoughBelow(g, a, keys) <=> \A n \in Range(added) : asks(n) <= has(n)
  <2>1. EnoughBelow(g, a, keys) <=> \A i \in 1 .. a : asks(h[i].name) <= has(h[i].name)
    BY <1>2, <1>4 DEF EnoughBelow
  <2> QED
    BY <1>1, <2>1
<1>8. ASSUME NEW n PROVE asks(n) > has(n) <=> ~(asks(n) <= has(n))
  <2>1. asks(n) \in Nat /\ has(n) \in Nat
    BY <1>5
  <2> HIDE DEF asks, has
  <2> QED
    BY ONLY <2>1
<1> HIDE DEF asks, has
<1>9. Oversigned <=> ~EnoughBelow(g, a, keys)
  BY <1>6, <1>7, <1>8
<1> QED
  BY <1>9 DEF g, a

LEMMA ImpliesVerifierHashesTheSame == BodyInv /\ HeaderInv => VerifierHashesTheSame
<1> SUFFICES ASSUME BodyInv, HeaderInv, side = "done"
             PROVE  /\ verified.body = signed.body
                    /\ verified.fields = signed.fields <=> ~Oversigned
  BY DEF VerifierHashesTheSame
<1> DEFINE g == CanonHeader(can.header, h)
           a == Len(added)
<1>1. verified.body = signed.body
  BY DEF BodyInv
<1>2. /\ signed.fields = HashedAt(Below(g, a), keys, Len(keys))
      /\ verified.fields = HashedAt(g, keys, Len(keys))
  BY DEF HeaderInv
<1>3. g \in Seq(Field) /\ a \in 0 .. Len(g) /\ keys \in Seq(Names)
  <2>1. h \in Seq(Field) /\ a \in 0 .. Len(h) /\ keys \in Seq(Names)
    BY DEF HeaderInv, Shape
  <2> HIDE DEF a
  <2>2. g \in Seq(Field) /\ Len(g) = Len(h)
    BY <2>1, CanonType
  <2> QED
    BY <2>1, <2>2
<1>4. Oversigned <=> ~EnoughBelow(g, a, keys)
  BY OversignedIs
<1> HIDE DEF g, a
<1>5. CASE EnoughBelow(g, a, keys)
  <2>1. Pieces(g, keys) = Pieces(Below(g, a), keys)
    BY <1>3, <1>5, SamePieces
  <2>2. HashedAt(g, keys, Len(keys)) = HashedAt(Below(g, a), keys, Len(keys))
    BY <2>1 DEF HashedAt
  <2> QED
    BY <1>1, <1>2, <1>4, <1>5, <2>2
<1>6. CASE ~EnoughBelow(g, a, keys)
  <2>1. PICK x \in 1 .. a :
          ~(Times(keys, Len(keys), g[x].name) <= Cardinality(Named(Below(g, a), g[x].name)))
    BY <1>6 DEF EnoughBelow
  <2>2. Times(keys, Len(keys), g[x].name) > Cardinality(Named(Below(g, a), g[x].name))
    <3>1. Len(keys) \in Nat /\ Below(g, a) \in Seq(Field)
      BY <1>3, BelowType
    <3>2. Times(keys, Len(keys), g[x].name) \in Nat
      BY <3>1, TimesType
    <3>3. Cardinality(Named(Below(g, a), g[x].name)) \in Nat
      BY <3>1, NamedType
    <3> QED
      BY ONLY <2>1, <3>2, <3>3
  <2>3. HashedAt(g, keys, Len(keys)) # HashedAt(Below(g, a), keys, Len(keys))
    BY <1>3, <2>2, OtherHash
  <2> QED
    BY <1>1, <1>2, <1>4, <1>6, <2>3
<1> QED
  BY <1>5, <1>6

\* What the verifier hashes is what the signer hashed, for every message that
\* was changed only as its canonicalizations forgive, however many fields came
\* on top; unless one of them has a name that was signed more often than the
\* message had it (sign.go:239), which is noticed.
THEOREM VerifierHashesTheSameHolds == Spec => []VerifierHashesTheSame
BY BodyInvariant, HeaderInvariant, ImpliesVerifierHashesTheSame, PTL
=============================================================================
