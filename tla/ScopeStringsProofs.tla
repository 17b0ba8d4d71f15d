------------------------- MODULE ScopeStringsProofs -------------------------
(***************************************************************************)
(* Proofs about ScopeStrings: fieldSplit takes every string, of any length *)
(* and over any characters, apart into the words a reader sees in it, and  *)
(* what Scopes says of sets of names is so of the strings they stand for.  *)
(***************************************************************************)
EXTENDS MCSerial, SequenceTheorems, WellFoundedInduction, TLAPS

-----------------------------------------------------------------------------
(* Induction, stated over sets: what a theorem that takes a predicate as   *)
(* its parameter says, in a form that first-order provers can use.         *)

\* Every set of natural numbers has a least element.
LEMMA LeastElement ==
    ASSUME NEW T \in SUBSET Nat, T # {}
    PROVE  \E x \in T : \A y \in T : x <= y
<1>1. \E x \in T : \A y \in T : ~ (<<y, x>> \in OpToRel(<, Nat))
  BY WFMin, NatLessThanWellFounded
<1>2. PICK x \in T : \A y \in T : ~ (<<y, x>> \in OpToRel(<, Nat))
  BY <1>1
<1>3. ASSUME NEW y \in T PROVE x <= y
  <2>1. <<y, x>> \in Nat \X Nat
    OBVIOUS
  <2>2. ~ (y < x)
    BY <1>2, <2>1 DEF OpToRel
  <2>. QED  BY <2>2
<1>. QED  BY <1>3

\* A set that holds 0 and, with each number below n, the next, holds 0 .. n.
LEMMA Induction ==
    ASSUME NEW n \in Nat, NEW P, 0 \in P, \A i \in 1 .. n : i - 1 \in P => i \in P
    PROVE  \A i \in 0 .. n : i \in P
<1> DEFINE T == {i \in 0 .. n : i \notin P}
<1> SUFFICES ASSUME T # {} PROVE FALSE
  OBVIOUS
<1>1. PICK x \in T : \A y \in T : x <= y
  <2> T \in SUBSET Nat
    OBVIOUS
  <2> HIDE DEF T
  <2>. QED  BY LeastElement
<1>2. x \in 1 .. n
  OBVIOUS
<1>3. x - 1 \in P
  BY <1>1, <1>2
<1>. QED  BY <1>2, <1>3

\* f starts at base and goes on along step, within V.
Closed(step, n, V) == \A v \in V, i \in 1 .. n : step[<<v, i>>] \in V
Follows(f, base, step, n, V) ==
    /\ f \in [0 .. n -> V]
    /\ f[0] = base
    /\ \A i \in 1 .. n : f[i] = step[<<f[i - 1], i>>]

\* Recursion: there is a function that does so.
LEMMA RecursionExists ==
    ASSUME NEW n \in Nat, NEW V, NEW base \in V, NEW step, Closed(step, n, V)
    PROVE  \E f : Follows(f, base, step, n, V)
<1> DEFINE P == {m \in 0 .. n : \E f : Follows(f, base, step, m, V)}
<1>1. 0 \in P
  <2>1. Follows([i \in 0 .. 0 |-> base], base, step, 0, V)
    BY DEF Follows
  <2>. QED  BY <2>1
<1>2. ASSUME NEW m \in 1 .. n, m - 1 \in P PROVE m \in P
  <2>1. PICK f : Follows(f, base, step, m - 1, V)
    BY <1>2
  <2> DEFINE g == [i \in 0 .. m |-> IF i = m THEN step[<<f[m - 1], m>>] ELSE f[i]]
  <2>2. f[m - 1] \in V /\ step[<<f[m - 1], m>>] \in V
    BY <2>1 DEF Follows, Closed
  <2>3. g \in [0 .. m -> V] /\ g[0] = base
    BY <2>1, <2>2 DEF Follows
  <2>4. ASSUME NEW i \in 1 .. m PROVE g[i] = step[<<g[i - 1], i>>]
    <3>1. g[i - 1] = f[i - 1]
      OBVIOUS
    <3>2. CASE i = m
      <4>1. g[m] = step[<<f[m - 1], m>>]
        OBVIOUS
      <4> HIDE DEF g
      <4>. QED  BY <3>1, <3>2, <4>1
    <3>3. CASE i # m
      <4>1. g[i] = f[i] /\ i \in 1 .. m - 1
        BY <3>3
      <4>. QED  BY <2>1, <3>1, <4>1 DEF Follows
    <3>. QED  BY <3>2, <3>3
  <2>5. Follows(g, base, step, m, V)
    BY <2>3, <2>4 DEF Follows
  <2>. QED  BY <2>5
<1>3. n \in P
  <2> HIDE DEF P
  <2>. QED  BY <1>1, <1>2, Induction
<1>. QED  BY <1>3

-----------------------------------------------------------------------------
(* fieldSplit's loop *)

Accumulator(C) == [parts : Seq(Seq(C)), start : Nat \ {0}]
NothingRead == [parts |-> <<>>, start |-> 1]

\* A stretch of a string is a string.
LEMMA StretchType ==
    ASSUME NEW C, NEW s \in Seq(C), NEW m \in Nat \ {0}, NEW n \in 0 .. Len(s)
    PROVE  SubSeq(s, m, n) \in Seq(C)
<1>1. \A j \in m .. n : s[j] \in C
  BY LenProperties
<1>. QED  BY <1>1, SubSeqProperties

LEMMA VisitType ==
    ASSUME NEW C, NEW s \in Seq(C), NEW i \in 1 .. Len(s), NEW acc \in Accumulator(C)
    PROVE  Visit(s, Blank, acc, i) \in Accumulator(C)
<1>1. Len(s) \in Nat /\ acc.parts \in Seq(Seq(C)) /\ acc.start \in Nat \ {0}
  BY LenProperties DEF Accumulator
<1>2. SubSeq(s, acc.start, i - 1) \in Seq(C)
  <2>1. i - 1 \in 0 .. Len(s)
    BY <1>1
  <2>. QED  BY <1>1, <2>1, StretchType
<1>3. Append(acc.parts, SubSeq(s, acc.start, i - 1)) \in Seq(Seq(C))
  BY <1>1, <1>2, AppendProperties
<1>. QED  BY <1>1, <1>3 DEF Visit, Accumulator

\* The loop goes on from what it held one character before.
LEMMA ScanStep ==
    ASSUME NEW C, NEW s \in Seq(C)
    PROVE  /\ Scan(s, Blank)[0] = NothingRead
           /\ \A i \in 0 .. Len(s) : Scan(s, Blank)[i] \in Accumulator(C)
           /\ \A i \in 1 .. Len(s) :
                 Scan(s, Blank)[i] = Visit(s, Blank, Scan(s, Blank)[i - 1], i)
<1> DEFINE n == Len(s)
           V == Accumulator(C)
           step == [p \in V \X (1 .. n) |-> Visit(s, Blank, p[1], p[2])]
           Equation(f) == f = [i \in 0 .. n |-> IF i = 0 THEN NothingRead
                                                ELSE Visit(s, Blank, f[i - 1], i)]
<1>1. n \in Nat
  BY LenProperties
<1>2. NothingRead \in V
  BY EmptySeq DEF NothingRead, Accumulator
<1>3. ASSUME NEW v \in V, NEW i \in 1 .. n
      PROVE  step[<<v, i>>] = Visit(s, Blank, v, i) /\ step[<<v, i>>] \in V
  <2>1. Visit(s, Blank, v, i) \in V
    BY VisitType
  <2>2. <<v, i>> \in V \X (1 .. n)
    BY <1>1
  <2> HIDE DEF V
  <2>. QED  BY <2>1, <2>2
<1>4. \E f : Equation(f)
  <2>1. PICK f : Follows(f, NothingRead, step, n, V)
    <3>1. Closed(step, n, V)
      BY <1>3 DEF Closed
    <3> HIDE DEF V, n, step
    <3>. QED  BY <1>1, <1>2, <3>1, RecursionExists
  <2>2. ASSUME NEW i \in 1 .. n
        PROVE  f[i] = Visit(s, Blank, f[i - 1], i)
    <3> HIDE DEF V, step, n
    <3>1. f[i - 1] \in V
      BY <1>1, <2>1 DEF Follows
    <3>. QED  BY <2>1, <3>1, <1>3 DEF Follows
  <2>3. \A i \in 0 .. n : f[i] = IF i = 0 THEN NothingRead ELSE Visit(s, Blank, f[i - 1], i)
    <3> HIDE DEF step, V, n
    <3>. QED  BY <2>1, <2>2, <1>1 DEF Follows
  <2>4. Equation(f)
    <3> HIDE DEF step, V, n
    <3>. QED  BY <2>1, <2>3 DEF Follows
  <2> HIDE DEF Equation
  <2>. QED  BY <2>4
<1>5. Equation(Scan(s, Blank))
  <2>1. Scan(s, Blank) = CHOOSE f : Equation(f)
    BY DEF Scan, NothingRead
  <2> HIDE DEF Equation
  <2>. QED  BY <1>4, <2>1
<1>6. /\ Scan(s, Blank)[0] = NothingRead
      /\ \A i \in 1 .. n : Scan(s, Blank)[i] = Visit(s, Blank, Scan(s, Blank)[i - 1], i)
  <2> HIDE DEF n
  <2>. QED  BY <1>1, <1>5
<1>7. \A i \in 0 .. n : Scan(s, Blank)[i] \in V
  <2> DEFINE P == {i \in 0 .. n : Scan(s, Blank)[i] \in V}
  <2>1. 0 \in P
    BY <1>1, <1>2, <1>6
  <2>2. ASSUME NEW i \in 1 .. n, i - 1 \in P PROVE i \in P
    BY <1>1, <1>6, <2>2, VisitType
  <2>3. \A i \in 0 .. n : i \in P
    <3> HIDE DEF P, n
    <3>. QED  BY <1>1, <2>1, <2>2, Induction
  <2>. QED  BY <2>3
<1>. QED  BY <1>6, <1>7

-----------------------------------------------------------------------------
(* strings.Join's loop *)

\* Each name but the first is put behind a blank.
LEMMA JoinStep ==
    ASSUME NEW C, Blank \in C, NEW names \in Seq(Seq(C))
    PROVE  /\ Joined(names)[0] = <<>>
           /\ \A k \in 0 .. Len(names) : Joined(names)[k] \in Seq(C)
           /\ \A k \in 1 .. Len(names) :
                 Joined(names)[k] = IF k = 1 THEN names[1]
                                    ELSE Joined(names)[k - 1] \o <<Blank>> \o names[k]
<1> DEFINE n == Len(names)
           V == Seq(C)
           Extended(v, k) == IF k = 1 THEN names[1] ELSE v \o <<Blank>> \o names[k]
           step == [p \in V \X (1 .. n) |-> Extended(p[1], p[2])]
           Equation(f) == f = [k \in 0 .. n |-> IF k = 0 THEN <<>> ELSE Extended(f[k - 1], k)]
<1>1. n \in Nat
  BY LenProperties
<1>2. <<>> \in V
  BY EmptySeq
<1>3. ASSUME NEW v \in V, NEW k \in 1 .. n PROVE Extended(v, k) \in V
  <2>1. names[k] \in Seq(C)
    BY ElementOfSeq
  <2>2. <<Blank>> \in Seq(C)
    OBVIOUS
  <2>3. (v \o <<Blank>>) \o names[k] \in Seq(C)
    BY <2>1, <2>2, ConcatProperties
  <2>. QED  BY <2>1, <2>3
<1>4. ASSUME NEW v \in V, NEW k \in 1 .. n PROVE step[<<v, k>>] = Extended(v, k)
  <2>1. <<v, k>> \in V \X (1 .. n)
    OBVIOUS
  <2> HIDE DEF Extended, V
  <2>. QED  BY <2>1
<1>5. \E f : Equation(f)
  <2>1. PICK f : Follows(f, <<>>, step, n, V)
    <3>1. Closed(step, n, V)
      BY <1>3, <1>4 DEF Closed
    <3> HIDE DEF V, n, step
    <3>. QED  BY <1>1, <1>2, <3>1, RecursionExists
  <2>2. ASSUME NEW k \in 1 .. n PROVE f[k] = Extended(f[k - 1], k)
    <3> HIDE DEF V, step, n, Extended
    <3>1. f[k - 1] \in V
      BY <1>1, <2>1 DEF Follows
    <3>. QED  BY <2>1, <3>1, <1>4 DEF Follows
  <2> HIDE DEF step, V, n, Extended
  <2>3. \A k \in 0 .. n : f[k] = IF k = 0 THEN <<>> ELSE Extended(f[k - 1], k)
    BY <2>1, <2>2, <1>1 DEF Follows
  <2>4. Equation(f)
    BY <2>1, <2>3 DEF Follows
  <2> HIDE DEF Equation
  <2>. QED  BY <2>4
<1>6. Equation(Joined(names))
  <2>1. Joined(names) = CHOOSE f : Equation(f)
    BY DEF Joined
  <2> HIDE DEF Equation
  <2>. QED  BY <1>5, <2>1
<1> HIDE DEF n, V, Extended
<1>7. /\ Joined(names)[0] = <<>>
      /\ \A k \in 1 .. n : Joined(names)[k] = Extended(Joined(names)[k - 1], k)
  BY <1>1, <1>6
<1>8. \A k \in 0 .. n : Joined(names)[k] \in V
  <2> DEFINE P == {k \in 0 .. n : Joined(names)[k] \in V}
  <2>1. 0 \in P
    BY <1>1, <1>2, <1>7
  <2>2. ASSUME NEW k \in 1 .. n, k - 1 \in P PROVE k \in P
    BY <1>1, <1>7, <2>2, <1>3
  <2>3. \A k \in 0 .. n : k \in P
    <3> HIDE DEF P
    <3>. QED  BY <1>1, <2>1, <2>2, Induction
  <2>. QED  BY <2>3
<1>. QED  BY <1>7, <1>8 DEF n, V, Extended

-----------------------------------------------------------------------------
(* Runs *)

\* A stretch of letters between blanks, or the ends of the string, is a run, and the
\* only one that begins in it.
LEMMA RunIs ==
    ASSUME NEW C, NEW s \in Seq(C), NEW m \in 1 .. Len(s), NEW n \in m .. Len(s),
           \A i \in m .. n : s[i] # Blank,
           m > 1 => s[m - 1] = Blank,
           n < Len(s) => s[n + 1] = Blank
    PROVE  /\ <<m, n>> \in Runs(s)
           /\ \A r \in Runs(s) : r[1] \in m .. n => r = <<m, n>>
<1>1. Len(s) \in Nat
  BY LenProperties
<1>2. <<m, n>> \in Runs(s)
  BY <1>1 DEF Runs
<1>3. ASSUME NEW r \in Runs(s), r[1] \in m .. n PROVE r = <<m, n>>
  <2>1. /\ r = <<r[1], r[2]>> /\ r[1] \in 1 .. Len(s) /\ r[2] \in 1 .. Len(s)
        /\ r[1] <= r[2] /\ \A i \in r[1] .. r[2] : s[i] # Blank
        /\ r[1] > 1 => s[r[1] - 1] = Blank
        /\ r[2] < Len(s) => s[r[2] + 1] = Blank
    BY DEF Runs
  <2>2. r[1] = m
    <3>1. r[1] - 1 \in m .. n => s[r[1] - 1] # Blank
      OBVIOUS
    <3>. QED  BY <1>1, <1>3, <2>1, <3>1
  <2>3. ~ (r[2] < n)
    <3>1. r[2] + 1 \in m .. n => s[r[2] + 1] # Blank
      OBVIOUS
    <3>. QED  BY <1>1, <2>1, <2>2, <3>1
  <2>4. ~ (n < r[2])
    BY <1>1, <2>1, <2>2
  <2>. QED  BY <1>1, <2>1, <2>2, <2>3, <2>4
<1>. QED  BY <1>2, <1>3

\* A run that begins before a blank ends before it.
LEMMA RunEndsBefore ==
    ASSUME NEW C, NEW s \in Seq(C), NEW i \in 1 .. Len(s), s[i] = Blank,
           NEW r \in Runs(s), r[1] <= i
    PROVE  r[2] < i
<1>1. /\ Len(s) \in Nat /\ r[1] \in 1 .. Len(s) /\ r[2] \in 1 .. Len(s)
      /\ \A j \in r[1] .. r[2] : s[j] # Blank
  BY LenProperties DEF Runs
<1>2. i \in r[1] .. r[2] => FALSE
  BY <1>1
<1>. QED  BY <1>1, <1>2

\* The word at a run behind all others is put behind the others' words.
LEMMA SplitsAppend ==
    ASSUME NEW C, NEW s \in Seq(C), NEW parts \in Seq(Seq(C)), NEW runs \in SUBSET Runs(s),
           Splits(parts, s, runs), NEW r \in Runs(s), \A q \in runs : q[2] < r[1]
    PROVE  Splits(Append(parts, WordAt(s, r)), s, runs \cup {r})
<1> DEFINE n == Len(parts)
           longer == Append(parts, WordAt(s, r))
<1>1. PICK order \in [1 .. n -> runs] :
        /\ \A q \in runs : \E k \in 1 .. n : order[k] = q
        /\ \A j, k \in 1 .. n : j < k => order[j][2] < order[k][1]
        /\ \A k \in 1 .. n : parts[k] = WordAt(s, order[k])
  BY DEF Splits
<1> DEFINE further == [k \in 1 .. n + 1 |-> IF k = n + 1 THEN r ELSE order[k]]
<1>2. n \in Nat
  BY LenProperties
<1>3. WordAt(s, r) \in Seq(C)
  <2>1. Len(s) \in Nat /\ r[1] \in 1 .. Len(s) /\ r[2] \in 1 .. Len(s)
    BY LenProperties DEF Runs
  <2>2. r[1] \in Nat \ {0} /\ r[2] \in 0 .. Len(s)
    BY <2>1
  <2>. QED  BY <2>2, StretchType DEF WordAt
<1>4. /\ Len(longer) = n + 1
      /\ \A k \in 1 .. n : longer[k] = parts[k]
      /\ longer[n + 1] = WordAt(s, r)
  BY <1>3, AppendProperties
<1> HIDE DEF n, longer
<1>5. further \in [1 .. n + 1 -> runs \cup {r}]
  BY <1>1, <1>2
<1>6. ASSUME NEW q \in runs \cup {r} PROVE \E k \in 1 .. n + 1 : further[k] = q
  <2>1. CASE q \in runs
    <3>1. PICK k \in 1 .. n : order[k] = q
      BY <1>1, <2>1
    <3>2. k \in 1 .. n + 1 /\ further[k] = q
      BY <1>2, <3>1
    <3>. QED  BY <3>2
  <2>2. CASE q = r
    <3>1. n + 1 \in 1 .. n + 1 /\ further[n + 1] = q
      BY <1>2, <2>2
    <3>. QED  BY <3>1
  <2>. QED  BY <2>1, <2>2
<1>7. ASSUME NEW j \in 1 .. n + 1, NEW k \in 1 .. n + 1, j < k
      PROVE  further[j][2] < further[k][1]
  <2>1. j \in 1 .. n /\ further[j] = order[j] /\ order[j] \in runs
    BY <1>1, <1>2, <1>7
  <2>2. CASE k = n + 1
    <3>1. further[k] = r
      BY <1>2, <2>2
    <3>. QED  BY <2>1, <3>1
  <2>3. CASE k # n + 1
    <3>1. k \in 1 .. n /\ further[k] = order[k]
      BY <1>2, <2>3
    <3>. QED  BY <1>1, <1>7, <2>1, <3>1
  <2>. QED  BY <2>2, <2>3
<1>8. ASSUME NEW k \in 1 .. n + 1 PROVE longer[k] = WordAt(s, further[k])
  <2>1. CASE k = n + 1
    <3>1. further[k] = r
      BY <1>2, <2>1
    <3>. QED  BY <1>4, <2>1, <3>1
  <2>2. CASE k # n + 1
    <3>1. k \in 1 .. n /\ further[k] = order[k]
      BY <1>2, <2>2
    <3>. QED  BY <1>1, <1>4, <3>1
  <2>. QED  BY <2>1, <2>2
<1> HIDE DEF further
<1>9. Splits(longer, s, runs \cup {r})
  <2>1. further \in [1 .. Len(longer) -> runs \cup {r}]
    BY <1>4, <1>5
  <2>2. \A q \in runs \cup {r} : \E k \in 1 .. Len(longer) : further[k] = q
    BY <1>4, <1>6
  <2>3. \A j, k \in 1 .. Len(longer) : j < k => further[j][2] < further[k][1]
    BY <1>4, <1>7
  <2>4. \A k \in 1 .. Len(longer) : longer[k] = WordAt(s, further[k])
    BY <1>4, <1>8
  <2>. QED  BY <2>1, <2>2, <2>3, <2>4 DEF Splits
<1>. QED  BY <1>9 DEF longer

-----------------------------------------------------------------------------
(* The invariant of fieldSplit's loop: behind the character at i it has the *)
(* words that begin before its start, and is within a run or behind a blank. *)

RunsBefore(s, n) == {r \in Runs(s) : r[1] < n}

Reading(s, acc, i) ==
    /\ acc.start \in 1 .. i + 1
    /\ acc.start > 1 => s[acc.start - 1] = Blank
    /\ \A j \in acc.start .. i : s[j] # Blank
    /\ Splits(acc.parts, s, RunsBefore(s, acc.start))

\* Runs that begin before the start of a stretch of letters lie before it.
LEMMA RunsLieBefore ==
    ASSUME NEW C, NEW s \in Seq(C), NEW m \in 1 .. Len(s), m > 1 => s[m - 1] = Blank,
           NEW q \in RunsBefore(s, m)
    PROVE  q[2] < m
<1>1. Len(s) \in Nat /\ q \in Runs(s) /\ q[1] \in 1 .. Len(s) /\ q[1] < m
  BY LenProperties DEF RunsBefore, Runs
<1>2. m - 1 \in 1 .. Len(s) /\ s[m - 1] = Blank /\ q[1] <= m - 1
  BY <1>1
<1>3. q[2] < m - 1
  BY <1>1, <1>2, RunEndsBefore
<1>4. q[2] \in Nat
  BY <1>1 DEF Runs
<1>. QED  BY <1>1, <1>3, <1>4

\* What the loop appends, in its middle or behind it, is the next word.
LEMMA NextWord ==
    ASSUME NEW C, NEW s \in Seq(C), NEW acc \in Accumulator(C), NEW i \in 1 .. Len(s),
           Reading(s, acc, i), acc.start <= i, i < Len(s) => s[i + 1] = Blank
    PROVE  LET parts == Append(acc.parts, SubSeq(s, acc.start, i)) IN
           \A n \in i + 1 .. i + 2 :
              (n = i + 2 => i < Len(s)) => Splits(parts, s, RunsBefore(s, n))
<1> DEFINE m == acc.start
           r == <<m, i>>
<1>1. Len(s) \in Nat /\ m \in 1 .. i /\ acc.parts \in Seq(Seq(C))
  BY LenProperties DEF Reading, Accumulator
<1>2. r \in Runs(s) /\ \A q \in Runs(s) : q[1] \in m .. i => q = r
  <2>1. /\ m \in 1 .. Len(s) /\ i \in m .. Len(s)
        /\ \A j \in m .. i : s[j] # Blank
        /\ m > 1 => s[m - 1] = Blank
    BY <1>1 DEF Reading
  <2> HIDE DEF m
  <2>. QED  BY <2>1, RunIs
<1>3. \A q \in RunsBefore(s, m) : q[2] < r[1]
  BY <1>1, RunsLieBefore DEF Reading
<1>4. Splits(Append(acc.parts, WordAt(s, r)), s, RunsBefore(s, m) \cup {r})
  BY <1>1, <1>2, <1>3, SplitsAppend DEF Reading, RunsBefore
<1>5. ASSUME NEW n \in i + 1 .. i + 2, n = i + 2 => i < Len(s)
      PROVE  RunsBefore(s, m) \cup {r} = RunsBefore(s, n)
  <2>1. ASSUME NEW q \in Runs(s) PROVE q[1] < n <=> q[1] < m \/ q = r
    <3>1. q[1] \in 1 .. Len(s) /\ s[q[1]] # Blank
      BY DEF Runs
    <3>2. q[1] # i + 1 \/ i >= Len(s)
      BY <1>1, <3>1
    <3>. QED  BY <1>1, <1>2, <1>5, <3>1, <3>2
  <2>. QED  BY <1>2, <2>1 DEF RunsBefore
<1>6. WordAt(s, r) = SubSeq(s, m, i)
  BY DEF WordAt
<1>. QED  BY <1>4, <1>5, <1>6

LEMMA ReadingKept ==
    ASSUME NEW C, NEW s \in Seq(C), NEW acc \in Accumulator(C), NEW i \in 1 .. Len(s),
           Reading(s, acc, i - 1)
    PROVE  Reading(s, Visit(s, Blank, acc, i), i)
<1>1. Len(s) \in Nat /\ acc.start \in 1 .. i /\ acc.parts \in Seq(Seq(C))
  BY LenProperties DEF Reading, Accumulator
<1>2. CASE s[i] # Blank
  <2>1. Visit(s, Blank, acc, i) = acc
    BY <1>2 DEF Visit
  <2>2. \A j \in acc.start .. i : s[j] # Blank
    BY <1>1, <1>2 DEF Reading
  <2>. QED  BY <1>1, <2>1, <2>2 DEF Reading
<1>3. CASE s[i] = Blank
  <2> DEFINE new == Visit(s, Blank, acc, i)
  <2>1. new.start = i + 1
    BY <1>3 DEF Visit
  <2>2. Splits(new.parts, s, RunsBefore(s, i + 1))
    <3>1. CASE i > acc.start
      <4>1. new.parts = Append(acc.parts, SubSeq(s, acc.start, i - 1))
        BY <1>3, <3>1 DEF Visit
      <4>2. /\ i - 1 \in 1 .. Len(s) /\ acc.start <= i - 1
            /\ i - 1 < Len(s) /\ s[(i - 1) + 1] = Blank
            /\ i + 1 \in (i - 1) + 1 .. (i - 1) + 2
        BY <1>1, <1>3, <3>1
      <4>. QED  BY <4>1, <4>2, NextWord
    <3>2. CASE i = acc.start
      <4>1. new.parts = acc.parts
        BY <1>3, <3>2 DEF Visit
      <4>2. RunsBefore(s, i + 1) = RunsBefore(s, i)
        <5>1. ASSUME NEW q \in Runs(s) PROVE q[1] # i /\ q[1] \in Nat
          BY <1>3 DEF Runs
        <5>. QED  BY <1>1, <5>1 DEF RunsBefore
      <4>. QED  BY <3>2, <4>1, <4>2 DEF Reading
    <3>. QED  BY <1>1, <3>1, <3>2
  <2> HIDE DEF new
  <2>3. Reading(s, new, i)
    BY <1>1, <1>3, <2>1, <2>2 DEF Reading
  <2>. QED  BY <2>3 DEF new
<1>. QED  BY <1>2, <1>3

LEMMA ReadingAlways ==
    ASSUME NEW C, NEW s \in Seq(C)
    PROVE  \A i \in 0 .. Len(s) : Reading(s, Scan(s, Blank)[i], i)
<1> DEFINE P == {i \in 0 .. Len(s) : Reading(s, Scan(s, Blank)[i], i)}
<1>1. Len(s) \in Nat
  BY LenProperties
<1>2. 0 \in P
  <2>1. RunsBefore(s, 1) = {}
    BY DEF RunsBefore, Runs
  <2>2. Splits(<<>>, s, {})
    <3>1. [k \in 1 .. 0 |-> 0] \in [1 .. Len(<<>>) -> {}]
      OBVIOUS
    <3>. QED  BY <3>1 DEF Splits
  <2>3. NothingRead.start = 1 /\ NothingRead.parts = <<>>
    BY DEF NothingRead
  <2>4. Reading(s, NothingRead, 0)
    <3>1. Splits(NothingRead.parts, s, RunsBefore(s, NothingRead.start))
      BY <2>1, <2>2, <2>3
    <3>2. /\ NothingRead.start \in 1 .. 0 + 1 /\ ~ (NothingRead.start > 1)
          /\ \A j \in NothingRead.start .. 0 : s[j] # Blank
      BY <2>3
    <3>. QED  BY <3>1, <3>2 DEF Reading
  <2>. QED  BY <1>1, <2>4, ScanStep
<1>3. ASSUME NEW i \in 1 .. Len(s), i - 1 \in P PROVE i \in P
  <2>1. i - 1 \in 0 .. Len(s) /\ i \in 0 .. Len(s)
    BY <1>1
  <2>2. Reading(s, Visit(s, Blank, Scan(s, Blank)[i - 1], i), i)
    BY <1>3, <2>1, ScanStep, ReadingKept
  <2>. QED  BY <2>1, <2>2, ScanStep
<1>4. \A i \in 0 .. Len(s) : i \in P
  <2> HIDE DEF P
  <2>. QED  BY <1>1, <1>2, <1>3, Induction
<1>. QED  BY <1>4

\* fieldSplit takes every string apart into its words, each once and in order,
\* whatever blanks lead, trail or repeat (store.go:257-274).
THEOREM SplitsEveryString ==
    ASSUME NEW C, NEW s \in Seq(C)
    PROVE  Splits(fieldSplit(s, Blank), s, Runs(s))
<1> DEFINE n == Len(s)
           end == Scan(s, Blank)[n]
<1>1. n \in Nat
  BY LenProperties
<1>2. end \in Accumulator(C) /\ Reading(s, end, n)
  BY <1>1, ScanStep, ReadingAlways
<1> HIDE DEF end
<1>3. end.start \in 1 .. n + 1
  BY <1>2 DEF Reading
<1>4. RunsBefore(s, n + 1) = Runs(s)
  BY <1>1 DEF RunsBefore, Runs
<1>5. CASE end.start <= n
  <2>1. fieldSplit(s, Blank) = Append(end.parts, SubSeq(s, end.start, n))
    BY <1>5 DEF fieldSplit, end
  <2>2. n \in 1 .. Len(s) /\ n + 1 \in n + 1 .. n + 2
    BY <1>1, <1>3, <1>5
  <2>. QED  BY <1>1, <1>2, <1>4, <1>5, <2>1, <2>2, NextWord
<1>6. CASE ~ (end.start <= n)
  <2>1. fieldSplit(s, Blank) = end.parts
    BY <1>6 DEF fieldSplit, end
  <2>2. end.start = n + 1
    BY <1>1, <1>3, <1>6
  <2>. QED  BY <1>2, <1>4, <2>1, <2>2 DEF Reading
<1>. QED  BY <1>5, <1>6

-----------------------------------------------------------------------------
(* Joined registrations *)

\* Strings that begin alike have the same stretches there ...
LEMMA SameStretch ==
    ASSUME NEW C, NEW s \in Seq(C), NEW t \in Seq(C), NEW m \in Nat \ {0},
           NEW n \in 0 .. Len(s), n <= Len(t), \A i \in 1 .. n : s[i] = t[i]
    PROVE  SubSeq(s, m, n) = SubSeq(t, m, n)
<1>1. Len(s) \in Nat /\ Len(t) \in Nat /\ m \in Int /\ n \in Int /\ n \in 0 .. Len(t)
  BY LenProperties
<1>2. SubSeq(s, m, n) \in Seq(C) /\ SubSeq(t, m, n) \in Seq(C)
  BY <1>1, StretchType
<1>3. \A j \in m .. n : s[j] \in C /\ t[j] \in C
  BY <1>1, LenProperties
<1>4. /\ Len(SubSeq(s, m, n)) = IF m <= n THEN n - m + 1 ELSE 0
      /\ \A i \in 1 .. n - m + 1 : SubSeq(s, m, n)[i] = s[m + i - 1]
  BY <1>1, <1>3, SubSeqProperties
<1>5. /\ Len(SubSeq(t, m, n)) = IF m <= n THEN n - m + 1 ELSE 0
      /\ \A i \in 1 .. n - m + 1 : SubSeq(t, m, n)[i] = t[m + i - 1]
  BY <1>1, <1>3, SubSeqProperties
<1>6. ASSUME NEW i \in 1 .. Len(SubSeq(s, m, n))
      PROVE  SubSeq(s, m, n)[i] = SubSeq(t, m, n)[i]
  <2>1. i \in 1 .. n - m + 1 /\ m + i - 1 \in 1 .. n
    BY <1>1, <1>4
  <2>. QED  BY <1>4, <1>5, <2>1
<1>. QED  BY <1>2, <1>4, <1>5, <1>6, SeqEqual

\* ... and the loop holds the same there.
LEMMA ScanPrefix ==
    ASSUME NEW C, NEW s \in Seq(C), NEW t \in Seq(C), Len(s) <= Len(t),
           \A i \in 1 .. Len(s) : s[i] = t[i]
    PROVE  \A i \in 0 .. Len(s) : Scan(t, Blank)[i] = Scan(s, Blank)[i]
<1> DEFINE P == {i \in 0 .. Len(s) : Scan(t, Blank)[i] = Scan(s, Blank)[i]}
<1>1. Len(s) \in Nat /\ Len(t) \in Nat
  BY LenProperties
<1>2. 0 \in P
  BY <1>1, ScanStep
<1>3. ASSUME NEW i \in 1 .. Len(s), i - 1 \in P PROVE i \in P
  <2> DEFINE acc == Scan(s, Blank)[i - 1]
  <2>1. i \in 1 .. Len(t) /\ i - 1 \in 0 .. Len(s)
    BY <1>1
  <2>2. acc.start \in Nat \ {0}
    BY <2>1, ScanStep DEF Accumulator
  <2>3. Scan(t, Blank)[i] = Visit(t, Blank, acc, i)
    BY <1>3, <2>1, ScanStep
  <2>4. Scan(s, Blank)[i] = Visit(s, Blank, acc, i)
    BY ScanStep
  <2> HIDE DEF acc
  <2>5. SubSeq(s, acc.start, i - 1) = SubSeq(t, acc.start, i - 1)
    <3> DEFINE n == i - 1
               m == acc.start
    <3>1. m \in Nat \ {0} /\ n \in 0 .. Len(s) /\ n <= Len(t)
      BY <1>1, <2>1, <2>2
    <3>2. \A j \in 1 .. n : s[j] = t[j]
      BY <1>1
    <3> HIDE DEF n, m
    <3>3. SubSeq(s, m, n) = SubSeq(t, m, n)
      BY <3>1, <3>2, SameStretch
    <3>. QED  BY <3>3 DEF m, n
  <2>6. Visit(t, Blank, acc, i) = Visit(s, Blank, acc, i)
    BY <2>5 DEF Visit
  <2>. QED  BY <1>1, <2>3, <2>4, <2>6
<1>4. \A i \in 0 .. Len(s) : i \in P
  <2> HIDE DEF P
  <2>. QED  BY <1>1, <1>2, <1>3, Induction
<1>. QED  BY <1>4

\* Letters leave alone what the loop holds.
LEMMA ScanLetters ==
    ASSUME NEW C, NEW s \in Seq(C), NEW m \in 1 .. Len(s),
           \A i \in m .. Len(s) : s[i] # Blank
    PROVE  Scan(s, Blank)[Len(s)] = Scan(s, Blank)[m - 1]
<1> DEFINE n == Len(s)
           P == {i \in 0 .. n : i >= m - 1 => Scan(s, Blank)[i] = Scan(s, Blank)[m - 1]}
<1>1. n \in Nat
  BY LenProperties
<1>2. 0 \in P
  <2>1. 0 >= m - 1 => m - 1 = 0
    BY <1>1
  <2>. QED  BY <1>1, <2>1
<1>3. ASSUME NEW i \in 1 .. n, i - 1 \in P PROVE i \in P
  <2>1. CASE i >= m
    <3>1. Scan(s, Blank)[i] = Visit(s, Blank, Scan(s, Blank)[i - 1], i)
      BY ScanStep
    <3>2. s[i] # Blank /\ i - 1 >= m - 1
      BY <1>1, <2>1
    <3>3. Scan(s, Blank)[i] = Scan(s, Blank)[i - 1]
      BY <3>1, <3>2 DEF Visit
    <3>. QED  BY <1>1, <1>3, <3>2, <3>3
  <2>2. CASE ~ (i >= m)
    <3>1. i >= m - 1 => i = m - 1
      BY <1>1, <2>2
    <3>. QED  BY <1>1, <3>1
  <2>. QED  BY <2>1, <2>2
<1>4. n \in P
  <2> HIDE DEF P, n
  <2>1. \A i \in 0 .. n : i \in P
    BY <1>1, <1>2, <1>3, Induction
  <2>. QED  BY <1>1, <2>1
<1>. QED  BY <1>1, <1>4

\* A word by itself is taken for one part.
LEMMA SplitWord ==
    ASSUME NEW C, NEW w \in Seq(C), w # <<>>, \A i \in 1 .. Len(w) : w[i] # Blank
    PROVE  fieldSplit(w, Blank) = <<w>>
<1>1. Len(w) \in Nat \ {0}
  BY EmptySeq
<1>2. Scan(w, Blank)[Len(w)] = NothingRead
  <2>1. 1 \in 1 .. Len(w) /\ 1 - 1 = 0
    BY <1>1
  <2>. QED  BY <2>1, ScanLetters, ScanStep
<1>3. fieldSplit(w, Blank) = Append(<<>>, SubSeq(w, 1, Len(w)))
  BY <1>1, <1>2 DEF fieldSplit, NothingRead
<1>4. SubSeq(w, 1, Len(w)) = w
  BY SubSeqFull
<1>5. Append(<<>>, w) = <<w>>
  OBVIOUS
<1>. QED  BY <1>3, <1>4, <1>5

\* A word behind a blank is the last part of what it is put behind.
LEMMA SplitBehind ==
    ASSUME NEW C, Blank \in C, NEW s \in Seq(C), NEW w \in Seq(C), w # <<>>,
           \A i \in 1 .. Len(w) : w[i] # Blank
    PROVE  fieldSplit(s \o <<Blank>> \o w, Blank) = Append(fieldSplit(s, Blank), w)
<1> DEFINE t == s \o <<Blank>> \o w
           n == Len(s)
           old == Scan(s, Blank)[n]
<1>1. n \in Nat /\ Len(w) \in Nat \ {0}
  BY LenProperties, EmptySeq
<1>2. /\ t \in Seq(C) /\ Len(t) = n + 1 + Len(w)
      /\ \A i \in 1 .. n : t[i] = s[i]
      /\ t[n + 1] = Blank
      /\ \A i \in 1 .. Len(w) : t[n + 1 + i] = w[i]
  <2>1. <<Blank>> \in Seq(C) /\ Len(<<Blank>>) = 1 /\ <<Blank>>[1] = Blank
    OBVIOUS
  <2> DEFINE u == s \o <<Blank>>
  <2>2. /\ u \in Seq(C) /\ Len(u) = n + 1
        /\ \A i \in 1 .. n + 1 : u[i] = IF i <= n THEN s[i] ELSE <<Blank>>[i - n]
    BY <2>1, ConcatProperties
  <2>3. /\ u \o w \in Seq(C) /\ Len(u \o w) = Len(u) + Len(w)
        /\ \A i \in 1 .. Len(u) + Len(w) :
              (u \o w)[i] = IF i <= Len(u) THEN u[i] ELSE w[i - Len(u)]
    BY <2>2, ConcatProperties
  <2> HIDE DEF u, n
  <2>4. \A i \in 1 .. n : u[i] = s[i]
    BY <1>1, <2>2
  <2>5. u[n + 1] = Blank
    BY <1>1, <2>1, <2>2
  <2>6. \A i \in 1 .. n : (u \o w)[i] = s[i]
    BY <1>1, <2>2, <2>3, <2>4
  <2>7. (u \o w)[n + 1] = Blank
    BY <1>1, <2>2, <2>3, <2>5
  <2>8. ASSUME NEW i \in 1 .. Len(w) PROVE (u \o w)[n + 1 + i] = w[i]
    <3> DEFINE j == n + 1 + i
    <3>1. j \in 1 .. Len(u) + Len(w) /\ ~ (j <= Len(u)) /\ j - Len(u) = i
      BY <1>1, <2>2
    <3> HIDE DEF j
    <3>2. (u \o w)[j] = w[i]
      BY <2>3, <3>1
    <3>. QED  BY <3>2 DEF j
  <2>9. Len(u \o w) = n + 1 + Len(w)
    BY <2>2, <2>3
  <2>10. t = u \o w
    BY DEF u
  <2> HIDE DEF t
  <2>. QED  BY <2>3, <2>6, <2>7, <2>8, <2>9, <2>10
<1> HIDE DEF t
<1>3. old \in Accumulator(C) /\ old.start \in 1 .. n + 1
  BY <1>1, ScanStep, ReadingAlways DEF Reading
<1>4. Scan(t, Blank)[n] = old
  BY <1>1, <1>2, ScanPrefix
<1>5. Scan(t, Blank)[n + 1] = [parts |-> fieldSplit(s, Blank), start |-> n + 2]
  <2>1. Scan(t, Blank)[n + 1] = Visit(t, Blank, old, n + 1)
    <3>1. n + 1 \in 1 .. Len(t) /\ (n + 1) - 1 = n
      BY <1>1, <1>2
    <3> HIDE DEF n, old
    <3>. QED  BY <1>2, <1>4, <3>1, ScanStep
  <2>2. SubSeq(t, old.start, n) = SubSeq(s, old.start, n)
    <3>1. n \in 0 .. Len(s) /\ n <= Len(t) /\ old.start \in Nat \ {0}
      BY <1>1, <1>2, <1>3
    <3>. QED  BY <1>2, <3>1, SameStretch
  <2>3. (n + 1) - 1 = n /\ (n + 1) + 1 = n + 2 /\ (n + 1 > old.start <=> old.start <= n)
    BY <1>1, <1>3
  <2> HIDE DEF old
  <2>4. fieldSplit(s, Blank) = IF old.start <= n THEN Append(old.parts, SubSeq(s, old.start, n))
                                                ELSE old.parts
    BY DEF fieldSplit, old
  <2> HIDE DEF n
  <2>. QED  BY <1>2, <2>1, <2>2, <2>3, <2>4 DEF Visit
<1>6. Scan(t, Blank)[Len(t)] = [parts |-> fieldSplit(s, Blank), start |-> n + 2]
  <2>1. n + 2 \in 1 .. Len(t) /\ (n + 2) - 1 = n + 1
    BY <1>1, <1>2
  <2>2. ASSUME NEW i \in n + 2 .. Len(t) PROVE t[i] # Blank
    <3>1. i - (n + 1) \in 1 .. Len(w) /\ i = n + 1 + (i - (n + 1))
      BY <1>1, <1>2
    <3>. QED  BY <1>2, <3>1
  <2> HIDE DEF n
  <2>3. Scan(t, Blank)[Len(t)] = Scan(t, Blank)[(n + 2) - 1]
    BY <1>2, <2>1, <2>2, ScanLetters
  <2>. QED  BY <1>5, <2>1, <2>3
<1>7. SubSeq(t, n + 2, Len(t)) = w
  <2>1. n + 2 \in Int /\ Len(t) \in Int /\ n + 2 <= Len(t) /\ Len(t) - (n + 2) + 1 = Len(w)
    BY <1>1, <1>2
  <2>2. \A j \in n + 2 .. Len(t) : t[j] \in C
    BY <1>1, <1>2, LenProperties
  <2> HIDE DEF n
  <2>3. /\ SubSeq(t, n + 2, Len(t)) \in Seq(C)
        /\ Len(SubSeq(t, n + 2, Len(t))) = Len(w)
        /\ \A i \in 1 .. Len(w) : SubSeq(t, n + 2, Len(t))[i] = t[n + 2 + i - 1]
    BY <2>1, <2>2, SubSeqProperties
  <2>4. ASSUME NEW i \in 1 .. Len(w) PROVE SubSeq(t, n + 2, Len(t))[i] = w[i]
    <3>1. n + 2 + i - 1 = n + 1 + i
      BY <1>1
    <3>. QED  BY <1>2, <2>3, <3>1
  <2>. QED  BY <2>3, <2>4, SeqEqual
<1>8. n + 2 <= Len(t)
  BY <1>1, <1>2
<1> HIDE DEF n
<1>9. fieldSplit(t, Blank) = Append(fieldSplit(s, Blank), w)
  <2> DEFINE last == Scan(t, Blank)[Len(t)]
  <2>1. last.start = n + 2 /\ last.parts = fieldSplit(s, Blank)
    BY <1>6
  <2>2. fieldSplit(t, Blank) = IF last.start <= Len(t)
                               THEN Append(last.parts, SubSeq(t, last.start, Len(t)))
                               ELSE last.parts
    BY DEF fieldSplit
  <2> HIDE DEF last
  <2>. QED  BY <1>7, <1>8, <2>1, <2>2
<1>. QED  BY <1>9 DEF t

\* The empty string has no parts.
LEMMA SplitNothing == fieldSplit(<<>>, Blank) = <<>>
<1>1. <<>> \in Seq({}) /\ Len(<<>>) = 0
  BY EmptySeq
<1>2. Scan(<<>>, Blank)[Len(<<>>)] = NothingRead
  BY <1>1, ScanStep
<1>3. NothingRead.start = 1 /\ NothingRead.parts = <<>>
  BY DEF NothingRead
<1>. QED  BY <1>1, <1>2, <1>3 DEF fieldSplit

\* The string that a registration is joined to falls into the registered names,
\* each once and in order (store.go:286 against 257-274).
THEOREM SplitsWhatIsJoined ==
    ASSUME NEW C, Blank \in C, NEW names \in Seq(Seq(C)),
           \A k \in 1 .. Len(names) :
              names[k] # <<>> /\ \A i \in 1 .. Len(names[k]) : names[k][i] # Blank
    PROVE  Join(names) \in Seq(C) /\ fieldSplit(Join(names), Blank) = names
<1> DEFINE n == Len(names)
           Agreed(k) == fieldSplit(Joined(names)[k], Blank) = SubSeq(names, 1, k)
           P == {k \in 0 .. n : Agreed(k)}
<1>1. n \in Nat
  BY LenProperties
<1>2. 0 \in P
  <2>1. Joined(names)[0] = <<>>
    BY JoinStep
  <2>2. SubSeq(names, 1, 0) = <<>>
    BY SubSeqEmpty
  <2>3. Agreed(0)
    BY <2>1, <2>2, SplitNothing
  <2> HIDE DEF Agreed
  <2>. QED  BY <1>1, <2>3
<1>3. ASSUME NEW k \in 1 .. n, k - 1 \in P PROVE k \in P
  <2> DEFINE w == names[k]
             s == Joined(names)[k - 1]
  <2>1. w \in Seq(C) /\ w # <<>> /\ \A i \in 1 .. Len(w) : w[i] # Blank
    BY ElementOfSeq
  <2>2. k - 1 \in 0 .. n /\ s \in Seq(C)
    BY <1>1, JoinStep
  <2>3. CASE k = 1
    <3>1. Joined(names)[1] = names[1]
      BY <2>3, JoinStep
    <3>2. SubSeq(names, 1, 1) = <<names[1]>>
      <4>1. 1 \in 1 .. n
        BY <2>3
      <4>2. SubSeq(names, 1, 1) = SubSeq(names, 1, 0) \o <<names[1]>>
        BY <4>1, SubSeqRecursiveSecond
      <4>3. SubSeq(names, 1, 0) = <<>> /\ <<names[1]>> \in Seq(Seq(C))
        BY <2>1, <2>3, SubSeqEmpty
      <4>. QED  BY <4>2, <4>3, ConcatEmptySeq
    <3>3. fieldSplit(names[1], Blank) = <<names[1]>>
      <4> HIDE DEF w
      <4>1. fieldSplit(w, Blank) = <<w>>
        BY <2>1, SplitWord
      <4>. QED  BY <2>3, <4>1 DEF w
    <3>4. Agreed(k)
      BY <2>3, <3>1, <3>2, <3>3
    <3> HIDE DEF Agreed
    <3>. QED  BY <1>1, <3>4
  <2>4. CASE k # 1
    <3>1. Joined(names)[k] = s \o <<Blank>> \o w
      BY <2>4, JoinStep
    <3>2. fieldSplit(s, Blank) = SubSeq(names, 1, k - 1)
      BY <1>3
    <3>3. SubSeq(names, 1, k) = Append(SubSeq(names, 1, k - 1), w)
      <4>1. 1 \in 1 .. n /\ k \in 1 .. n
        BY <1>1
      <4>2. SubSeq(names, 1, k) = SubSeq(names, 1, k - 1) \o <<w>>
        BY <4>1, SubSeqRecursiveSecond
      <4>3. SubSeq(names, 1, k - 1) \in Seq(Seq(C))
        BY <1>1, <2>2, StretchType
      <4>. QED  BY <2>1, <4>2, <4>3, AppendIsConcat
    <3> HIDE DEF w, s
    <3>4. fieldSplit(s \o <<Blank>> \o w, Blank) = Append(fieldSplit(s, Blank), w)
      BY <2>1, <2>2, SplitBehind
    <3>5. Agreed(k)
      BY <3>1, <3>2, <3>3, <3>4
    <3> HIDE DEF Agreed
    <3>. QED  BY <1>1, <3>5
  <2>. QED  BY <2>3, <2>4
<1>4. Agreed(n)
  <2> HIDE DEF n, Agreed
  <2>1. 0 \in P /\ \A k \in 1 .. n : k - 1 \in P => k \in P
    BY <1>2, <1>3
  <2> HIDE DEF P
  <2>2. \A k \in 0 .. n : k \in P
    BY <1>1, <2>1, Induction
  <2>. QED  BY <1>1, <2>2 DEF P
<1>5. Join(names) = Joined(names)[n] /\ Joined(names)[n] \in Seq(C)
  BY <1>1, JoinStep DEF Join
<1>6. SubSeq(names, 1, n) = names
  BY SubSeqFull
<1>. QED  BY <1>4, <1>5, <1>6

-----------------------------------------------------------------------------
(* Strings and the sets that Scopes takes them for *)

\* The parts of a string are the words at its runs.
LEMMA PartsAreWords ==
    ASSUME NEW C, NEW s \in Seq(C)
    PROVE  Parts(s) = {WordAt(s, r) : r \in Runs(s)}
<1> DEFINE parts == fieldSplit(s, Blank)
<1>1. PICK order \in [1 .. Len(parts) -> Runs(s)] :
        /\ \A r \in Runs(s) : \E k \in 1 .. Len(parts) : order[k] = r
        /\ \A k \in 1 .. Len(parts) : parts[k] = WordAt(s, order[k])
  BY SplitsEveryString DEF Splits
<1>2. DOMAIN parts = 1 .. Len(parts)
  <2>1. Scan(s, Blank)[Len(s)] \in Accumulator(C)
    BY ScanStep, LenProperties
  <2>2. SubSeq(s, Scan(s, Blank)[Len(s)].start, Len(s)) \in Seq(C)
    BY <2>1, StretchType, LenProperties DEF Accumulator
  <2>3. parts \in Seq(Seq(C))
    BY <2>1, <2>2, AppendProperties DEF fieldSplit, Accumulator
  <2>. QED  BY <2>3, LenProperties
<1> HIDE DEF parts
<1>3. ToSet(parts) = {WordAt(s, r) : r \in Runs(s)}
  BY <1>1, <1>2 DEF ToSet
<1>4. ASSUME NEW r \in Runs(s) PROVE WordAt(s, r) # <<>>
  <2>1. Len(WordAt(s, r)) # 0
    BY StretchType, LenProperties DEF Runs, WordAt
  <2>. QED  BY <2>1, EmptySeq
<1>. QED  BY <1>3, <1>4 DEF Parts, parts

\* The names of a scope are the parts of any string that spells it ...
LEMMA NamesArePossibleParts ==
    ASSUME NEW s \in Seq(Letter \cup {Blank})
    PROVE  splitSpaces(SpelledBy(s)) = {name \in ScopeName : Word[name] \in Parts(s)}
<1>1. Parts(s) = {WordAt(s, r) : r \in Runs(s)}
  BY PartsAreWords
<1>2. CASE s = <<>>
  <2>1. Runs(s) = {}
    BY <1>2 DEF Runs
  <2>. QED  BY <1>1, <1>2, <2>1 DEF splitSpaces, SpelledBy
<1>3. CASE s # <<>>
  <2>1. SpelledBy(s) \in SUBSET ScopeName
    BY <1>3 DEF SpelledBy
  <2>. QED  BY <1>1, <1>3, <2>1, ScopesAssumption DEF splitSpaces, SpelledBy
<1>. QED  BY <1>2, <1>3

\* ... and if it is made of names, it has no other parts.
LEMMA LegibleParts ==
    ASSUME NEW s, Legible(s)
    PROVE  /\ Parts(s) = {Word[name] : name \in splitSpaces(SpelledBy(s))}
           /\ s = <<>> <=> SpelledBy(s) = NoScope
<1>1. s \in Seq(Letter \cup {Blank}) /\ Parts(s) = {WordAt(s, r) : r \in Runs(s)}
  BY PartsAreWords DEF Legible
<1>2. ASSUME NEW r \in Runs(s)
      PROVE  \E name \in ScopeName : WordAt(s, r) = Word[name]
  BY DEF Legible
<1>3. s = <<>> <=> SpelledBy(s) = NoScope
  BY ScopesAssumption DEF SpelledBy
<1>. QED  BY <1>1, <1>2, <1>3, NamesArePossibleParts

\* Different names are different words.
LEMMA WordsCompare ==
    ASSUME NEW A \in SUBSET ScopeName, NEW B \in SUBSET ScopeName
    PROVE  /\ A \subseteq B <=>
                 {Word[name] : name \in A} \subseteq {Word[name] : name \in B}
           /\ \A n \in ScopeName : n \in A <=> Word[n] \in {Word[name] : name \in A}
<1>1. \A m, n \in ScopeName : Word[m] = Word[n] => m = n
  BY ScopeStringsAssumption
<1>2. ASSUME NEW n \in ScopeName, NEW D \in SUBSET ScopeName
      PROVE  n \in D <=> Word[n] \in {Word[name] : name \in D}
  BY <1>1
<1>3. ASSUME {Word[name] : name \in A} \subseteq {Word[name] : name \in B}, NEW n \in A
      PROVE  n \in B
  <2>1. Word[n] \in {Word[name] : name \in B}
    BY <1>3
  <2>. QED  BY <1>2, <2>1
<1>. QED  BY <1>2, <1>3

\* A registration as a client holds it: the words of its names.
RegisteredWords(names) == [k \in 1 .. Len(names) |-> Word[names[k]]]

LEMMA JoinSpells ==
    ASSUME NEW names \in Seq(ScopeName)
    PROVE  /\ Join(RegisteredWords(names)) \in Seq(Letter \cup {Blank})
           /\ fieldSplit(Join(RegisteredWords(names)), Blank) = RegisteredWords(names)
           /\ Parts(Join(RegisteredWords(names))) = ToSet(RegisteredWords(names))
           /\ ToSet(RegisteredWords(names)) = {Word[name] : name \in ToSet(names)}
           /\ Len(RegisteredWords(names)) = Len(names)
<1> DEFINE C == Letter \cup {Blank}
           words == RegisteredWords(names)
<1>1. Len(names) \in Nat /\ \A k \in 1 .. Len(names) : names[k] \in ScopeName
  BY LenProperties
<1>2. ASSUME NEW name \in ScopeName
      PROVE  /\ Word[name] \in Seq(C) /\ Word[name] # <<>>
             /\ \A i \in 1 .. Len(Word[name]) : Word[name][i] # Blank
  <2>1. Word[name] \in Seq(Letter) /\ Word[name] # <<>>
    BY ScopeStringsAssumption
  <2>2. Word[name] \in Seq(C)
    BY <2>1, SeqMonotonic
  <2>3. \A i \in 1 .. Len(Word[name]) : Word[name][i] \in Letter
    BY <2>1, ElementOfSeq
  <2>. QED  BY <2>1, <2>2, <2>3, ScopeStringsAssumption
<1>3. words \in Seq(Seq(C)) /\ Len(words) = Len(names)
  <2> HIDE DEF C
  <2>1. words \in [1 .. Len(names) -> Seq(C)]
    BY <1>1, <1>2 DEF RegisteredWords
  <2>. QED  BY <1>1, <2>1
<1>4. \A k \in 1 .. Len(words) :
         words[k] # <<>> /\ \A i \in 1 .. Len(words[k]) : words[k][i] # Blank
  BY <1>1, <1>2, <1>3 DEF RegisteredWords
<1>5. ToSet(words) = {Word[name] : name \in ToSet(names)}
  <2>1. DOMAIN names = 1 .. Len(names)
    BY LenProperties
  <2>. QED  BY <2>1 DEF ToSet, RegisteredWords
<1> HIDE DEF words
<1>6. Join(words) \in Seq(C) /\ fieldSplit(Join(words), Blank) = words
  BY <1>3, <1>4, SplitsWhatIsJoined
<1>7. Parts(Join(words)) = ToSet(words)
  <2>1. DOMAIN words = 1 .. Len(words)
    BY <1>3, LenProperties
  <2>2. <<>> \notin ToSet(words)
    BY <1>4, <2>1 DEF ToSet
  <2>. QED  BY <1>6, <2>2 DEF Parts
<1>. QED  BY <1>3, <1>5, <1>6, <1>7 DEF words

\* Scopes is faithful: on strings that are made of names, whatever their blanks,
\* order and repetitions, each function of store.go (233-318) answers what its
\* counterpart answers on the sets they spell.
THEOREM SetsForStrings ==
    ASSUME NEW names \in Seq(ScopeName), NEW s, Legible(s), NEW t, Legible(t)
    PROVE  LET registered == RegisteredWords(names)
               Spelled(u) == SpelledBy(u) IN
           /\ \A name \in ScopeName :
                 StringContains(s, Word[name]) <=> ContainsScope(Spelled(s), name)
           /\ StringPermitted(registered, s) <=> ScopePermitted(ToSet(names), Spelled(s))
           /\ StringNarrowed(s, t) <=> isScopeNarrowed(Spelled(s), Spelled(t))
           /\ Spelled(StringResolved(registered, s)) = ResolvedScope(ToSet(names), Spelled(s))
<1> DEFINE registered == RegisteredWords(names)
<1>1. /\ Parts(s) = {Word[name] : name \in splitSpaces(SpelledBy(s))}
      /\ Parts(t) = {Word[name] : name \in splitSpaces(SpelledBy(t))}
      /\ s = <<>> <=> SpelledBy(s) = NoScope
      /\ t = <<>> <=> SpelledBy(t) = NoScope
  BY LegibleParts
<1>2. splitSpaces(SpelledBy(s)) \subseteq ScopeName /\ splitSpaces(SpelledBy(t)) \subseteq ScopeName
  BY NamesArePossibleParts DEF Legible
<1>3. /\ ToSet(registered) = {Word[name] : name \in ToSet(names)}
      /\ Len(registered) = Len(names) /\ Parts(Join(registered)) = ToSet(registered)
      /\ Join(registered) \in Seq(Letter \cup {Blank})
  BY JoinSpells
<1>4. ToSet(names) \subseteq ScopeName /\ (Len(names) = 0 <=> ToSet(names) = {})
  <2>1. /\ DOMAIN names = 1 .. Len(names) /\ Len(names) \in Nat
        /\ \A k \in 1 .. Len(names) : names[k] \in ScopeName
    BY LenProperties
  <2>2. Len(names) # 0 => 1 \in DOMAIN names
    BY <2>1
  <2>3. ToSet(names) = {names[k] : k \in 1 .. Len(names)}
    BY <2>1 DEF ToSet
  <2>4. Len(names) # 0 => names[1] \in ToSet(names)
    BY <2>1, <2>2, <2>3
  <2>5. Len(names) = 0 => ToSet(names) = {}
    BY <2>3
  <2>6. ToSet(names) \subseteq ScopeName
    BY <2>1, <2>3
  <2>. QED  BY <2>4, <2>5, <2>6
<1> HIDE DEF registered
<1>5. ASSUME NEW name \in ScopeName
      PROVE  StringContains(s, Word[name]) <=> ContainsScope(SpelledBy(s), name)
  <2>1. name \in splitSpaces(SpelledBy(s)) <=> Word[name] \in Parts(s)
    BY <1>1, <1>2, WordsCompare
  <2>. QED  BY <2>1 DEF StringContains, ContainsScope
<1>6. StringPermitted(registered, s) <=> ScopePermitted(ToSet(names), SpelledBy(s))
  <2> DEFINE A == splitSpaces(SpelledBy(s))
            B == ToSet(names)
  <2>1. Parts(s) = {Word[name] : name \in A} /\ ToSet(registered) = {Word[name] : name \in B}
    BY <1>1, <1>3
  <2>2. A \in SUBSET ScopeName /\ B \in SUBSET ScopeName
    BY <1>2, <1>4
  <2> HIDE DEF A, B
  <2>3. A \subseteq B <=>
           {Word[name] : name \in A} \subseteq {Word[name] : name \in B}
    BY <2>2, WordsCompare
  <2>4. Parts(s) \subseteq ToSet(registered) <=> A \subseteq B
    BY <2>1, <2>3
  <2>5. Parts(s) \subseteq ToSet(registered) <=> splitSpaces(SpelledBy(s)) \subseteq ToSet(names)
    BY <2>4 DEF A, B
  <2>. QED  BY <1>1, <1>3, <1>4, <2>5 DEF StringPermitted, ScopePermitted
<1>7. StringNarrowed(s, t) <=> isScopeNarrowed(SpelledBy(s), SpelledBy(t))
  <2>1. Parts(s) \subseteq Parts(t) <=> splitSpaces(SpelledBy(s)) \subseteq splitSpaces(SpelledBy(t))
    BY <1>1, <1>2, WordsCompare
  <2>. QED  BY <1>1, <2>1 DEF StringNarrowed, isScopeNarrowed
<1>8. SpelledBy(StringResolved(registered, s)) = ResolvedScope(ToSet(names), SpelledBy(s))
  <2>1. CASE Len(names) # 0 /\ s = <<>>
    <3>1. ResolvedScope(ToSet(names), SpelledBy(s)) = ToSet(names)
      BY <1>1, <1>4, <2>1 DEF ResolvedScope
    <3>2. StringResolved(registered, s) = Join(registered)
      BY <1>3, <2>1 DEF StringResolved
    <3>3. Join(registered) # <<>>
      <4>1. Legible(<<>>) /\ splitSpaces(SpelledBy(<<>>)) = {}
        BY <2>1 DEF SpelledBy, splitSpaces
      <4>2. Parts(<<>>) = {}
        BY <4>1, LegibleParts
      <4>. QED  BY <1>3, <1>4, <2>1, <4>2
    <3>4. splitSpaces(SpelledBy(Join(registered))) = ToSet(names)
      <4>1. splitSpaces(SpelledBy(Join(registered))) =
               {name \in ScopeName : Word[name] \in ToSet(registered)}
        BY <1>3, NamesArePossibleParts
      <4>2. \A name \in ScopeName : name \in ToSet(names) <=> Word[name] \in ToSet(registered)
        BY <1>3, <1>4, WordsCompare
      <4>. QED  BY <1>4, <4>1, <4>2
    <3>5. SpelledBy(Join(registered)) = splitSpaces(SpelledBy(Join(registered)))
      <4>1. SpelledBy(Join(registered)) \in SUBSET ScopeName
        BY <3>3 DEF SpelledBy
      <4>. QED  BY <4>1, ScopesAssumption DEF splitSpaces
    <3>. QED  BY <3>1, <3>2, <3>4, <3>5
  <2>2. CASE ~ (Len(names) # 0 /\ s = <<>>)
    BY <1>1, <1>3, <1>4, <2>2 DEF StringResolved, ResolvedScope
  <2>. QED  BY <2>1, <2>2
<1>. QED  BY <1>5, <1>6, <1>7, <1>8 DEF registered

-----------------------------------------------------------------------------

\* No scope that a request carries or the stores hold has a spelling that the server
\* takes apart otherwise than a reader does, whatever the bound on its length.
THEOREM SplitsIntoNamesHolds == LateSpec => []SplitsIntoNames
<1>1. Misread = {}
  <2>1. ASSUME NEW s \in BoundedSeq(Letter \cup {Blank}, MaxLength)
        PROVE  Splits(fieldSplit(s, Blank), s, Runs(s))
    <3>1. s \in Seq(Letter \cup {Blank})
      BY ScopeStringsAssumption, SeqDef DEF BoundedSeq, SeqOf
    <3>. QED  BY <3>1, SplitsEveryString
  <2>. QED  BY <2>1 DEF Misread
<1>2. Misjoined = {}
  <2> DEFINE Words == {Word[name] : name \in ScopeName}
  <2>1. ASSUME NEW us \in BoundedSeq(Words, MaxLength)
        PROVE  fieldSplit(Join(us), Blank) = us
    <3>1. PICK m \in 0 .. MaxLength : us \in [1 .. m -> Words]
      BY DEF BoundedSeq, SeqOf
    <3> DEFINE names == [k \in 1 .. m |-> CHOOSE name \in ScopeName : Word[name] = us[k]]
    <3>2. m \in Nat
      BY ScopeStringsAssumption
    <3>3. \A k \in 1 .. m : names[k] \in ScopeName /\ Word[names[k]] = us[k]
      BY <3>1
    <3>4. names \in Seq(ScopeName) /\ Len(names) = m
      <4>1. names \in [1 .. m -> ScopeName]
        BY <3>3
      <4> HIDE DEF names
      <4>. QED  BY <3>2, <4>1
    <3> HIDE DEF names
    <3>5. RegisteredWords(names) = us
      BY <3>1, <3>3, <3>4 DEF RegisteredWords
    <3>. QED  BY <3>4, <3>5, JoinSpells
  <2>. QED  BY <2>1 DEF Misjoined
<1>3. SplitsIntoNames
  BY <1>1, <1>2 DEF SplitsIntoNames
<1>. QED  BY <1>3, PTL

=============================================================================
