----------------------------- MODULE FoldLemmas ------------------------------
(***************************************************************************)
(* What the proofs about computations need of the naturals, of sequences   *)
(* and of the folds of the community modules.                              *)
(***************************************************************************)
EXTENDS Integers, Sequences, FiniteSets, FiniteSetsExt, SequencesExt,
        SequenceTheorems, FiniteSetTheorems, WellFoundedInduction, TLAPS

-----------------------------------------------------------------------------
(* Naturals. *)

\* A set of naturals with 0 and the successor of each of its members has them all.
LEMMA AllNaturals ==
  ASSUME NEW T, 0 \in T, \A n \in Nat : n \in T => n + 1 \in T
  PROVE  \A n \in Nat : n \in T
<1> DEFINE rest == Nat \ T
<1>1. SUFFICES ASSUME rest # {} PROVE FALSE
  OBVIOUS
<1>2. PICK n \in rest : \A k \in rest : ~ (<<k, n>> \in OpToRel(<, Nat))
  <2>1. rest \subseteq Nat
    OBVIOUS
  <2> HIDE DEF rest
  <2> QED BY <1>1, <2>1, WFMin, NatLessThanWellFounded
<1>3. n \in Nat /\ n # 0 /\ n - 1 \in Nat /\ n - 1 < n /\ (n - 1) + 1 = n
  <2>1. n \in Nat /\ n \notin T
    OBVIOUS
  <2> QED BY <2>1
<1>4. n - 1 \notin rest
  BY <1>2, <1>3 DEF OpToRel
<1> QED BY <1>2, <1>3, <1>4

LEMMA MinOfTwo ==
  ASSUME NEW a \in Nat, NEW b \in Nat
  PROVE  Min({a, b}) \in Nat /\ Min({a, b}) <= a /\ Min({a, b}) <= b
<1>1. \E x \in {a, b} : \A y \in {a, b} : x =< y
  OBVIOUS
<1>2. Min({a, b}) \in {a, b} /\ \A y \in {a, b} : Min({a, b}) =< y
  BY <1>1 DEF Min
<1> QED BY <1>2

LEMMA Quotient ==
  ASSUME NEW a \in Nat, NEW d \in Nat \ {0}
  PROVE  /\ a \div d \in Nat
         /\ d * (a \div d) <= a
         /\ a < d * ((a \div d) + 1)
  OBVIOUS

LEMMA QuotientGrows ==
  ASSUME NEW a \in Nat, NEW b \in Nat, NEW d \in Nat \ {0}, a <= b
  PROVE  a \div d <= b \div d
<1> DEFINE q == a \div d
           p == b \div d
<1>1. /\ q \in Nat /\ d * q <= a
      /\ p \in Nat /\ b < d * (p + 1)
  BY Quotient
<1>2. d * q < d * (p + 1)
  BY <1>1
<1> HIDE DEF q, p
<1>3. ASSUME p < q PROVE FALSE
  <2>1. PICK k \in Nat : q = p + 1 + k
    <3>1. q - p - 1 \in Nat /\ q = p + 1 + (q - p - 1)
      BY <1>1, <1>3
    <3> QED BY <3>1
  <2>2. d * q = d * (p + 1) + d * k /\ d * k \in Nat /\ d * (p + 1) \in Nat
    BY <1>1, <2>1
  <2> QED BY <1>2, <2>2
<1>4. q <= p
  BY <1>1, <1>3
<1> QED BY <1>4 DEF q, p

LEMMA Product ==
  ASSUME NEW a \in Nat, NEW b \in Nat, NEW k \in Nat, a <= b
  PROVE  /\ a * k \in Nat /\ b * k \in Nat /\ k * a \in Nat /\ k * b \in Nat
         /\ a * k <= b * k
         /\ k * a <= k * b
<1>1. PICK d \in Nat : b = a + d
  <2>1. b - a \in Nat /\ b = a + (b - a)
    OBVIOUS
  <2> QED BY <2>1
<1>2. (a + d) * k = a * k + d * k /\ k * (a + d) = k * a + k * d
  OBVIOUS
<1>3. a * k \in Nat /\ d * k \in Nat /\ k * a \in Nat /\ k * d \in Nat
  OBVIOUS
<1> QED BY <1>1, <1>2, <1>3

-----------------------------------------------------------------------------
(* Folds. The community modules define a fold by a function on the subsets    *)
(* of the positions of a sequence, chosen to satisfy its own equation.        *)

\* The last position of a prefix, and of a set that has the last of all.
LEMMA LastPosition ==
  ASSUME NEW n \in Nat, NEW s \in SUBSET (1 .. n + 1), n + 1 \in s
  PROVE  Max(s) = n + 1
<1>1. \A x \in s : (\A y \in s : x >= y) => x = n + 1
  OBVIOUS
<1>2. n + 1 \in s /\ \A y \in s : n + 1 >= y
  OBVIOUS
<1> QED BY <1>1, <1>2 DEF Max

\* Some positions, one of them the last.
LEMMA GreatestPosition ==
  ASSUME NEW N \in Nat, NEW s \in SUBSET (1 .. N), s # {}
  PROVE  Max(s) \in s /\ \A y \in s : Max(s) >= y
<1> DEFINE T == {n \in Nat : \A t \in SUBSET (1 .. n) :
                  t # {} => Max(t) \in t /\ \A y \in t : Max(t) >= y}
<1>1. 0 \in T
  <2>1. \A t \in SUBSET (1 .. 0) : t = {}
    OBVIOUS
  <2> QED BY <2>1
<1>2. ASSUME NEW n \in Nat, n \in T
      PROVE  n + 1 \in T
  <2> SUFFICES ASSUME NEW t \in SUBSET (1 .. n + 1), t # {}
               PROVE  Max(t) \in t /\ \A y \in t : Max(t) >= y
    OBVIOUS
  <2>1. CASE n + 1 \in t
    BY <2>1, LastPosition
  <2>2. CASE n + 1 \notin t
    <3>1. t \in SUBSET (1 .. n)
      BY <2>2
    <3> QED BY <1>2, <3>1
  <2> QED BY <2>1, <2>2
<1>3. N \in T
  <2> HIDE DEF T
  <2> QED BY <1>1, <1>2, AllNaturals
<1> QED BY <1>3

\* The greatest of some bounded numbers.
LEMMA GreatestNumber ==
  ASSUME NEW N \in Nat, NEW s \in SUBSET (0 .. N), s # {}
  PROVE  Max(s) \in s
<1> DEFINE t == s \ {0}
<1>1. t \in SUBSET (1 .. N)
  OBVIOUS
<1>2. \E x \in s : \A y \in s : x >= y
  <2>1. CASE t = {}
    <3>1. \A y \in s : y = 0
      BY <2>1
    <3>2. 0 \in s
      BY <3>1
    <3> QED BY <3>1, <3>2
  <2>2. CASE t # {}
    <3>1. Max(t) \in t /\ \A y \in t : Max(t) >= y
      <4> HIDE DEF t
      <4> QED BY <1>1, <2>2, GreatestPosition
    <3>2. Max(t) \in s /\ Max(t) \in 1 .. N /\ \A y \in s : y \in t \/ y = 0
      BY <1>1, <3>1
    <3>3. \A y \in s : Max(t) >= y
      <4> HIDE DEF t
      <4> QED BY <3>1, <3>2
    <3> HIDE DEF t
    <3> QED BY <3>2, <3>3
  <2> QED BY <2>1, <2>2
<1> QED BY <1>2 DEF Max

\* f folds the positions up to N.
FoldsPositions(f, N, base, step) ==
  \A s \in SUBSET (1 .. N) :
    f[s] = IF s = {} THEN base ELSE step[f[s \ {Max(s)}]][Max(s)]

\* There is such a function: each step of the fold takes a value of A to one of A.
LEMMA FoldExists ==
  ASSUME NEW N \in Nat, NEW A, NEW base \in A, NEW step,
         \A a \in A : \A i \in 1 .. N : step[a][i] \in A
  PROVE  \E f \in [SUBSET (1 .. N) -> A] : FoldsPositions(f, N, base, step)
<1> DEFINE Good(n, f) ==
             /\ f \in [SUBSET (1 .. n) -> A]
             /\ \A s \in SUBSET (1 .. n) :
                  f[s] = IF s = {} THEN base ELSE step[f[s \ {Max(s)}]][Max(s)]
           T == {n \in Nat : n <= N => \E f : Good(n, f)}
<1>1. 0 \in T
  <2> DEFINE f == [s \in SUBSET (1 .. 0) |-> base]
  <2>1. \A s \in SUBSET (1 .. 0) : s = {}
    OBVIOUS
  <2>2. Good(0, f)
    BY <2>1
  <2> QED BY <2>2
<1>2. ASSUME NEW n \in Nat, n \in T
      PROVE  n + 1 \in T
  <2> SUFFICES ASSUME n + 1 <= N PROVE \E f : Good(n + 1, f)
    <3> HIDE DEF Good
    <3> QED OBVIOUS
  <2>1. PICK f : Good(n, f)
    <3>1. n <= N
      OBVIOUS
    <3> HIDE DEF Good
    <3> QED BY <1>2, <3>1
  <2> DEFINE h == [s \in SUBSET (1 .. n + 1) |->
                     IF n + 1 \in s THEN step[f[s \ {n + 1}]][n + 1] ELSE f[s]]
  <2>2. \A s \in SUBSET (1 .. n + 1) :
          /\ s \ {n + 1} \in SUBSET (1 .. n)
          /\ n + 1 \notin s => s \in SUBSET (1 .. n) /\ \A x : s \ {x} \in SUBSET (1 .. n)
          /\ \A x : s \ {x} \in SUBSET (1 .. n + 1)
    <3>1. \A k \in 1 .. n + 1 : k # n + 1 => k \in 1 .. n
      OBVIOUS
    <3> QED BY <3>1, Zenon
  <2>3. h \in [SUBSET (1 .. n + 1) -> A]
    <3>1. n + 1 \in 1 .. N
      OBVIOUS
    <3>2. \A s \in SUBSET (1 .. n + 1) :
            (IF n + 1 \in s THEN step[f[s \ {n + 1}]][n + 1] ELSE f[s]) \in A
      BY <2>1, <2>2, <3>1
    <3> QED BY <3>2
  <2>4. ASSUME NEW s \in SUBSET (1 .. n + 1)
        PROVE  h[s] = IF s = {} THEN base ELSE step[h[s \ {Max(s)}]][Max(s)]
    <3>1. CASE n + 1 \in s
      <4>1. Max(s) = n + 1 /\ s # {}
        BY <3>1, LastPosition
      <4>2. h[s] = step[f[s \ {n + 1}]][n + 1]
        BY <3>1
      <4>3. h[s \ {n + 1}] = f[s \ {n + 1}]
        BY <2>2
      <4> HIDE DEF h
      <4> QED BY <4>1, <4>2, <4>3
    <3>2. CASE n + 1 \notin s
      <4>1. h[s] = f[s] /\ s \in SUBSET (1 .. n)
        BY <2>2, <3>2
      <4>2. \A x : h[s \ {x}] = f[s \ {x}]
        BY <2>2, <3>2
      <4>3. f[s] = IF s = {} THEN base ELSE step[f[s \ {Max(s)}]][Max(s)]
        BY <2>1, <4>1
      <4> HIDE DEF h
      <4> QED BY <4>1, <4>2, <4>3
    <3> QED BY <3>1, <3>2
  <2> HIDE DEF h
  <2> QED BY <2>3, <2>4
<1>3. N \in T
  <2> HIDE DEF T
  <2> QED BY <1>1, <1>2, AllNaturals
<1>4. \E f : Good(N, f)
  <2> HIDE DEF Good
  <2> QED BY <1>3
<1> QED BY <1>4 DEF FoldsPositions

\* The prefixes of the positions: their last one, and the one before.
LEMMA PrefixesOfPositions ==
  ASSUME NEW i \in Nat
  PROVE  /\ 1 .. 0 = {}
         /\ 1 .. i + 1 # {} /\ Max(1 .. i + 1) = i + 1
         /\ (1 .. i + 1) \ {i + 1} = 1 .. i
<1>1. 1 .. 0 = {} /\ i + 1 \in 1 .. i + 1 /\ (1 .. i + 1) \ {i + 1} = 1 .. i
  OBVIOUS
<1> QED BY <1>1, LastPosition

\* What a function that folds makes of each prefix of the positions.
FoldsWithin(F, A, n, base, step) ==
  /\ F[{}] = base
  /\ \A s \in SUBSET (1 .. n) :
       s # {} /\ F[s \ {Max(s)}] \in A => F[s] = step[F[s \ {Max(s)}]][Max(s)]

\* g climbs from base to last.
Ladder(g, A, n, base, last, step) ==
  /\ g \in [0 .. n -> A]
  /\ g[0] = base
  /\ g[n] = last
  /\ \A i \in 0 .. n - 1 : g[i + 1] = step[g[i]][i + 1]

LEMMA FoldStepByStep ==
  ASSUME NEW n \in Nat, NEW A, NEW base \in A, NEW step,
         \A a \in A : \A i \in 1 .. n : step[a][i] \in A,
         NEW F, FoldsWithin(F, A, n, base, step)
  PROVE  \E g : Ladder(g, A, n, base, F[1 .. n], step)
<1> DEFINE g == [i \in 0 .. n |-> F[1 .. i]]
           T == {i \in Nat : i <= n => F[1 .. i] \in A}
<1>1. F[1 .. 0] = base
  BY PrefixesOfPositions DEF FoldsWithin
<1>2. ASSUME NEW i \in 0 .. n - 1, F[1 .. i] \in A
      PROVE  F[1 .. i + 1] = step[F[1 .. i]][i + 1] /\ F[1 .. i + 1] \in A
  <2>1. i \in Nat /\ 1 .. i + 1 \in SUBSET (1 .. n) /\ i + 1 \in 1 .. n
    OBVIOUS
  <2>2. /\ 1 .. i + 1 # {} /\ Max(1 .. i + 1) = i + 1
        /\ (1 .. i + 1) \ {i + 1} = 1 .. i
    BY <2>1, PrefixesOfPositions
  <2>3. F[1 .. i + 1] = step[F[1 .. i]][i + 1]
    BY <1>2, <2>1, <2>2, Zenon DEF FoldsWithin
  <2> QED BY <1>2, <2>1, <2>3
<1>3. \A i \in Nat : i \in T
  <2>1. 0 \in T
    BY <1>1
  <2>2. ASSUME NEW i \in Nat, i \in T PROVE i + 1 \in T
    BY <1>2, <2>2
  <2> HIDE DEF T
  <2> QED BY <2>1, <2>2, AllNaturals
<1>4. \A i \in 0 .. n : g[i] = F[1 .. i] /\ F[1 .. i] \in A
  BY <1>3
<1>5. g \in [0 .. n -> A] /\ g[0] = base /\ g[n] = F[1 .. n]
  BY <1>1, <1>4
<1>6. \A i \in 0 .. n - 1 : g[i + 1] = step[g[i]][i + 1]
  <2> SUFFICES ASSUME NEW i \in 0 .. n - 1 PROVE g[i + 1] = step[g[i]][i + 1]
    OBVIOUS
  <2>1. i \in 0 .. n /\ i + 1 \in 0 .. n
    OBVIOUS
  <2> HIDE DEF g
  <2> QED BY <1>2, <1>4, <2>1
<1> HIDE DEF g
<1> QED BY <1>5, <1>6 DEF Ladder

-----------------------------------------------------------------------------
(* Sequences. *)

LEMMA AppendFacts ==
  ASSUME NEW C, NEW s \in Seq(C), NEW c \in C
  PROVE  /\ Append(s, c) \in Seq(C)
         /\ Len(s) \in Nat /\ Len(Append(s, c)) = Len(s) + 1
         /\ DOMAIN s = 1 .. Len(s) /\ DOMAIN Append(s, c) = 1 .. Len(s) + 1
         /\ \A k \in 1 .. Len(s) : Append(s, c)[k] = s[k]
         /\ Append(s, c)[Len(s) + 1] = c
         /\ ToSet(Append(s, c)) = ToSet(s) \cup {c}
<1>1. /\ Append(s, c) \in Seq(C)
      /\ Len(s) \in Nat /\ Len(Append(s, c)) = Len(s) + 1
      /\ DOMAIN s = 1 .. Len(s) /\ DOMAIN Append(s, c) = 1 .. Len(s) + 1
      /\ \A k \in 1 .. Len(s) : Append(s, c)[k] = s[k]
      /\ Append(s, c)[Len(s) + 1] = c
  OBVIOUS
<1>2. ToSet(Append(s, c)) = ToSet(s) \cup {c}
  <2> DEFINE t == Append(s, c)
  <2>1. \A k \in 1 .. Len(s) + 1 : k \in 1 .. Len(s) \/ k = Len(s) + 1
    BY <1>1
  <2>2. Len(s) + 1 \in 1 .. Len(s) + 1 /\ \A k \in 1 .. Len(s) : k \in 1 .. Len(s) + 1
    BY <1>1
  <2>3. /\ DOMAIN s = 1 .. Len(s) /\ DOMAIN t = 1 .. Len(s) + 1
        /\ \A k \in 1 .. Len(s) : t[k] = s[k]
        /\ t[Len(s) + 1] = c
    BY <1>1
  <2> HIDE DEF t
  <2>4. ToSet(t) = ToSet(s) \cup {c}
    BY <2>1, <2>2, <2>3 DEF ToSet
  <2> QED BY <2>4 DEF t
<1> QED BY <1>1, <1>2

\* What a function makes of the members, one after the other.
LEMMA MapAppend ==
  ASSUME NEW D, NEW R, NEW f \in [D -> R], NEW s \in Seq(D)
  PROVE  /\ [k \in DOMAIN s |-> f[s[k]]] \in Seq(R)
         /\ \A x \in D : [k \in DOMAIN Append(s, x) |-> f[Append(s, x)[k]]]
                         = Append([k \in DOMAIN s |-> f[s[k]]], f[x])
<1> DEFINE n == Len(s)
           xs == [k \in DOMAIN s |-> f[s[k]]]
<1>1. n \in Nat /\ DOMAIN s = 1 .. n /\ \A k \in 1 .. n : s[k] \in D
  OBVIOUS
<1>2. xs = [k \in 1 .. n |-> f[s[k]]]
  BY <1>1
<1>3. xs \in Seq(R) /\ Len(xs) = n
  <2> HIDE DEF xs, n
  <2> QED BY <1>1, <1>2, IsASeq
<1>4. ASSUME NEW x \in D
      PROVE  [k \in DOMAIN Append(s, x) |-> f[Append(s, x)[k]]] = Append(xs, f[x])
  <2> DEFINE t == Append(s, x)
             ys == [k \in DOMAIN t |-> f[t[k]]]
             zs == Append(xs, f[x])
  <2>1. /\ DOMAIN t = 1 .. n + 1 /\ t[n + 1] = x
        /\ \A k \in 1 .. n : t[k] = s[k]
    BY AppendFacts
  <2>2. ys = [k \in 1 .. n + 1 |-> f[t[k]]]
    BY <2>1
  <2>3. \A k \in 1 .. n : xs[k] = f[s[k]]
    BY <1>2
  <2> HIDE DEF n, t, ys, xs
  <2>4. /\ zs \in Seq(R) /\ DOMAIN zs = 1 .. n + 1
        /\ zs[n + 1] = f[x] /\ \A k \in 1 .. n : zs[k] = xs[k]
    BY <1>3, AppendFacts
  <2> HIDE DEF zs
  <2>5. \A k \in 1 .. n + 1 : f[t[k]] = zs[k]
    <3> SUFFICES ASSUME NEW k \in 1 .. n + 1 PROVE f[t[k]] = zs[k]
      OBVIOUS
    <3>1. CASE k = n + 1
      BY <2>1, <2>4, <3>1
    <3>2. CASE k # n + 1
      <4>1. k \in 1 .. n
        BY <1>1, <3>2
      <4> QED BY <2>1, <2>3, <2>4, <4>1
    <3> QED BY <3>1, <3>2
  <2>6. zs = [k \in 1 .. n + 1 |-> zs[k]]
    BY <2>4
  <2>7. ys = zs
    BY <2>2, <2>5, <2>6
  <2> QED BY <2>7 DEF ys, zs, t
<1> QED BY <1>3, <1>4

\* Numbers that grow at every step grow.
LEMMA Climbs ==
  ASSUME NEW n \in Nat, NEW h, \A k \in 1 .. n : h[k] \in Int,
         \A k \in 1 .. n - 1 : h[k] < h[k + 1]
  PROVE  \A k, l \in 1 .. n : k < l => h[k] < h[l]
<1> DEFINE T == {l \in Nat : l <= n => \A k \in 1 .. n : k < l => h[k] < h[l]}
<1>1. 0 \in T
  OBVIOUS
<1>2. ASSUME NEW l \in Nat, l \in T PROVE l + 1 \in T
  <2> SUFFICES ASSUME l + 1 <= n, NEW k \in 1 .. n, k < l + 1
               PROVE  h[k] < h[l + 1]
    OBVIOUS
  <2>1. l <= n /\ l \in 1 .. n - 1 /\ l \in 1 .. n /\ l + 1 \in 1 .. n
    OBVIOUS
  <2>2. h[l] < h[l + 1] /\ h[l] \in Int /\ h[l + 1] \in Int /\ h[k] \in Int
    BY <2>1
  <2>3. CASE k = l
    BY <2>2, <2>3
  <2>4. CASE k # l
    <3>1. k < l
      BY <2>1, <2>4
    <3>2. h[k] < h[l]
      BY <1>2, <2>1, <3>1
    <3> QED BY <2>2, <3>2
  <2> QED BY <2>3, <2>4
<1>3. \A l \in Nat : l \in T
  <2> HIDE DEF T
  <2> QED BY <1>1, <1>2, AllNaturals
<1> QED BY <1>3

\* Some ladder climbs any steps.
LEMMA LadderExists ==
  ASSUME NEW n \in Nat, NEW A, NEW base \in A, NEW step,
         \A a \in A : \A i \in 1 .. n : step[a][i] \in A
  PROVE  \E g, last : Ladder(g, A, n, base, last, step)
<1>1. PICK f \in [SUBSET (1 .. n) -> A] : FoldsPositions(f, n, base, step)
  BY FoldExists
<1>2. FoldsWithin(f, A, n, base, step)
  <2>1. {} \in SUBSET (1 .. n)
    OBVIOUS
  <2> QED BY <1>1, <2>1, Zenon DEF FoldsPositions, FoldsWithin
<1>3. \E g : Ladder(g, A, n, base, f[1 .. n], step)
  BY <1>2, FoldStepByStep
<1> QED BY <1>3

\* A flattened sequence is what a ladder of concatenations ends at.
FlattensBy(g, S, ss) ==
  /\ g \in [0 .. Len(ss) -> Seq(S)]
  /\ g[0] = <<>>
  /\ g[Len(ss)] = FlattenSeq(ss)
  /\ \A i \in 0 .. Len(ss) - 1 : g[i + 1] = g[i] \o ss[i + 1]

LEMMA FlattenStepByStep ==
  ASSUME NEW S, NEW ss \in Seq(Seq(S))
  PROVE  \E g : FlattensBy(g, S, ss)
<1> DEFINE n == Len(ss)
           step == [a \in Seq(S) |-> [i \in 1 .. n |-> a \o ss[i]]]
           Flattens(f) == f = [i \in 1 .. n |-> IF i = 1 THEN ss[i] ELSE f[i - 1] \o ss[i]]
           F == CHOOSE f : Flattens(f)
<1>1. n \in Nat /\ \A i \in 1 .. n : ss[i] \in Seq(S)
  OBVIOUS
<1>2. \A a \in Seq(S) : \A i \in 1 .. n : step[a][i] = a \o ss[i] /\ step[a][i] \in Seq(S)
  BY <1>1
<1>3. PICK g, last : Ladder(g, Seq(S), n, <<>>, last, step)
  <2>1. <<>> \in Seq(S)
    OBVIOUS
  <2> HIDE DEF n, step
  <2> QED BY <1>1, <1>2, <2>1, LadderExists
<1>4. /\ g \in [0 .. n -> Seq(S)] /\ g[0] = <<>>
      /\ \A i \in 0 .. n - 1 : g[i + 1] = g[i] \o ss[i + 1]
  <2>1. g \in [0 .. n -> Seq(S)] /\ g[0] = <<>>
    BY <1>3 DEF Ladder
  <2>2. ASSUME NEW i \in 0 .. n - 1 PROVE g[i + 1] = g[i] \o ss[i + 1]
    <3>1. g[i] \in Seq(S) /\ i + 1 \in 1 .. n
      <4> HIDE DEF n
      <4> QED BY <1>1, <2>1
    <3>2. g[i + 1] = step[g[i]][i + 1]
      BY <1>3 DEF Ladder
    <3> HIDE DEF step
    <3> QED BY <1>2, <3>1, <3>2
  <2> QED BY <2>1, <2>2
<1>5. CASE n = 0
  <2>1. ss = <<>> /\ FlattenSeq(ss) = ss
    BY <1>5 DEF FlattenSeq
  <2> QED BY <1>4, <1>5, <2>1 DEF FlattensBy
<1>6. CASE n # 0
  <2>1. FlattenSeq(ss) = F[n]
    BY <1>6, Zenon DEF FlattenSeq
  <2> DEFINE h == [i \in 1 .. n |-> g[i]]
  <2>2. Flattens(h)
    <3>1. ASSUME NEW i \in 1 .. n
          PROVE  g[i] = IF i = 1 THEN ss[i] ELSE h[i - 1] \o ss[i]
      <4>1. i - 1 \in 0 .. n - 1 /\ (i - 1) + 1 = i
        BY <1>1
      <4>2. g[i] = g[i - 1] \o ss[i]
        BY <1>4, <4>1
      <4>3. CASE i = 1
        <5>1. g[i] = <<>> \o ss[i] /\ ss[i] \in Seq(S)
          BY <1>1, <1>4, <4>2, <4>3
        <5> QED BY <4>3, <5>1, ConcatEmptySeq
      <4>4. CASE i # 1
        <5>1. i - 1 \in 1 .. n
          BY <1>1, <4>4
        <5>2. h[i - 1] = g[i - 1]
          BY <5>1
        <5> HIDE DEF h
        <5> QED BY <4>2, <4>4, <5>2
      <4> QED BY <4>3, <4>4
    <3> QED BY <3>1
  <2>3. Flattens(F)
    <3> HIDE DEF Flattens
    <3> QED BY <2>2
  <2>4. \A i \in Nat : i \in 1 .. n => F[i] = g[i]
    <3> DEFINE T == {i \in Nat : i \in 1 .. n => F[i] = g[i]}
    <3>1. 0 \in T
      OBVIOUS
    <3>2. ASSUME NEW i \in Nat, i \in T PROVE i + 1 \in T
      <4> SUFFICES ASSUME i + 1 \in 1 .. n PROVE F[i + 1] = g[i + 1]
        OBVIOUS
      <4>1. F[i + 1] = IF i + 1 = 1 THEN ss[i + 1] ELSE F[(i + 1) - 1] \o ss[i + 1]
        <5> HIDE DEF F
        <5> QED BY <2>3
      <4>2. g[i + 1] = g[i] \o ss[i + 1]
        <5>1. i \in 0 .. n - 1
          <6> HIDE DEF n
          <6> QED BY <1>1
        <5> QED BY <1>4, <5>1
      <4>3. CASE i = 0
        <5>1. g[i + 1] = <<>> \o ss[i + 1] /\ ss[i + 1] \in Seq(S)
          BY <1>1, <1>4, <4>2, <4>3
        <5>2. g[i + 1] = ss[i + 1]
          BY <5>1, ConcatEmptySeq
        <5> HIDE DEF F
        <5> QED BY <4>1, <4>3, <5>2
      <4>4. CASE i # 0
        <5>1. i \in 1 .. n /\ (i + 1) - 1 = i /\ i + 1 # 1
          <6> HIDE DEF n
          <6> QED BY <1>1, <4>4
        <5>2. F[i] = g[i]
          BY <3>2, <5>1
        <5>3. F[i + 1] = F[(i + 1) - 1] \o ss[i + 1]
          <6> HIDE DEF F
          <6> QED BY <4>1, <5>1, Zenon
        <5> HIDE DEF F
        <5> QED BY <4>2, <5>1, <5>2, <5>3
      <4> QED BY <4>3, <4>4
    <3>3. \A i \in Nat : i \in T
      <4> HIDE DEF T
      <4> QED BY <3>1, <3>2, AllNaturals
    <3> QED BY <3>3
  <2>5. F[n] = g[n]
    <3>1. n \in 1 .. n
      BY <1>1, <1>6
    <3> HIDE DEF F, n
    <3> QED BY <2>4, <3>1
  <2> HIDE DEF F
  <2> QED BY <1>4, <2>1, <2>5 DEF FlattensBy
<1> QED BY <1>5, <1>6

\* One more sequence.
LEMMA FlattenAppend ==
  ASSUME NEW S, NEW ss \in Seq(Seq(S)), NEW s \in Seq(S)
  PROVE  /\ FlattenSeq(<<>>) = <<>>
         /\ FlattenSeq(ss) \in Seq(S)
         /\ FlattenSeq(Append(ss, s)) = FlattenSeq(ss) \o s
<1> DEFINE n == Len(ss)
           tt == Append(ss, s)
<1>1. /\ tt \in Seq(Seq(S)) /\ n \in Nat /\ Len(tt) = n + 1
      /\ \A k \in 1 .. n : tt[k] = ss[k]
      /\ tt[n + 1] = s
  BY AppendFacts
<1>2. PICK g : FlattensBy(g, S, ss)
  BY FlattenStepByStep
<1>3. PICK h : FlattensBy(h, S, tt)
  <2> HIDE DEF tt
  <2> QED BY <1>1, FlattenStepByStep
<1> HIDE DEF tt
<1>4. \A i \in Nat : i <= n => h[i] = g[i]
  <2> DEFINE T == {i \in Nat : i <= n => h[i] = g[i]}
  <2> HIDE DEF n
  <2>1. 0 \in T
    BY <1>2, <1>3 DEF FlattensBy
  <2>2. ASSUME NEW i \in Nat, i \in T PROVE i + 1 \in T
    <3> SUFFICES ASSUME i + 1 <= n PROVE h[i + 1] = g[i + 1]
      OBVIOUS
    <3>1. i <= n /\ i \in 0 .. n - 1 /\ i \in 0 .. (n + 1) - 1 /\ i + 1 \in 1 .. n
      BY <1>1
    <3>2. g[i + 1] = g[i] \o ss[i + 1]
      BY <1>2, <3>1 DEF FlattensBy, n
    <3>3. h[i + 1] = h[i] \o tt[i + 1]
      BY <1>1, <1>3, <3>1 DEF FlattensBy
    <3> QED BY <1>1, <2>2, <3>1, <3>2, <3>3
  <2>3. \A i \in Nat : i \in T
    <3> HIDE DEF T
    <3> QED BY <2>1, <2>2, AllNaturals
  <2> QED BY <2>3
<1>5. FlattenSeq(ss) \in Seq(S) /\ FlattenSeq(ss) = g[n]
  <2>1. n \in 0 .. n
    BY <1>1
  <2> QED BY <1>2, <2>1 DEF FlattensBy
<1>6. FlattenSeq(tt) = h[n + 1] /\ h[n + 1] = h[n] \o s
  <2>1. n \in 0 .. (n + 1) - 1
    BY <1>1
  <2> HIDE DEF n
  <2> QED BY <1>1, <1>3, <2>1 DEF FlattensBy
<1>7. h[n] = g[n]
  <2> HIDE DEF n
  <2> QED BY <1>1, <1>4
<1>8. FlattenSeq(<<>>) = <<>>
  BY DEF FlattenSeq
<1> QED BY <1>5, <1>6, <1>7, <1>8 DEF tt

==============================================================================
