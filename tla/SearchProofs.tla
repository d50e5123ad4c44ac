---------------------------- MODULE SearchProofs -----------------------------
(***************************************************************************)
(* Machine-checked proofs about Search.                                    *)
(*                                                                         *)
(* The state is simple: what a request has read was on show while it read  *)
(* it, and its answer is a function of what it read (IInv, an inductive    *)
(* invariant). The rest is about that function: that sorting lists every   *)
(* chunk once and in order, that its folds can be followed step by step,   *)
(* that a better rank in every lane makes a better score, and what shaping *)
(* and context building keep true from one chunk to the next.              *)
(***************************************************************************)
EXTENDS SearchProperties, FoldLemmas

-----------------------------------------------------------------------------
(* Sorting. *)

\* R puts the members of S in one order.
StrictOrder(S, R) ==
  /\ \A x \in S : <<x, x>> \notin R
  /\ \A x, y, z \in S : <<x, y>> \in R /\ <<y, z>> \in R => <<x, z>> \in R
  /\ \A x, y \in S : x # y => <<x, y>> \in R \/ <<y, x>> \in R

Below(S, R, x) == {y \in S : <<y, x>> \in R}

\* What has fewer members below it comes first.
LEMMA FewerBelow ==
  ASSUME NEW S, IsFiniteSet(S), NEW R, StrictOrder(S, R), NEW x \in S, NEW y \in S
  PROVE  /\ Cardinality(Below(S, R, x)) \in 0 .. Cardinality(S) - 1
         /\ <<x, y>> \in R => Cardinality(Below(S, R, x)) < Cardinality(Below(S, R, y))
<1>1. /\ Below(S, R, x) \in SUBSET S /\ Below(S, R, x) # S
      /\ Below(S, R, y) \in SUBSET S
  BY DEF Below, StrictOrder
<1>2. Cardinality(Below(S, R, x)) \in 0 .. Cardinality(S) - 1
  BY <1>1, FS_Subset, FS_CardinalityType
<1>3. ASSUME <<x, y>> \in R
      PROVE  Cardinality(Below(S, R, x)) < Cardinality(Below(S, R, y))
  <2>1. Below(S, R, x) \in SUBSET Below(S, R, y) /\ Below(S, R, x) # Below(S, R, y)
    BY <1>3 DEF Below, StrictOrder
  <2>2. IsFiniteSet(Below(S, R, y)) /\ IsFiniteSet(Below(S, R, x))
    BY <1>1, FS_Subset
  <2> QED BY <2>1, <2>2, FS_Subset, FS_CardinalityType
<1> QED BY <1>2, <1>3

\* Sorted lists every member of S once, in the order of R.
LEMMA SortedLists ==
  ASSUME NEW S, IsFiniteSet(S), NEW R, StrictOrder(S, R)
  PROVE  /\ Cardinality(S) \in Nat
         /\ Sorted(S, R) \in [1 .. Cardinality(S) -> S]
         /\ \A x \in S : \E i \in 1 .. Cardinality(S) : Sorted(S, R)[i] = x
         /\ \A i, j \in 1 .. Cardinality(S) :
              (i < j) <=> (<<Sorted(S, R)[i], Sorted(S, R)[j]>> \in R)
         /\ \A i, j \in 1 .. Cardinality(S) :
              Sorted(S, R)[i] = Sorted(S, R)[j] => i = j
<1> DEFINE n == Cardinality(S)
           below(x) == Cardinality(Below(S, R, x))
           place == [x \in S |-> below(x) + 1]
<1>1. n \in Nat
  BY FS_CardinalityType
<1>2. \A x \in S : below(x) \in 0 .. n - 1
  BY FewerBelow
<1>3. \A x, y \in S : <<x, y>> \in R => below(x) < below(y)
  BY FewerBelow
<1>4. \A x, y \in S : /\ (below(x) < below(y)) <=> (<<x, y>> \in R)
                      /\ below(x) = below(y) => x = y
  <2> SUFFICES ASSUME NEW x \in S, NEW y \in S
               PROVE  /\ (below(x) < below(y)) <=> (<<x, y>> \in R)
                      /\ below(x) = below(y) => x = y
    OBVIOUS
  <2>1. below(x) \in Int /\ below(y) \in Int
    BY <1>1, <1>2
  <2>2. x = y \/ <<x, y>> \in R \/ <<y, x>> \in R
    BY DEF StrictOrder
  <2>3. /\ <<x, y>> \in R => below(x) < below(y)
        /\ <<y, x>> \in R => below(y) < below(x)
    BY <1>3
  <2>4. x = y => <<x, y>> \notin R
    BY DEF StrictOrder
  <2> HIDE DEF below
  <2> QED BY <2>1, <2>2, <2>3, <2>4
<1>5. \A x, y \in S : below(x) = below(y) => x = y
  <2> HIDE DEF below
  <2> QED BY <1>4
<1>6. \A i \in 1 .. n : \E x \in S : below(x) = i - 1
  <2>1. place \in [S -> 1 .. n]
    BY <1>1, <1>2
  <2>2. \A x, y \in S : place[x] = place[y] => x = y
    BY <1>2, <1>5
  <2>3. place \in Injection(S, 1 .. n)
    BY <2>1, <2>2 DEF Injection, IsInjective
  <2>4. IsFiniteSet(1 .. n) /\ Cardinality(1 .. n) = n
    BY <1>1, FS_Interval
  <2>5. place \in Surjection(S, 1 .. n)
    <3> HIDE DEF place
    <3> QED BY <2>3, <2>4, FS_Injection
  <2>6. \A i \in 1 .. n : \E x \in S : place[x] = i
    BY <2>5 DEF Surjection
  <2> QED BY <1>2, <2>6
<1>7. \A i \in 1 .. n : Sorted(S, R)[i] \in S /\ below(Sorted(S, R)[i]) = i - 1
  BY <1>6 DEF Sorted, Below
<1>8. Sorted(S, R) = [i \in 1 .. n |-> CHOOSE x \in S : below(x) = i - 1]
  BY DEF Sorted, Below
<1>9. Sorted(S, R) \in [1 .. n -> S]
  BY <1>6, <1>8
<1>10. \A x \in S : \E i \in 1 .. n : Sorted(S, R)[i] = x
  <2> SUFFICES ASSUME NEW x \in S PROVE \E i \in 1 .. n : Sorted(S, R)[i] = x
    OBVIOUS
  <2>1. below(x) + 1 \in 1 .. n /\ below(x) = (below(x) + 1) - 1
    BY <1>1, <1>2
  <2>2. Sorted(S, R)[below(x) + 1] \in S /\ below(Sorted(S, R)[below(x) + 1]) = below(x)
    BY <1>7, <2>1
  <2> QED BY <1>5, <2>1, <2>2
<1>11. \A i, j \in 1 .. n : (i < j) <=> (<<Sorted(S, R)[i], Sorted(S, R)[j]>> \in R)
  <2> SUFFICES ASSUME NEW i \in 1 .. n, NEW j \in 1 .. n
               PROVE  (i < j) <=> (<<Sorted(S, R)[i], Sorted(S, R)[j]>> \in R)
    OBVIOUS
  <2>1. /\ below(Sorted(S, R)[i]) = i - 1 /\ Sorted(S, R)[i] \in S
        /\ below(Sorted(S, R)[j]) = j - 1 /\ Sorted(S, R)[j] \in S
    BY <1>7
  <2>2. (i < j) <=> (below(Sorted(S, R)[i]) < below(Sorted(S, R)[j]))
    BY <1>1, <2>1
  <2> HIDE DEF below
  <2> QED BY <1>4, <2>1, <2>2
<1>12. \A i, j \in 1 .. n : Sorted(S, R)[i] = Sorted(S, R)[j] => i = j
  BY <1>1, <1>7
<1> QED BY <1>1, <1>9, <1>10, <1>11, <1>12

-----------------------------------------------------------------------------
(* The folds of Ranking. *)

\* The results as the ordered chunks are read one by one.
ShapedBy(g, C, n, o, limit) ==
  /\ g \in [0 .. n -> Seq(C)]
  /\ g[0] = <<>>
  /\ g[n] = Shaped(o, limit)
  /\ \A i \in 0 .. n - 1 :
       g[i + 1] = IF Len(g[i]) < limit /\ Fits(g[i], o[i + 1])
                    THEN Append(g[i], o[i + 1]) ELSE g[i]

LEMMA ShapedStepByStep ==
  ASSUME NEW C, NEW n \in Nat, NEW o \in [1 .. n -> C], NEW limit
  PROVE  \E g : ShapedBy(g, C, n, o, limit)
<1> DEFINE taken(r, c) == IF Len(r) < limit /\ Fits(r, c) THEN Append(r, c) ELSE r
           step == [r \in Seq(C) |-> [i \in 1 .. n |-> taken(r, o[i])]]
           Folds(f) == f = [s \in SUBSET DOMAIN o |->
                              IF s = {} THEN <<>> ELSE taken(f[s \ {Max(s)}], o[Max(s)])]
           F == CHOOSE f : Folds(f)
<1>1. Shaped(o, limit) = F[1 .. n]
  BY Zenon DEF Shaped, FoldLeft, MapThenFoldSet
<1>2. \A r \in Seq(C) : \A i \in 1 .. n :
        step[r][i] = taken(r, o[i]) /\ step[r][i] \in Seq(C)
  OBVIOUS
<1>3. <<>> \in Seq(C)
  OBVIOUS
<1>4. \A s \in SUBSET (1 .. n) : s # {} =>
        Max(s) \in 1 .. n /\ s \ {Max(s)} \in SUBSET (1 .. n)
  BY GreatestPosition
<1>5. Folds(F)
  <2>1. PICK f \in [SUBSET (1 .. n) -> Seq(C)] : FoldsPositions(f, n, <<>>, step)
    <3> HIDE DEF step
    <3> QED BY <1>2, <1>3, FoldExists
  <2>2. \A s \in SUBSET (1 .. n) : s # {} => f[s] = taken(f[s \ {Max(s)}], o[Max(s)])
    <3> HIDE DEF step, taken
    <3> QED BY <1>2, <1>4, <2>1 DEF FoldsPositions
  <2>3. Folds(f)
    <3> HIDE DEF taken
    <3> QED BY <2>1, <2>2 DEF FoldsPositions
  <2> HIDE DEF Folds
  <2> QED BY <2>3
<1>6. FoldsWithin(F, Seq(C), n, <<>>, step)
  <2> HIDE DEF step, taken, F
  <2> QED BY <1>2, <1>4, <1>5 DEF FoldsWithin
<1>7. \E g : Ladder(g, Seq(C), n, <<>>, F[1 .. n], step)
  <2>1. \A r \in Seq(C) : \A i \in 1 .. n : step[r][i] \in Seq(C)
    BY <1>2
  <2> HIDE DEF step, F
  <2> QED BY <1>3, <1>6, <2>1, FoldStepByStep
<1>8. \A g \in [0 .. n -> Seq(C)] : \A i \in 0 .. n - 1 :
        step[g[i]][i + 1] = taken(g[i], o[i + 1])
  <2> HIDE DEF step, taken
  <2> QED BY <1>2
<1> HIDE DEF step, F
<1>9. PICK g : Ladder(g, Seq(C), n, <<>>, F[1 .. n], step)
  BY <1>7
<1>10. g \in [0 .. n -> Seq(C)] /\ g[0] = <<>> /\ g[n] = F[1 .. n]
  BY <1>9 DEF Ladder
<1>11. \A i \in 0 .. n - 1 : g[i + 1] = step[g[i]][i + 1]
  BY <1>9 DEF Ladder
<1>12. \A i \in 0 .. n - 1 : g[i + 1] = taken(g[i], o[i + 1])
  <2> HIDE DEF taken
  <2> QED BY <1>8, <1>10, <1>11
<1>13. ShapedBy(g, C, n, o, limit)
  BY <1>1, <1>10, <1>12 DEF ShapedBy
<1> QED BY <1>13

\* The passages as the results are read one by one.
ContextBy(g, C, n, o) ==
  /\ g \in [0 .. n -> Seq(C)]
  /\ g[0] = <<>>
  /\ g[n] = BuildContext(o)
  /\ \A i \in 0 .. n - 1 :
       g[i + 1] = IF Len(g[i]) < MaxPassages /\ Affordable(g[i], o[i + 1])
                    THEN Append(g[i], o[i + 1]) ELSE g[i]

LEMMA ContextStepByStep ==
  ASSUME NEW C, NEW n \in Nat, NEW o \in [1 .. n -> C]
  PROVE  \E g : ContextBy(g, C, n, o)
<1> DEFINE taken(r, c) == IF Len(r) < MaxPassages /\ Affordable(r, c)
                            THEN Append(r, c) ELSE r
           step == [r \in Seq(C) |-> [i \in 1 .. n |-> taken(r, o[i])]]
           Folds(f) == f = [s \in SUBSET DOMAIN o |->
                              IF s = {} THEN <<>> ELSE taken(f[s \ {Max(s)}], o[Max(s)])]
           F == CHOOSE f : Folds(f)
<1>1. BuildContext(o) = F[1 .. n]
  BY Zenon DEF BuildContext, FoldLeft, MapThenFoldSet
<1>2. \A r \in Seq(C) : \A i \in 1 .. n :
        step[r][i] = taken(r, o[i]) /\ step[r][i] \in Seq(C)
  OBVIOUS
<1>3. <<>> \in Seq(C)
  OBVIOUS
<1>4. \A s \in SUBSET (1 .. n) : s # {} =>
        Max(s) \in 1 .. n /\ s \ {Max(s)} \in SUBSET (1 .. n)
  BY GreatestPosition
<1>5. Folds(F)
  <2>1. PICK f \in [SUBSET (1 .. n) -> Seq(C)] : FoldsPositions(f, n, <<>>, step)
    <3> HIDE DEF step
    <3> QED BY <1>2, <1>3, FoldExists
  <2>2. \A s \in SUBSET (1 .. n) : s # {} => f[s] = taken(f[s \ {Max(s)}], o[Max(s)])
    <3> HIDE DEF step, taken
    <3> QED BY <1>2, <1>4, <2>1 DEF FoldsPositions
  <2>3. Folds(f)
    <3> HIDE DEF taken
    <3> QED BY <2>1, <2>2 DEF FoldsPositions
  <2> HIDE DEF Folds
  <2> QED BY <2>3
<1>6. FoldsWithin(F, Seq(C), n, <<>>, step)
  <2> HIDE DEF step, taken, F
  <2> QED BY <1>2, <1>4, <1>5 DEF FoldsWithin
<1>7. \E g : Ladder(g, Seq(C), n, <<>>, F[1 .. n], step)
  <2>1. \A r \in Seq(C) : \A i \in 1 .. n : step[r][i] \in Seq(C)
    BY <1>2
  <2> HIDE DEF step, F
  <2> QED BY <1>3, <1>6, <2>1, FoldStepByStep
<1>8. \A g \in [0 .. n -> Seq(C)] : \A i \in 0 .. n - 1 :
        step[g[i]][i + 1] = taken(g[i], o[i + 1])
  <2> HIDE DEF step, taken
  <2> QED BY <1>2
<1> HIDE DEF step, F
<1>9. PICK g : Ladder(g, Seq(C), n, <<>>, F[1 .. n], step)
  BY <1>7
<1>10. g \in [0 .. n -> Seq(C)] /\ g[0] = <<>> /\ g[n] = F[1 .. n]
  BY <1>9 DEF Ladder
<1>11. \A i \in 0 .. n - 1 : g[i + 1] = step[g[i]][i + 1]
  BY <1>9 DEF Ladder
<1>12. \A i \in 0 .. n - 1 : g[i + 1] = taken(g[i], o[i + 1])
  <2> HIDE DEF taken
  <2> QED BY <1>8, <1>10, <1>11
<1>13. ContextBy(g, C, n, o)
  BY <1>1, <1>10, <1>12 DEF ContextBy
<1> QED BY <1>13

\* The tokens as the passages are counted one by one.
LEMMA TokensStepByStep ==
  ASSUME NEW C, \A c \in C : c.tokens \in Nat, NEW n \in Nat, NEW o \in [1 .. n -> C]
  PROVE  \E g \in [0 .. n -> Nat] :
           /\ g[0] = 0
           /\ g[n] = Tokens(o)
           /\ \A i \in 0 .. n - 1 : g[i + 1] = g[i] + o[i + 1].tokens
<1> DEFINE step == [r \in Nat |-> [i \in 1 .. n |-> r + o[i].tokens]]
           Folds(f) == f = [s \in SUBSET DOMAIN o |->
                              IF s = {} THEN 0 ELSE f[s \ {Max(s)}] + o[Max(s)].tokens]
           F == CHOOSE f : Folds(f)
<1>1. Tokens(o) = F[1 .. n]
  BY Zenon DEF Tokens, FoldLeft, MapThenFoldSet
<1>2. \A r \in Nat : \A i \in 1 .. n :
        step[r][i] = r + o[i].tokens /\ step[r][i] \in Nat
  OBVIOUS
<1>3. \A s \in SUBSET (1 .. n) : s # {} =>
        Max(s) \in 1 .. n /\ s \ {Max(s)} \in SUBSET (1 .. n)
  BY GreatestPosition
<1>4. Folds(F)
  <2>1. PICK f \in [SUBSET (1 .. n) -> Nat] : FoldsPositions(f, n, 0, step)
    <3> HIDE DEF step
    <3> QED BY <1>2, FoldExists
  <2>2. \A s \in SUBSET (1 .. n) : s # {} => f[s] = f[s \ {Max(s)}] + o[Max(s)].tokens
    <3> HIDE DEF step
    <3> QED BY <1>2, <1>3, <2>1 DEF FoldsPositions
  <2>3. Folds(f)
    BY <2>1, <2>2 DEF FoldsPositions
  <2> HIDE DEF Folds
  <2> QED BY <2>3
<1>5. FoldsWithin(F, Nat, n, 0, step)
  <2> HIDE DEF step, F
  <2> QED BY <1>2, <1>3, <1>4 DEF FoldsWithin
<1>6. \E g : Ladder(g, Nat, n, 0, F[1 .. n], step)
  <2>1. \A r \in Nat : \A i \in 1 .. n : step[r][i] \in Nat
    BY <1>2
  <2> HIDE DEF step, F
  <2> QED BY <1>5, <2>1, FoldStepByStep
<1>7. \A g \in [0 .. n -> Nat] : \A i \in 0 .. n - 1 :
        step[g[i]][i + 1] = g[i] + o[i + 1].tokens
  <2> SUFFICES ASSUME NEW g \in [0 .. n -> Nat], NEW i \in 0 .. n - 1
               PROVE  step[g[i]][i + 1] = g[i] + o[i + 1].tokens
    OBVIOUS
  <2>1. g[i] \in Nat /\ i + 1 \in 1 .. n
    OBVIOUS
  <2> HIDE DEF step
  <2> QED BY <1>2, <2>1
<1> HIDE DEF step, F
<1> QED BY <1>1, <1>6, <1>7 DEF Ladder

\* One passage more.
LEMMA TokensOfOneMore ==
  ASSUME NEW C, \A c \in C : c.tokens \in Nat, NEW s \in Seq(C), NEW c \in C
  PROVE  /\ Tokens(s) \in Nat
         /\ Tokens(Append(s, c)) = Tokens(s) + c.tokens
         /\ Tokens(<<>>) = 0
<1> DEFINE n == Len(s)
           m == n + 1
           t == Append(s, c)
<1>1. /\ n \in Nat /\ m \in Nat /\ m = n + 1 /\ s \in [1 .. n -> C]
      /\ t \in [1 .. m -> C] /\ t[m] = c /\ \A i \in 1 .. n : t[i] = s[i]
  <2>1. n \in Nat /\ s \in [1 .. n -> C] /\ t \in Seq(C) /\ Len(t) = m
    OBVIOUS
  <2>2. t[m] = c /\ \A i \in 1 .. n : t[i] = s[i]
    OBVIOUS
  <2>3. t \in [1 .. m -> C]
    <3> HIDE DEF m, t
    <3> QED BY <2>1, LenProperties
  <2> HIDE DEF n, t
  <2> QED BY <2>1, <2>2, <2>3
<1>2. PICK g \in [0 .. n -> Nat] :
        /\ g[0] = 0
        /\ g[n] = Tokens(s)
        /\ \A i \in 0 .. n - 1 : g[i + 1] = g[i] + s[i + 1].tokens
  <2> HIDE DEF n
  <2> QED BY <1>1, TokensStepByStep
<1>3. PICK h \in [0 .. m -> Nat] :
        /\ h[0] = 0
        /\ h[m] = Tokens(t)
        /\ \A i \in 0 .. m - 1 : h[i + 1] = h[i] + t[i + 1].tokens
  <2>1. m \in Nat /\ t \in [1 .. m -> C]
    BY <1>1
  <2> HIDE DEF n, m, t
  <2> QED BY <2>1, TokensStepByStep
<1>4. \A i \in Nat : i <= n => h[i] = g[i]
  <2> DEFINE T == {i \in Nat : i <= n => h[i] = g[i]}
  <2> HIDE DEF n, m, t
  <2>1. 0 \in T
    BY <1>2, <1>3
  <2>2. ASSUME NEW i \in Nat, i \in T PROVE i + 1 \in T
    <3> SUFFICES ASSUME i + 1 <= n PROVE h[i + 1] = g[i + 1]
      OBVIOUS
    <3>1. i <= n /\ i \in 0 .. n - 1 /\ i \in 0 .. m - 1 /\ i + 1 \in 1 .. n
      BY <1>1
    <3> QED BY <1>1, <1>2, <1>3, <2>2, <3>1
  <2>3. \A i \in Nat : i \in T
    <3> HIDE DEF T
    <3> QED BY <2>1, <2>2, AllNaturals
  <2> QED BY <2>3
<1>5. Tokens(t) = Tokens(s) + c.tokens /\ Tokens(s) \in Nat
  <2> HIDE DEF n, m, t
  <2>1. n \in 0 .. m - 1 /\ n <= n /\ n \in 0 .. n
    BY <1>1
  <2> QED BY <1>1, <1>2, <1>3, <1>4, <2>1
<1>6. Tokens(<<>>) = 0
  <2>1. 0 \in Nat /\ <<>> \in [1 .. 0 -> C]
    OBVIOUS
  <2> QED BY <2>1, TokensStepByStep
<1> QED BY <1>5, <1>6

-----------------------------------------------------------------------------
(* One lane. *)

Hit == [chunk : Catalogue, raw : Nat]

Plans == {Plan(q) : q \in Queries}

\* A lane as it is read: no more than its LIMIT, every chunk once, the best first.
LaneOK(hits, l) ==
  /\ hits \in Seq(Hit)
  /\ Len(hits) <= LaneCap[l]
  /\ \A i, j \in DOMAIN hits : hits[i].chunk = hits[j].chunk => i = j
  /\ \A i, j \in DOMAIN hits : i < j => hits[i].raw >= hits[j].raw

LEMMA LaneLimit ==
  ASSUME NEW l \in Lanes
  PROVE  LaneCap[l] \in 1 .. 1000
<1>1. LaneCap \in [Lanes -> 1..1000]
  BY SearchAssumption
<1> QED BY <1>1

LEMMA TheLanes == Lanes = {"exact", "keyword", "vector", "trigram"}
  BY DEF Lanes, LaneWeight

\* What the plan of a query looks for is text the catalogue knows.
LEMMA PlanLooksFor ==
  ASSUME NEW plan \in Plans
  PROVE  /\ plan.query \in Queries
         /\ plan.exact \in DOMAIN Relevance
         /\ plan.text \in DOMAIN Relevance
         /\ plan.query.limit \in 1..50
         /\ plan.query.mode \in {"results", "answer"}
<1>1. PICK q \in Queries : plan = Plan(q)
  BY DEF Plans
<1>2. /\ q.text \in DOMAIN Relevance
      /\ q.phrases \in Seq(DOMAIN Relevance)
      /\ q.limit \in 1..50 /\ q.mode \in {"results", "answer"}
  BY SearchAssumption
<1>3. q.phrases # <<>> => Head(q.phrases) \in DOMAIN Relevance
  BY <1>2
<1> QED BY <1>1, <1>2, <1>3 DEF Plan

\* What a lane reads it finds among what is visible.
LEMMA LaneReads ==
  ASSUME NEW l \in Lanes, NEW plan \in Plans
  PROVE  /\ LaneOK(LaneHits(l, plan), l)
         /\ ChunksIn(LaneHits(l, plan)) \subseteq Visible(plan.query)
<1> DEFINE text == IF l = "exact" THEN plan.exact ELSE plan.text
           visible == Visible(plan.query)
           hit == [c \in visible |-> [chunk |-> c, raw |-> Relevance[text][l][c.id]]]
           found == {[chunk |-> c, raw |-> Relevance[text][l][c.id]] : c \in visible}
           hits == {h \in found : h.raw >= 0}
           R == {e \in hits \X hits : Better(e[1], e[2])}
           n == Cardinality(hits)
           sorted == Sorted(hits, R)
           m == Min({n, LaneCap[l]})
<1>1. visible \subseteq Catalogue
  BY DEF Visible
<1>2. \A c \in Catalogue : Relevance[text][l][c.id] \in Int /\ c.id \in Nat
  <2>1. text \in DOMAIN Relevance
    BY PlanLooksFor
  <2>2. \A c \in Catalogue : c.id \in Ids /\ c.id \in Nat
    BY SearchAssumption DEF Ids
  <2>3. Relevance \in [DOMAIN Relevance -> [Lanes -> [Ids -> Int]]]
    BY SearchAssumption
  <2> HIDE DEF text
  <2> QED BY <2>1, <2>2, <2>3
<1>3. hits \subseteq Hit /\ \A h \in hits : h.chunk \in visible
  BY <1>1, <1>2 DEF Hit
<1>4. IsFiniteSet(hits)
  <2>1. IsFiniteSet(visible)
    BY <1>1, SearchAssumption, FS_Subset
  <2>2. hit \in Surjection(visible, found)
    BY DEF Surjection
  <2>3. IsFiniteSet(found)
    <3> HIDE DEF found, visible, hit
    <3> QED BY <2>1, <2>2, FS_Surjection
  <2> QED BY <2>3, FS_Subset
<1>5. \A g, h \in hits : g.chunk.id = h.chunk.id => g = h
  BY <1>1, SearchAssumption
<1>6. StrictOrder(hits, R)
  <2>1. \A h \in hits : h.raw \in Nat /\ h.chunk.id \in Nat
    BY <1>2, <1>3, SearchAssumption DEF Hit
  <2>2. \A g, h \in hits : (<<g, h>> \in R) <=> Better(g, h)
    OBVIOUS
  <2> HIDE DEF hits, R
  <2>3. \A g \in hits : ~Better(g, g)
    BY <2>1 DEF Better
  <2>4. \A f, g, h \in hits : Better(f, g) /\ Better(g, h) => Better(f, h)
    BY <2>1 DEF Better
  <2>5. \A g, h \in hits : g # h => Better(g, h) \/ Better(h, g)
    BY <1>5, <2>1 DEF Better
  <2> QED BY <2>2, <2>3, <2>4, <2>5 DEF StrictOrder
<1>7. /\ n \in Nat
      /\ sorted \in [1 .. n -> hits]
      /\ \A i, j \in 1 .. n : (i < j) <=> (<<sorted[i], sorted[j]>> \in R)
      /\ \A i, j \in 1 .. n : sorted[i] = sorted[j] => i = j
  <2> HIDE DEF hits, R
  <2> QED BY <1>4, <1>6, SortedLists
<1>8. m \in Nat /\ m <= n /\ m <= LaneCap[l]
  <2>1. LaneCap[l] \in Nat
    BY LaneLimit
  <2> HIDE DEF n
  <2> QED BY <1>7, <2>1, MinOfTwo
<1>9. LaneHits(l, plan) = SubSeq(sorted, 1, m)
  BY DEF LaneHits
<1>10. /\ LaneHits(l, plan) \in Seq(hits)
       /\ Len(LaneHits(l, plan)) = m
       /\ \A i \in 1 .. m : LaneHits(l, plan)[i] = sorted[i] /\ i \in 1 .. n
  <2> HIDE DEF n, m, sorted, hits
  <2> QED BY <1>7, <1>8, <1>9
<1> DEFINE lane == LaneHits(l, plan)
<1> HIDE DEF n, m, sorted, lane
<1>11. lane \in Seq(hits) /\ DOMAIN lane = 1 .. m /\ Len(lane) = m
  BY <1>8, <1>10 DEF lane
<1>12. \A i \in DOMAIN lane : lane[i] \in hits /\ lane[i] = sorted[i] /\ i \in 1 .. n
  <2> HIDE DEF hits
  <2> QED BY <1>10, <1>11 DEF lane
<1>13. \A i, j \in DOMAIN lane : lane[i].chunk = lane[j].chunk => i = j
  <2>1. \A g, h \in hits : g.chunk = h.chunk => g = h
    BY <1>5
  <2> HIDE DEF hits
  <2> QED BY <1>7, <1>12, <2>1
<1>14. \A i, j \in DOMAIN lane : i < j => lane[i].raw >= lane[j].raw
  <2>1. \A g, h \in hits : <<g, h>> \in R => g.raw >= h.raw
    BY <1>3 DEF Better, Hit
  <2> HIDE DEF hits, R
  <2> QED BY <1>7, <1>12, <2>1
<1>15. lane \in Seq(Hit)
  <2> HIDE DEF hits
  <2> QED BY <1>3, <1>11
<1>16. ChunksIn(lane) \subseteq visible
  <2> HIDE DEF hits, visible
  <2> QED BY <1>3, <1>12 DEF ChunksIn
<1> QED BY <1>8, <1>11, <1>13, <1>14, <1>15, <1>16 DEF LaneOK, lane

-----------------------------------------------------------------------------
(* The inductive invariant: what a request has read was on show while it read,  *)
(* and an answer is what ranking makes of the lanes.                           *)

Readings == [stage : {"reading"}, plan : Plans, generation : Nat,
             lanes : [Lanes -> Seq(Hit)], read : 0 .. Len(LaneOrder)]

LanesOK(lanes) ==
  /\ lanes \in [Lanes -> Seq(Hit)]
  /\ \A l \in Lanes : LaneOK(lanes[l], l)

\* What was read for a request.
Found(r) ==
  /\ request[r].plan \in Plans
  /\ request[r].generation \in 1 .. generation
  /\ LanesOK(request[r].lanes)
  /\ \A c \in Listed(request[r].lanes) :
       c \in seen[r] /\ Passes(request[r].plan.query, c)

RequestOK(r) ==
  \/ request[r] = Waiting
  \/ request[r] \in Readings /\ Found(r) /\ OnShow \subseteq seen[r]
  \/ /\ request[r].stage = "answered"
     /\ Found(r)
     /\ request[r].response =
          Response(request[r].plan,
                   FuseAndRank(request[r].lanes, request[r].plan.query.limit))

IndexOK ==
  /\ wanted \in [Sources -> Contents \cup {NoContent}]
  /\ shown \in [Sources -> Contents \cup {NoContent}]
  /\ Index!ShownIsWanted
  /\ generation \in 1 .. MaxGeneration
  /\ connection \in {"active", "inactive"}
  /\ lapses \in 0 .. MaxLapses

IInv ==
  /\ IndexOK
  /\ seen \in [Requests -> SUBSET Catalogue]
  /\ DOMAIN request = Requests
  /\ \A r \in Requests : RequestOK(r)

LEMMA InitInv == Init => IInv
<1> SUFFICES ASSUME Init PROVE IInv
  OBVIOUS
<1>1. IndexOK
  BY SearchAssumption DEF Init, Index!Init, IndexOK, Index!ShownIsWanted, Index!Shown
<1>2. \A r \in Requests : request[r] = Waiting
  BY DEF Init
<1> QED BY <1>1, <1>2 DEF Init, IInv, RequestOK

\* A step of the index or of the connection.
LEMMA WorldKeepsRequests ==
  ASSUME IInv, IndexOK', generation' >= generation, UNCHANGED request, Watch
  PROVE  IInv'
<1>1. OnShow' \subseteq Catalogue
  BY DEF OnShow
<1>2. /\ seen' \in [Requests -> SUBSET Catalogue]
      /\ \A r \in Requests : seen[r] \subseteq seen'[r]
      /\ \A r \in Requests : Reading(r) => OnShow' \subseteq seen'[r]
  BY <1>1 DEF IInv, Watch
<1>3. ASSUME NEW r \in Requests
      PROVE  RequestOK(r)'
  <2>1. RequestOK(r) /\ request'[r] = request[r] /\ request' = request
    BY DEF IInv
  <2>2. Found(r) => Found(r)'
    BY <1>2, <2>1 DEF Found, IInv, IndexOK
  <2>3. request[r] \in Readings => Reading(r)
    BY DEF Readings, Reading
  <2> QED BY <1>2, <2>1, <2>2, <2>3 DEF RequestOK
<1> QED BY <1>2, <1>3 DEF IInv

LEMMA IndexChangesInv == IInv /\ IndexChanges => IInv'
<1> SUFFICES ASSUME IInv, IndexChanges PROVE IInv'
  OBVIOUS
<1>1. /\ IndexOK /\ generation < MaxGeneration /\ Index!Next /\ Watch
      /\ UNCHANGED <<connection, lapses, request>>
  BY DEF IInv, IndexChanges
<1>2. IndexOK' /\ generation' >= generation
  <2>1. ASSUME NEW s \in Sources, NEW c \in Contents, Index!Observe(s, c)
        PROVE  IndexOK' /\ generation' >= generation
    BY <1>1, <2>1, SearchAssumption DEF IndexOK, Index!Observe, Index!ShownIsWanted, Index!Shown
  <2>2. ASSUME NEW s \in Sources, Index!Publish(s)
        PROVE  IndexOK' /\ generation' >= generation
    BY <1>1, <2>2, SearchAssumption DEF IndexOK, Index!Publish, Index!ShownIsWanted, Index!Shown
  <2>3. ASSUME NEW T \in SUBSET Sources, Index!Withdraw(T)
        PROVE  IndexOK' /\ generation' >= generation
    BY <1>1, <2>3, SearchAssumption DEF IndexOK, Index!Withdraw, Index!ShownIsWanted, Index!Shown
  <2> QED BY <1>1, <2>1, <2>2, <2>3 DEF Index!Next
<1> QED BY <1>1, <1>2, WorldKeepsRequests

LEMMA ConnectionChangesInv == IInv /\ ConnectionChanges => IInv'
<1> SUFFICES ASSUME IInv, ConnectionChanges PROVE IInv'
  OBVIOUS
<1>1. IndexOK' /\ generation' >= generation
  BY SearchAssumption
     DEF IInv, ConnectionChanges, IndexOK, indexVars, Index!ShownIsWanted, Index!Shown
<1> QED BY <1>1, WorldKeepsRequests DEF ConnectionChanges

\* A step of a request leaves the others, the index and the connection alone.
LEMMA OnlyOne ==
  ASSUME IInv, NEW r \in Requests, UNCHANGED <<indexVars, connection, lapses>>,
         DOMAIN request' = Requests,
         \A s \in Requests : s # r => request'[s] = request[s] /\ seen'[s] = seen[s],
         seen' \in [Requests -> SUBSET Catalogue],
         RequestOK(r)'
  PROVE  IInv'
<1>1. IndexOK' /\ OnShow' = OnShow /\ generation' = generation
  BY DEF IInv, IndexOK, indexVars, OnShow, Index!ShownIsWanted, Index!Shown
<1>2. ASSUME NEW s \in Requests, s # r
      PROVE  RequestOK(s)'
  <2>1. RequestOK(s) /\ request'[s] = request[s] /\ seen'[s] = seen[s]
    BY <1>2 DEF IInv
  <2>2. Found(s) => Found(s)'
    BY <1>1, <2>1 DEF Found
  <2> QED BY <1>1, <2>1, <2>2 DEF RequestOK
<1> QED BY <1>1, <1>2 DEF IInv

LEMMA BeginInv ==
  ASSUME IInv, NEW r \in Requests, NEW q \in Queries, Begin(r, q)
  PROVE  IInv'
<1> DEFINE begun == [stage |-> "reading", plan |-> Plan(q), generation |-> generation,
                     lanes |-> NoLanes, read |-> 0]
<1>1. /\ request' = [request EXCEPT ![r] = begun]
      /\ seen' = [seen EXCEPT ![r] = OnShow]
      /\ UNCHANGED <<indexVars, connection, lapses>>
  BY DEF Begin
<1>2. LanesOK(NoLanes) /\ Listed(NoLanes) = {}
  <2>1. \A l \in Lanes : NoLanes[l] = <<>> /\ LaneCap[l] \in Nat
    BY LaneLimit DEF NoLanes
  <2>2. \A l \in Lanes : LaneOK(NoLanes[l], l) /\ ChunksIn(NoLanes[l]) = {}
    <3>1. <<>> \in Seq(Hit) /\ Len(<<>>) = 0 /\ DOMAIN <<>> = {}
      OBVIOUS
    <3>2. \A l \in Lanes : LaneOK(<<>>, l)
      BY <2>1, <3>1 DEF LaneOK
    <3>3. ChunksIn(<<>>) = {}
      BY <3>1 DEF ChunksIn
    <3> QED BY <2>1, <3>2, <3>3
  <2>3. NoLanes \in [Lanes -> Seq(Hit)]
    BY DEF NoLanes
  <2> QED BY <2>2, <2>3 DEF LanesOK, Listed
<1>3. begun \in Readings
  BY <1>2, SearchAssumption DEF Readings, Plans, LanesOK, LaneOrder, IInv, IndexOK
<1>4. OnShow \in SUBSET Catalogue /\ OnShow' = OnShow
  BY <1>1 DEF OnShow, indexVars
<1>5. request'[r] = begun /\ seen'[r] = OnShow /\ generation' = generation
  BY <1>1 DEF IInv, indexVars
<1>6. RequestOK(r)'
  <2>1. Found(r)'
    BY <1>2, <1>3, <1>5 DEF Found, Readings, IInv, IndexOK
  <2> QED BY <1>3, <1>4, <1>5, <2>1 DEF RequestOK
<1>7. /\ DOMAIN request' = Requests
      /\ \A s \in Requests : s # r => request'[s] = request[s] /\ seen'[s] = seen[s]
      /\ seen' \in [Requests -> SUBSET Catalogue]
  <2> HIDE DEF begun
  <2> QED BY <1>1, <1>4 DEF IInv
<1> QED BY <1>1, <1>6, <1>7, OnlyOne

LEMMA ReadLaneInv ==
  ASSUME IInv, NEW r \in Requests, ReadLane(r)
  PROVE  IInv'
<1>1. PICK l \in {LaneOrder[request[r].read + 1]} :
        request' = [request EXCEPT ![r].lanes[l] = LaneHits(l, request[r].plan),
                                   ![r].read = @ + 1]
  BY DEF ReadLane
<1> DEFINE plan == request[r].plan
           lanes == request[r].lanes
           longer == [lanes EXCEPT ![l] = LaneHits(l, plan)]
<1>2. request[r] \in Readings /\ Found(r) /\ OnShow \subseteq seen[r]
  BY DEF IInv, RequestOK, ReadLane, Reading, Waiting
<1>3. l \in Lanes /\ request[r].read \in 0 .. 3
  BY <1>1, <1>2, TheLanes DEF ReadLane, LaneOrder, Readings
<1>4. LaneOK(LaneHits(l, plan), l) /\ ChunksIn(LaneHits(l, plan)) \subseteq Visible(plan.query)
  BY <1>2, <1>3, LaneReads DEF Found
<1>5. LanesOK(longer)
  <2>1. lanes \in [Lanes -> Seq(Hit)] /\ LaneHits(l, plan) \in Seq(Hit)
    BY <1>2, <1>4 DEF Found, LanesOK, LaneOK
  <2>2. longer \in [Lanes -> Seq(Hit)]
    BY <2>1
  <2>3. \A k \in Lanes : longer[k] = IF k = l THEN LaneHits(l, plan) ELSE lanes[k]
    BY <1>3, <2>1
  <2> HIDE DEF longer
  <2> QED BY <1>2, <1>4, <2>2, <2>3 DEF Found, LanesOK
<1>6. \A c \in Listed(longer) : c \in seen[r] /\ Passes(plan.query, c)
  <2>1. \A c \in Visible(plan.query) : c \in OnShow /\ Passes(plan.query, c)
    BY DEF Visible, OnShow
  <2>2. \A k \in Lanes : longer[k] = IF k = l THEN LaneHits(l, plan) ELSE lanes[k]
    BY <1>2, <1>3 DEF Readings
  <2> HIDE DEF longer
  <2>3. ASSUME NEW c \in Listed(longer)
        PROVE  c \in Listed(lanes) \/ c \in ChunksIn(LaneHits(l, plan))
    <3>1. PICK k \in Lanes : c \in ChunksIn(longer[k])
      BY DEF Listed
    <3> QED BY <2>2, <3>1 DEF Listed
  <2> QED BY <1>2, <1>4, <2>1, <2>3 DEF Found
<1>7. /\ request'[r] \in Readings
      /\ request'[r].plan = plan /\ request'[r].generation = request[r].generation
      /\ request'[r].lanes = longer
  <2>1. longer \in [Lanes -> Seq(Hit)]
    BY <1>5 DEF LanesOK
  <2>2. request'[r] = [request[r] EXCEPT !.lanes = longer, !.read = @ + 1]
    BY <1>1, <1>2 DEF IInv, Readings
  <2>3. request[r].read + 1 \in 0 .. Len(LaneOrder)
    BY <1>3 DEF LaneOrder
  <2> HIDE DEF longer
  <2> QED BY <1>2, <2>1, <2>2, <2>3 DEF Readings
<1>8. OnShow' = OnShow /\ seen' = seen /\ generation' = generation
  BY DEF ReadLane, indexVars, OnShow
<1>9. RequestOK(r)'
  <2>1. Found(r)'
    <3> HIDE DEF longer
    <3> QED BY <1>2, <1>5, <1>6, <1>7, <1>8 DEF Found
  <2> QED BY <1>2, <1>7, <1>8, <2>1 DEF RequestOK
<1>10. /\ DOMAIN request' = Requests
       /\ \A s \in Requests : s # r => request'[s] = request[s] /\ seen'[s] = seen[s]
       /\ seen' \in [Requests -> SUBSET Catalogue]
  BY <1>1, <1>8 DEF IInv
<1>11. UNCHANGED <<indexVars, connection, lapses>>
  BY DEF ReadLane
<1> QED BY <1>9, <1>10, <1>11, OnlyOne

LEMMA FinishInv ==
  ASSUME IInv, NEW r \in Requests, Finish(r)
  PROVE  IInv'
<1> DEFINE answer == [stage |-> "answered", plan |-> request[r].plan,
                      generation |-> request[r].generation, lanes |-> request[r].lanes,
                      response |-> Response(request[r].plan,
                                            FuseAndRank(request[r].lanes,
                                                        request[r].plan.query.limit))]
<1>1. /\ request' = [request EXCEPT ![r] = answer]
      /\ UNCHANGED <<indexVars, connection, lapses, seen>>
  BY DEF Finish
<1>2. Found(r)
  BY DEF IInv, RequestOK, Finish, Reading, Waiting
<1>3. request'[r] = answer /\ seen' = seen /\ generation' = generation
  BY <1>1 DEF IInv, indexVars
<1>4. RequestOK(r)'
  <2>1. Found(r)'
    BY <1>2, <1>3 DEF Found
  <2> QED BY <1>3, <2>1 DEF RequestOK
<1>5. /\ DOMAIN request' = Requests
      /\ \A s \in Requests : s # r => request'[s] = request[s] /\ seen'[s] = seen[s]
      /\ seen' \in [Requests -> SUBSET Catalogue]
  <2> HIDE DEF answer
  <2> QED BY <1>1 DEF IInv
<1> QED BY <1>1, <1>4, <1>5, OnlyOne

LEMMA NextInv == IInv /\ [Next]_vars => IInv'
<1> SUFFICES ASSUME IInv, [Next]_vars PROVE IInv'
  OBVIOUS
<1>1. CASE IndexChanges
  BY <1>1, IndexChangesInv
<1>2. CASE ConnectionChanges
  BY <1>2, ConnectionChangesInv
<1>3. ASSUME NEW r \in Requests, NEW q \in Queries, Begin(r, q) PROVE IInv'
  BY <1>3, BeginInv
<1>4. ASSUME NEW r \in Requests, ReadLane(r) PROVE IInv'
  BY <1>4, ReadLaneInv
<1>5. ASSUME NEW r \in Requests, Finish(r) PROVE IInv'
  BY <1>5, FinishInv
<1>6. CASE UNCHANGED vars
  BY <1>6 DEF vars, IInv, IndexOK, Index!ShownIsWanted, Index!Shown, RequestOK, Found, OnShow
<1> QED BY <1>1, <1>2, <1>3, <1>4, <1>5, <1>6 DEF Next

LEMMA SpecInv == Spec => []IInv
BY InitInv, NextInv, PTL DEF Spec

-----------------------------------------------------------------------------
(* Scores. *)

\* A later rank has a smaller reciprocal: the unit is fine enough for every
\* weight and every rank.
OverRank(w, i) == (w * 1000000) \div (60 + i)

LEMMA ReciprocalFalls ==
  ASSUME NEW w \in 3 .. 6, NEW i \in 1 .. 1000, NEW j \in 1 .. 1000, i < j
  PROVE  OverRank(w, j) < OverRank(w, i)
<1> DEFINE K == w * 1000000
           x == 60 + i
           y == 60 + j
           q == K \div y
           p == K \div x
<1>1. /\ K \in Nat /\ K >= 3000000
      /\ x \in Nat \ {0} /\ y \in Nat \ {0} /\ x < y /\ y <= 1060
  BY SMT
<1> HIDE DEF K, x, y
<1>2. /\ q \in Nat /\ y * q <= K /\ K < y * (q + 1)
      /\ p \in Nat /\ K < x * (p + 1)
  BY <1>1, Quotient, SMT
<1> HIDE DEF q, p
<1>3. q >= 1061
  <2>1. y * (q + 1) \in Nat /\ y * (q + 1) <= 1060 * (q + 1)
    BY <1>1, <1>2, Product, SMT
  <2> QED BY <1>1, <1>2, <2>1, SMT
<1>4. x * (q + 1) <= K
  <2>1. (x + 1) * q <= y * q /\ y * q \in Nat
    BY <1>1, <1>2, Product, SMT
  <2>2. x * q \in Nat /\ x * (q + 1) = x * q + x /\ (x + 1) * q = x * q + q
    BY <1>1, <1>2, SMT
  <2>3. x <= q
    BY <1>1, <1>2, <1>3, SMT
  <2> QED BY <1>1, <1>2, <2>1, <2>2, <2>3, SMT
<1>5. q < p
  <2>1. ASSUME p <= q PROVE FALSE
    <3>1. x * (p + 1) <= x * (q + 1) /\ x * (p + 1) \in Nat /\ x * (q + 1) \in Nat
      BY <1>1, <1>2, <2>1, Product, SMT
    <3> QED BY <1>1, <1>2, <1>4, <3>1, SMT
  <2> QED BY <1>2, <2>1, SMT
<1> QED BY <1>5, SMT DEF K, q, p, x, y, OverRank

LEMMA Weights ==
  ASSUME NEW l \in Lanes
  PROVE  LaneWeight[l] \in 3 .. 6 /\ FeatureWeight[l] \in 2 .. 6
  BY TheLanes DEF LaneWeight, FeatureWeight

\* The place of a chunk in a lane.
LEMMA RankFacts ==
  ASSUME NEW l \in Lanes, NEW hits, LaneOK(hits, l), NEW c \in ChunksIn(hits)
  PROVE  /\ Rank(hits, c) \in DOMAIN hits
         /\ hits[Rank(hits, c)].chunk = c
         /\ Rank(hits, c) \in 1 .. 1000
         /\ hits[Rank(hits, c)].raw \in Nat
         /\ c \in Catalogue
<1>1. PICK i \in DOMAIN hits : hits[i].chunk = c
  BY DEF ChunksIn
<1>2. Rank(hits, c) \in DOMAIN hits /\ hits[Rank(hits, c)].chunk = c
  BY <1>1 DEF Rank
<1>3. Rank(hits, c) \in 1 .. 1000 /\ hits[Rank(hits, c)] \in Hit
  <2> DEFINE p == Rank(hits, c)
  <2>1. /\ hits \in Seq(Hit) /\ Len(hits) <= LaneCap[l]
        /\ Len(hits) \in Nat /\ DOMAIN hits = 1 .. Len(hits)
    BY DEF LaneOK
  <2>2. p \in 1 .. Len(hits)
    BY <1>2, <2>1
  <2> HIDE DEF p
  <2>3. hits[p] \in Hit
    BY <2>1, <2>2, ElementOfSeq
  <2>4. p \in 1 .. 1000
    <3>1. \A n, m \in Nat : p \in 1 .. n /\ n <= m /\ m <= 1000 => p \in 1 .. 1000
      OBVIOUS
    <3>2. LaneCap[l] \in Nat /\ LaneCap[l] <= 1000
      BY LaneLimit
    <3> QED BY <2>1, <2>2, <3>1, <3>2
  <2> QED BY <2>3, <2>4 DEF p
<1> QED BY <1>2, <1>3 DEF Hit

\* The signal of a chunk is no smaller than that of one behind it.
LEMMA SignalFalls ==
  ASSUME NEW l \in Lanes, NEW hits, LaneOK(hits, l),
         NEW c \in ChunksIn(hits), NEW d \in ChunksIn(hits)
  PROVE  /\ Signal(hits, c) \in Nat
         /\ Rank(hits, c) < Rank(hits, d) => Signal(hits, d) <= Signal(hits, c)
<1> DEFINE raws == {hits[i].raw : i \in DOMAIN hits}
           i == Rank(hits, c)
           j == Rank(hits, d)
<1>1. /\ i \in DOMAIN hits /\ hits[i].raw \in Nat
      /\ j \in DOMAIN hits /\ hits[j].raw \in Nat
  <2>1. i \in DOMAIN hits /\ hits[i].raw \in Nat
    BY RankFacts
  <2>2. j \in DOMAIN hits /\ hits[j].raw \in Nat
    BY RankFacts
  <2> QED BY <2>1, <2>2
<1>2. Maximum(hits) \in Nat \ {0}
  <2>1. /\ hits \in Seq(Hit) /\ Len(hits) \in Nat /\ DOMAIN hits = 1 .. Len(hits)
        /\ \A k \in DOMAIN hits : hits[k] \in Hit
    BY DEF LaneOK
  <2>2. 1 \in DOMAIN hits
    <3> HIDE DEF i, j
    <3> QED BY <1>1, <2>1
  <2>3. \A k \in DOMAIN hits : hits[k].raw \in Nat /\ hits[1].raw >= hits[k].raw
    <3>1. \A k \in DOMAIN hits : k = 1 \/ 1 < k
      BY <2>1
    <3> QED BY <2>1, <2>2, <3>1 DEF LaneOK, Hit
  <2>4. hits[1].raw \in raws /\ \A x \in raws : hits[1].raw >= x
    BY <2>2, <2>3
  <2>5. Max(raws) \in raws
    <3> HIDE DEF raws
    <3> QED BY <2>4 DEF Max
  <2>6. Max(raws) \in Nat
    <3> HIDE DEF i, j
    <3> QED BY <2>3, <2>5
  <2>7. Maximum(hits) = IF Max(raws) = 0 THEN 1 ELSE Max(raws)
    BY DEF Maximum
  <2> HIDE DEF raws, i, j
  <2> QED BY <2>6, <2>7
<1>3. Signal(hits, c) = (1000 * hits[i].raw) \div Maximum(hits)
  BY DEF Signal
<1>4. Signal(hits, d) = (1000 * hits[j].raw) \div Maximum(hits)
  BY DEF Signal
<1>5. i < j => hits[j].raw <= hits[i].raw
  <2> HIDE DEF i, j
  <2> QED BY <1>1 DEF LaneOK
<1> DEFINE x == 1000 * hits[i].raw
           y == 1000 * hits[j].raw
<1>6. x \in Nat /\ y \in Nat /\ (i < j => y <= x)
  <2> HIDE DEF i, j
  <2> QED BY <1>1, <1>5
<1>7. x \div Maximum(hits) \in Nat /\ (i < j => y \div Maximum(hits) <= x \div Maximum(hits))
  <2> HIDE DEF x, y, i, j
  <2> QED BY <1>2, <1>6, Quotient, QuotientGrows
<1> QED BY <1>3, <1>4, <1>7

Bound == 6000000

Share(lanes, c, l) ==
  IF l \in LanesOf(lanes, c)
    THEN (LaneWeight[l] * 1000000) \div (RrfConstant + Rank(lanes[l], c)) ELSE 0

Weight(lanes, c, l) == IF l \in LanesOf(lanes, c) THEN FeatureWeight[l] ELSE 0

Value(lanes, c, l) ==
  IF l \in LanesOf(lanes, c) THEN Signal(lanes[l], c) * FeatureWeight[l] ELSE 0

\* The terms of the sums.
LEMMA ScoreTerms ==
  ASSUME NEW lanes, LanesOK(lanes), NEW c, NEW l \in Lanes
  PROVE  /\ Share(lanes, c, l) \in 0 .. Bound
         /\ Weight(lanes, c, l) \in 0 .. 6
         /\ Value(lanes, c, l) \in Nat
         /\ l \in LanesOf(lanes, c) =>
              /\ Rank(lanes[l], c) \in 1 .. 1000
              /\ Signal(lanes[l], c) \in Nat
              /\ c \in Catalogue
<1>1. LaneOK(lanes[l], l)
  BY DEF LanesOK
<1>2. Bound \in Nat
  BY SMT DEF Bound
<1>3. CASE l \in LanesOf(lanes, c)
  <2>1. c \in ChunksIn(lanes[l])
    BY <1>3 DEF LanesOf
  <2>2. Rank(lanes[l], c) \in 1 .. 1000 /\ c \in Catalogue
    BY <1>1, <2>1, RankFacts
  <2>3. Signal(lanes[l], c) \in Nat
    BY <1>1, <2>1, SignalFalls
  <2> DEFINE a == LaneWeight[l] * 1000000
             d == RrfConstant + Rank(lanes[l], c)
             q == a \div d
  <2>4. a \in Nat /\ a <= Bound /\ d \in Nat /\ 1 <= d
    BY <2>2, Weights, SMT DEF RrfConstant, Bound
  <2>5. Share(lanes, c, l) = q
    BY <1>3, SMT DEF Share
  <2> HIDE DEF a, d
  <2>6. q \in Nat /\ d * q <= a
    BY <2>4, Quotient
  <2> HIDE DEF q
  <2>7. 1 * q <= d * q /\ d * q \in Nat
    BY <2>4, <2>6, Product
  <2>8. q \in 0 .. Bound
    BY <1>2, <2>4, <2>6, <2>7
  <2>9. Value(lanes, c, l) \in Nat
    BY <1>3, <2>3, Weights DEF Value
  <2>10. Weight(lanes, c, l) \in 0 .. 6
    BY <1>3, Weights DEF Weight
  <2> QED BY <2>2, <2>3, <2>5, <2>8, <2>9, <2>10
<1>4. CASE l \notin LanesOf(lanes, c)
  BY <1>2, <1>4, SMT DEF Share, Weight, Value
<1> QED BY <1>3, <1>4

\* The sums, lane by lane.
LEMMA Sums ==
  ASSUME NEW lanes, NEW c
  PROVE  /\ Reciprocal(lanes, c) = Share(lanes, c, "exact") + Share(lanes, c, "keyword")
                                     + Share(lanes, c, "vector") + Share(lanes, c, "trigram")
         /\ Feature(lanes, c) =
              (1000 + (Value(lanes, c, "exact") + Value(lanes, c, "keyword")
                       + Value(lanes, c, "vector") + Value(lanes, c, "trigram")))
              \div (1 + (Weight(lanes, c, "exact") + Weight(lanes, c, "keyword")
                         + Weight(lanes, c, "vector") + Weight(lanes, c, "trigram")))
<1>1. Reciprocal(lanes, c) = SumOf([l \in Lanes |-> Share(lanes, c, l)])
  BY SMT DEF Reciprocal, Share
<1> DEFINE share == [l \in Lanes |-> Share(lanes, c, l)]
           weight == [l \in Lanes |-> Weight(lanes, c, l)]
           value == [l \in Lanes |-> Value(lanes, c, l)]
<1>2. /\ share.exact = Share(lanes, c, "exact") /\ share.keyword = Share(lanes, c, "keyword")
      /\ share.vector = Share(lanes, c, "vector") /\ share.trigram = Share(lanes, c, "trigram")
  BY TheLanes
<1>3. /\ weight.exact = Weight(lanes, c, "exact") /\ weight.keyword = Weight(lanes, c, "keyword")
      /\ weight.vector = Weight(lanes, c, "vector") /\ weight.trigram = Weight(lanes, c, "trigram")
  BY TheLanes
<1>4. /\ value.exact = Value(lanes, c, "exact") /\ value.keyword = Value(lanes, c, "keyword")
      /\ value.vector = Value(lanes, c, "vector") /\ value.trigram = Value(lanes, c, "trigram")
  BY TheLanes
<1>5. Feature(lanes, c) = (Quality.value * Quality.weight + SumOf(value))
                            \div (Quality.weight + SumOf(weight))
  <2> DEFINE w == [l \in Lanes |-> IF l \in LanesOf(lanes, c) THEN FeatureWeight[l] ELSE 0]
             v == [l \in Lanes |-> IF l \in LanesOf(lanes, c)
                                      THEN Signal(lanes[l], c) * w[l] ELSE 0]
  <2>1. w = weight
    BY DEF Weight
  <2>2. v = value
    BY DEF Value
  <2>3. Feature(lanes, c) = (Quality.value * Quality.weight + SumOf(v))
                              \div (Quality.weight + SumOf(w))
    BY DEF Feature
  <2> HIDE DEF v, w, value, weight
  <2> QED BY <2>1, <2>2, <2>3
<1>6. Quality.value * Quality.weight = 1000 /\ Quality.weight = 1
  BY SMT DEF Quality
<1> HIDE DEF share, weight, value
<1>7. SumOf(share) = share.exact + share.keyword + share.vector + share.trigram
  BY DEF SumOf
<1>8. SumOf(weight) = weight.exact + weight.keyword + weight.vector + weight.trigram
  BY DEF SumOf
<1>9. SumOf(value) = value.exact + value.keyword + value.vector + value.trigram
  BY DEF SumOf
<1>10. Reciprocal(lanes, c) = SumOf(share)
  BY <1>1 DEF share
<1> QED BY <1>2, <1>3, <1>4, <1>5, <1>6, <1>7, <1>8, <1>9, <1>10, SMT

\* What some lane found has a score.
LEMMA ScoreTypes ==
  ASSUME NEW lanes, LanesOK(lanes), NEW c
  PROVE  /\ Reciprocal(lanes, c) \in 0 .. 4 * Bound
         /\ Feature(lanes, c) \in Nat
<1>1. /\ "exact" \in Lanes /\ "keyword" \in Lanes
      /\ "vector" \in Lanes /\ "trigram" \in Lanes
  BY TheLanes
<1>2. Bound \in Nat
  BY SMT DEF Bound
<1>3. Reciprocal(lanes, c) \in 0 .. 4 * Bound
  <2>1. \A l \in Lanes : Share(lanes, c, l) \in 0 .. Bound
    BY ScoreTerms
  <2> QED BY <1>1, <1>2, <2>1, Sums
<1>4. Feature(lanes, c) \in Nat
  <2>1. \A l \in Lanes : Value(lanes, c, l) \in Nat /\ Weight(lanes, c, l) \in Nat
    BY ScoreTerms
  <2> DEFINE a == 1000 + (Value(lanes, c, "exact") + Value(lanes, c, "keyword")
                          + Value(lanes, c, "vector") + Value(lanes, c, "trigram"))
             d == 1 + (Weight(lanes, c, "exact") + Weight(lanes, c, "keyword")
                       + Weight(lanes, c, "vector") + Weight(lanes, c, "trigram"))
  <2>2. a \in Nat /\ d \in Nat \ {0}
    BY <1>1, <2>1
  <2>3. Feature(lanes, c) = a \div d
    BY Sums
  <2> HIDE DEF a, d
  <2> QED BY <2>2, <2>3, Quotient
<1> QED BY <1>3, <1>4

\* What is ahead of another chunk has more reciprocal rank and no less of the
\* features.
LEMMA AheadScoresMore ==
  ASSUME NEW lanes, LanesOK(lanes),
         NEW a \in Listed(lanes), NEW b \in Listed(lanes), Ahead(lanes, a, b)
  PROVE  /\ Reciprocal(lanes, b) < Reciprocal(lanes, a)
         /\ Feature(lanes, b) <= Feature(lanes, a)
<1>1. /\ "exact" \in Lanes /\ "keyword" \in Lanes
      /\ "vector" \in Lanes /\ "trigram" \in Lanes
  BY TheLanes
<1>2. ASSUME NEW l \in Lanes
      PROVE  /\ Share(lanes, a, l) \in Nat /\ Share(lanes, b, l) \in Nat
             /\ Share(lanes, b, l) <= Share(lanes, a, l)
             /\ l \in LanesOf(lanes, a) => Share(lanes, b, l) < Share(lanes, a, l)
             /\ Weight(lanes, b, l) = Weight(lanes, a, l) /\ Weight(lanes, a, l) \in Nat
             /\ Value(lanes, a, l) \in Nat /\ Value(lanes, b, l) \in Nat
             /\ Value(lanes, b, l) <= Value(lanes, a, l)
  <2>1. /\ Share(lanes, a, l) \in 0 .. Bound /\ Share(lanes, b, l) \in 0 .. Bound
        /\ Weight(lanes, a, l) \in 0 .. 6
        /\ Value(lanes, a, l) \in Nat /\ Value(lanes, b, l) \in Nat
    BY ScoreTerms
  <2>2. Bound \in Nat
    BY SMT DEF Bound
  <2>3. (l \in LanesOf(lanes, a)) <=> (l \in LanesOf(lanes, b))
    BY DEF Ahead
  <2>4. CASE l \in LanesOf(lanes, a)
    <3> DEFINE i == Rank(lanes[l], a)
               j == Rank(lanes[l], b)
    <3>1. /\ i \in 1 .. 1000 /\ Signal(lanes[l], a) \in Nat
          /\ j \in 1 .. 1000 /\ Signal(lanes[l], b) \in Nat
      BY <2>3, <2>4, ScoreTerms
    <3>2. i < j
      BY <2>4 DEF Ahead
    <3>3. Signal(lanes[l], b) <= Signal(lanes[l], a)
      <4>1. a \in ChunksIn(lanes[l]) /\ b \in ChunksIn(lanes[l]) /\ LaneOK(lanes[l], l)
        BY <2>3, <2>4 DEF LanesOf, LanesOK
      <4> QED BY <3>2, <4>1, SignalFalls
    <3>4. /\ Share(lanes, a, l) = OverRank(LaneWeight[l], i)
          /\ Share(lanes, b, l) = OverRank(LaneWeight[l], j)
      BY <2>3, <2>4, SMT DEF Share, RrfConstant, OverRank
    <3>5. Share(lanes, b, l) < Share(lanes, a, l)
      <4> DEFINE w == LaneWeight[l]
      <4>1. w \in 3 .. 6
        BY Weights
      <4>2. i \in 1 .. 1000 /\ j \in 1 .. 1000
        BY <3>1
      <4>3. Share(lanes, a, l) = OverRank(w, i) /\ Share(lanes, b, l) = OverRank(w, j)
        BY <3>4
      <4> HIDE DEF i, j, w
      <4>4. OverRank(w, j) < OverRank(w, i)
        BY <3>2, <4>1, <4>2, ReciprocalFalls
      <4> QED BY <4>3, <4>4
    <3>6. Weight(lanes, b, l) = Weight(lanes, a, l)
      BY <2>3 DEF Weight
    <3>7. Value(lanes, b, l) <= Value(lanes, a, l)
      <4>1. /\ Value(lanes, a, l) = Signal(lanes[l], a) * FeatureWeight[l]
            /\ Value(lanes, b, l) = Signal(lanes[l], b) * FeatureWeight[l]
        BY <2>3, <2>4 DEF Value
      <4>2. FeatureWeight[l] \in Nat
        BY Weights
      <4> QED BY <3>1, <3>3, <4>1, <4>2, Product
    <3> HIDE DEF i, j
    <3> QED BY <2>1, <2>2, <3>5, <3>6, <3>7
  <2>5. CASE l \notin LanesOf(lanes, a)
    BY <2>3, <2>5, SMT DEF Share, Weight, Value
  <2> QED BY <2>4, <2>5
<1>3. Reciprocal(lanes, b) < Reciprocal(lanes, a)
  <2>1. PICK l \in Lanes : l \in LanesOf(lanes, a)
    BY DEF Listed, LanesOf
  <2>2. \A k \in Lanes : /\ Share(lanes, a, k) \in Nat /\ Share(lanes, b, k) \in Nat
                         /\ Share(lanes, b, k) <= Share(lanes, a, k)
    BY <1>2
  <2>3. Share(lanes, b, l) < Share(lanes, a, l)
    BY <1>2, <2>1
  <2>4. l \in {"exact", "keyword", "vector", "trigram"}
    BY TheLanes
  <2> QED BY <1>1, <2>2, <2>3, <2>4, Sums
<1>4. Feature(lanes, b) <= Feature(lanes, a)
  <2> DEFINE x(c) == 1000 + (Value(lanes, c, "exact") + Value(lanes, c, "keyword")
                             + Value(lanes, c, "vector") + Value(lanes, c, "trigram"))
             d(c) == 1 + (Weight(lanes, c, "exact") + Weight(lanes, c, "keyword")
                          + Weight(lanes, c, "vector") + Weight(lanes, c, "trigram"))
  <2>1. x(a) \in Nat /\ x(b) \in Nat /\ x(b) <= x(a)
    BY <1>1, <1>2
  <2>2. d(a) \in Nat \ {0} /\ d(b) = d(a)
    BY <1>1, <1>2
  <2>3. Feature(lanes, a) = x(a) \div d(a) /\ Feature(lanes, b) = x(b) \div d(b)
    BY Sums
  <2> HIDE DEF x, d
  <2> QED BY <2>1, <2>2, <2>3, QuotientGrows
<1> QED BY <1>3, <1>4

-----------------------------------------------------------------------------
(* The order of the chunks found. *)

LEMMA ListedFacts ==
  ASSUME NEW lanes, LanesOK(lanes)
  PROVE  Listed(lanes) \subseteq Catalogue /\ IsFiniteSet(Listed(lanes))
<1>1. ASSUME NEW c \in Listed(lanes)
      PROVE  c \in Catalogue
  <2>1. PICK l \in Lanes : c \in ChunksIn(lanes[l])
    BY DEF Listed
  <2> QED BY <2>1, RankFacts DEF LanesOK
<1> QED BY <1>1, SearchAssumption, FS_Subset

\* Ordered lists every chunk found once, and none before one that is ahead of it.
OrderOK(o, lanes, n) ==
  /\ o \in [1 .. n -> Listed(lanes)]
  /\ \A c \in Listed(lanes) : \E i \in 1 .. n : o[i] = c
  /\ \A i, j \in 1 .. n : o[i] = o[j] => i = j
  /\ \A i, j \in 1 .. n : Ahead(lanes, o[i], o[j]) => i < j

LEMMA OrderedLists ==
  ASSUME NEW lanes, LanesOK(lanes)
  PROVE  \E n \in Nat : OrderOK(Ordered(lanes), lanes, n)
<1> DEFINE listed == Listed(lanes)
           rrf == {Reciprocal(lanes, c) : c \in listed} \cup {1}
           best == Max(rrf)
           score(c) == 1000 * Reciprocal(lanes, c) + 3 * best * Feature(lanes, c)
           scored == {[chunk |-> c, score |-> score(c)] : c \in listed}
           R == {e \in scored \X scored : Before(e[1], e[2])}
           n == Cardinality(scored)
           sorted == Sorted(scored, R)
<1>1. listed \subseteq Catalogue /\ IsFiniteSet(listed)
  BY ListedFacts
<1>2. best \in Nat
  <2>1. Bound \in Nat /\ Bound >= 1
    BY SMT DEF Bound
  <2>2. rrf \in SUBSET (0 .. 4 * Bound) /\ rrf # {} /\ 4 * Bound \in Nat
    BY <2>1, ScoreTypes
  <2> HIDE DEF rrf
  <2>3. best \in rrf
    BY <2>2, GreatestNumber
  <2>4. \A x \in rrf : x \in Nat
    BY <2>2
  <2> HIDE DEF best
  <2> QED BY <2>3, <2>4
<1>3. \A c \in listed : Reciprocal(lanes, c) \in Nat /\ Feature(lanes, c) \in Nat
  <2>1. Bound \in Nat
    BY SMT DEF Bound
  <2> QED BY <2>1, ScoreTypes
<1>4. \A c \in listed : score(c) \in Nat
  <2> HIDE DEF best
  <2> QED BY <1>2, <1>3
<1>5. \A c, d \in listed : Ahead(lanes, c, d) => score(d) < score(c)
  <2> SUFFICES ASSUME NEW c \in listed, NEW d \in listed, Ahead(lanes, c, d)
               PROVE  score(d) < score(c)
    OBVIOUS
  <2>1. Reciprocal(lanes, d) < Reciprocal(lanes, c) /\ Feature(lanes, d) <= Feature(lanes, c)
    BY AheadScoresMore
  <2> HIDE DEF best
  <2> DEFINE k == 3 * best
  <2>2. k \in Nat
    BY <1>2
  <2>3. /\ Reciprocal(lanes, c) \in Nat /\ Feature(lanes, c) \in Nat
        /\ Reciprocal(lanes, d) \in Nat /\ Feature(lanes, d) \in Nat
    BY <1>3
  <2>4. k * Feature(lanes, d) <= k * Feature(lanes, c) /\ k * Feature(lanes, d) \in Nat
        /\ k * Feature(lanes, c) \in Nat
    <3> HIDE DEF k
    <3> QED BY <2>1, <2>2, <2>3, Product
  <2>5. score(c) = 1000 * Reciprocal(lanes, c) + k * Feature(lanes, c)
    OBVIOUS
  <2>6. score(d) = 1000 * Reciprocal(lanes, d) + k * Feature(lanes, d)
    OBVIOUS
  <2> HIDE DEF k, score
  <2> QED BY <2>1, <2>3, <2>4, <2>5, <2>6
<1> HIDE DEF score, best
<1>6. IsFiniteSet(scored)
  <2> DEFINE f == [c \in listed |-> [chunk |-> c, score |-> score(c)]]
  <2>1. f \in Surjection(listed, scored)
    BY DEF Surjection
  <2> HIDE DEF f, scored, listed
  <2> QED BY <1>1, <2>1, FS_Surjection
<1>7. \A e \in scored : /\ e.chunk \in listed /\ e.score \in Nat /\ e.score = score(e.chunk)
                        /\ e.chunk.id \in Nat /\ e.chunk.timestamp \in Int
  BY <1>1, <1>4, SearchAssumption
<1>8. \A e, f \in scored : e.chunk.id = f.chunk.id => e = f
  BY <1>1, SearchAssumption
<1>9. StrictOrder(scored, R)
  <2>1. \A e, f \in scored : (<<e, f>> \in R) <=> Before(e, f)
    OBVIOUS
  <2> HIDE DEF scored, R, listed
  <2>2. \A e \in scored : ~Before(e, e)
    BY <1>7 DEF Before
  <2>3. \A e, f, g \in scored : Before(e, f) /\ Before(f, g) => Before(e, g)
    BY <1>7 DEF Before
  <2>4. \A e, f \in scored : e # f => Before(e, f) \/ Before(f, e)
    BY <1>7, <1>8 DEF Before
  <2> QED BY <2>1, <2>2, <2>3, <2>4 DEF StrictOrder
<1>10. /\ n \in Nat
       /\ sorted \in [1 .. n -> scored]
       /\ \A e \in scored : \E i \in 1 .. n : sorted[i] = e
       /\ \A i, j \in 1 .. n : (i < j) <=> (<<sorted[i], sorted[j]>> \in R)
       /\ \A i, j \in 1 .. n : sorted[i] = sorted[j] => i = j
  <2> HIDE DEF scored, R
  <2> QED BY <1>6, <1>9, SortedLists
<1> DEFINE o == [i \in 1 .. n |-> sorted[i].chunk]
<1>11. Ordered(lanes) = o
  <2>1. scored = Scored(lanes)
    BY DEF Scored, score, best
  <2>2. DOMAIN sorted = 1 .. n
    <3> HIDE DEF sorted, n
    <3> QED BY <1>10
  <2>3. Ordered(lanes) = [i \in DOMAIN Sorted(scored, R) |-> Sorted(scored, R)[i].chunk]
    <3> HIDE DEF scored
    <3> QED BY <2>1 DEF Ordered
  <2> HIDE DEF scored, R, n
  <2> QED BY <2>2, <2>3
<1> HIDE DEF sorted, n
<1>12. \A i \in 1 .. n : o[i] = sorted[i].chunk /\ sorted[i] \in scored
  <2> HIDE DEF scored
  <2> QED BY <1>10
<1>13. o \in [1 .. n -> listed]
  <2> HIDE DEF scored, listed
  <2> QED BY <1>7, <1>12
<1>14. \A c \in listed : \E i \in 1 .. n : o[i] = c
  <2> SUFFICES ASSUME NEW c \in listed PROVE \E i \in 1 .. n : o[i] = c
    OBVIOUS
  <2>1. [chunk |-> c, score |-> score(c)] \in scored
    OBVIOUS
  <2> HIDE DEF scored, listed
  <2>2. PICK i \in 1 .. n : sorted[i] = [chunk |-> c, score |-> score(c)]
    BY <1>10, <2>1
  <2> QED BY <2>2
<1>15. \A i, j \in 1 .. n : o[i] = o[j] => i = j
  <2>1. \A e, f \in scored : e.chunk = f.chunk => e = f
    BY <1>8
  <2> HIDE DEF scored, o
  <2> QED BY <1>10, <1>12, <2>1
<1>16. \A i, j \in 1 .. n : Ahead(lanes, o[i], o[j]) => i < j
  <2> SUFFICES ASSUME NEW i \in 1 .. n, NEW j \in 1 .. n, Ahead(lanes, o[i], o[j])
               PROVE  i < j
    OBVIOUS
  <2> HIDE DEF scored, o, listed
  <2>1. /\ sorted[i] \in scored /\ sorted[i].chunk = o[i]
        /\ sorted[j] \in scored /\ sorted[j].chunk = o[j]
    BY <1>12
  <2>2. sorted[j].score < sorted[i].score
    BY <1>5, <1>7, <2>1
  <2>3. Before(sorted[i], sorted[j])
    BY <1>7, <2>1, <2>2 DEF Before
  <2>4. <<sorted[i], sorted[j]>> \in R
    BY <2>1, <2>3
  <2> QED BY <1>10, <2>4
<1> HIDE DEF o, listed
<1>17. OrderOK(o, lanes, n)
  BY <1>13, <1>14, <1>15, <1>16 DEF OrderOK, listed
<1> QED BY <1>10, <1>11, <1>17

-----------------------------------------------------------------------------
(* Selections: what is left of a list when some of its members are passed over. *)

Distinct(list) == \A i, j \in DOMAIN list : list[i] = list[j] => i = j

\* s holds members of the first i of o, in their order.
Selects(s, o, i) ==
  /\ \A k \in DOMAIN s : \E p \in DOMAIN o : p <= i /\ s[k] = o[p]
  /\ \A k, m \in DOMAIN s : \A p, q \in DOMAIN o :
       s[k] = o[p] /\ s[m] = o[q] => (k < m <=> p < q)

LEMMA SelectionIsDistinct ==
  ASSUME NEW C, NEW s \in Seq(C), NEW o \in Seq(C), NEW i, Selects(s, o, i)
  PROVE  Distinct(s) /\ ToSet(s) \subseteq ToSet(o)
<1>1. ASSUME NEW k \in DOMAIN s, NEW m \in DOMAIN s, s[k] = s[m]
      PROVE  k = m
  <2>1. PICK p \in DOMAIN o : s[k] = o[p]
    BY DEF Selects
  <2>2. k < m <=> p < p
    BY <1>1, <2>1 DEF Selects
  <2>3. m < k <=> p < p
    BY <1>1, <2>1 DEF Selects
  <2>4. k \in Nat /\ m \in Nat /\ p \in Nat
    OBVIOUS
  <2> QED BY <2>2, <2>3, <2>4
<1>2. ToSet(s) \subseteq ToSet(o)
  BY DEF Selects, ToSet
<1> QED BY <1>1, <1>2 DEF Distinct

\* The next member is passed over or taken.
LEMMA SelectionGrows ==
  ASSUME NEW C, NEW s \in Seq(C), NEW o \in Seq(C), Distinct(o),
         NEW i \in Nat, i + 1 \in DOMAIN o, Selects(s, o, i)
  PROVE  Selects(s, o, i + 1) /\ Selects(Append(s, o[i + 1]), o, i + 1)
<1>1. Selects(s, o, i + 1)
  <2>1. \A p \in DOMAIN o : p <= i => p <= i + 1
    OBVIOUS
  <2> QED BY <2>1 DEF Selects
<1> DEFINE c == o[i + 1]
           t == Append(s, c)
<1>2. c \in C
  OBVIOUS
<1>3. /\ Len(s) \in Nat
      /\ DOMAIN s = 1 .. Len(s) /\ DOMAIN t = 1 .. Len(s) + 1
      /\ \A k \in 1 .. Len(s) : t[k] = s[k]
      /\ t[Len(s) + 1] = c
  BY <1>2, AppendFacts
<1>4. \A k \in DOMAIN t : (k \in DOMAIN s /\ t[k] = s[k]) \/ (k = Len(s) + 1 /\ t[k] = c)
  <2> HIDE DEF t
  <2> QED BY <1>3
<1>5. \A p \in DOMAIN o : o[p] = c => p = i + 1
  BY DEF Distinct
<1>6. \A k \in DOMAIN s, p \in DOMAIN o : s[k] = o[p] => p < i + 1 /\ k < Len(s) + 1
  <2> SUFFICES ASSUME NEW k \in DOMAIN s, NEW p \in DOMAIN o, s[k] = o[p]
               PROVE  p < i + 1 /\ k < Len(s) + 1
    OBVIOUS
  <2>1. PICK q \in DOMAIN o : q <= i /\ s[k] = o[q]
    BY DEF Selects
  <2>2. p = q
    BY <2>1 DEF Distinct
  <2>3. q \in Nat
    OBVIOUS
  <2> HIDE DEF t
  <2> QED BY <1>3, <2>1, <2>2, <2>3
<1>7. \A k \in DOMAIN t : \E p \in DOMAIN o : p <= i + 1 /\ t[k] = o[p]
  <2> HIDE DEF t
  <2> QED BY <1>1, <1>4 DEF Selects
<1>8. ASSUME NEW k \in DOMAIN t, NEW m \in DOMAIN t, NEW p \in DOMAIN o, NEW q \in DOMAIN o,
             t[k] = o[p], t[m] = o[q]
      PROVE  k < m <=> p < q
  <2>1. CASE k \in DOMAIN s /\ t[k] = s[k] /\ m \in DOMAIN s /\ t[m] = s[m]
    <3> HIDE DEF t
    <3> QED BY <1>8, <2>1 DEF Selects
  <2>2. CASE k = Len(s) + 1 /\ t[k] = c /\ m = Len(s) + 1 /\ t[m] = c
    <3>1. p = i + 1 /\ q = i + 1
      <4> HIDE DEF t, c
      <4> QED BY <1>5, <1>8, <2>2
    <3> HIDE DEF t, c
    <3> QED BY <1>3, <2>2, <3>1
  <2>3. CASE k = Len(s) + 1 /\ t[k] = c /\ m \in DOMAIN s /\ t[m] = s[m]
    <3> HIDE DEF t, c
    <3>1. p = i + 1 /\ q < i + 1 /\ m < Len(s) + 1
      BY <1>5, <1>6, <1>8, <2>3
    <3>2. m \in Nat /\ q \in Nat
      BY <1>3
    <3> QED BY <1>3, <2>3, <3>1, <3>2
  <2>4. CASE k \in DOMAIN s /\ t[k] = s[k] /\ m = Len(s) + 1 /\ t[m] = c
    <3> HIDE DEF t, c
    <3>1. q = i + 1 /\ p < i + 1 /\ k < Len(s) + 1
      BY <1>5, <1>6, <1>8, <2>4
    <3> QED BY <2>4, <3>1
  <2> HIDE DEF t, c
  <2> QED BY <1>4, <2>1, <2>2, <2>3, <2>4
<1> HIDE DEF t
<1>9. Selects(t, o, i + 1)
  BY <1>7, <1>8 DEF Selects
<1> QED BY <1>1, <1>9 DEF t

\* Members of distinct positions are counted by their positions.
LEMMA PositionsCount ==
  ASSUME NEW C, NEW list \in Seq(C), Distinct(list), NEW K \in SUBSET DOMAIN list
  PROVE  /\ Cardinality(K) = Cardinality({list[k] : k \in K})
         /\ IsFiniteSet(ToSet(list))
<1> DEFINE S == {list[k] : k \in K}
           f == [k \in K |-> list[k]]
<1>1. IsFiniteSet(DOMAIN list)
  <2>1. DOMAIN list = 1 .. Len(list) /\ Len(list) \in Nat
    OBVIOUS
  <2> QED BY <2>1, FS_Interval
<1>2. IsFiniteSet(K)
  BY <1>1, FS_Subset
<1>3. ExistsBijection(K, S)
  <2>1. f \in [K -> S] /\ \A k, m \in K : f[k] = f[m] => k = m
    BY DEF Distinct
  <2>2. \A x \in S : \E k \in K : f[k] = x
    OBVIOUS
  <2>3. f \in Bijection(K, S)
    <3> HIDE DEF f, S
    <3> QED BY <2>1, <2>2 DEF Bijection, Injection, IsInjective, Surjection
  <2> QED BY <2>3 DEF ExistsBijection
<1>4. Cardinality(K) = Cardinality(S)
  <2> HIDE DEF S
  <2> QED BY <1>2, <1>3, FS_Bijection
<1>5. IsFiniteSet(ToSet(list))
  <2> DEFINE g == [k \in DOMAIN list |-> list[k]]
  <2>1. g \in Surjection(DOMAIN list, ToSet(list))
    BY DEF Surjection, ToSet
  <2> HIDE DEF g
  <2> QED BY <1>1, <2>1, FS_Surjection
<1> QED BY <1>4, <1>5

-----------------------------------------------------------------------------
(* The results. *)

From(S, source) == {c \in S : c.source = source}

LEMMA FitsMeans ==
  ASSUME NEW C, NEW list \in Seq(C), Distinct(list), NEW c
  PROVE  Fits(list, c) <=> /\ \A d \in ToSet(list) : d.hash # c.hash
                           /\ Cardinality(From(ToSet(list), c.source)) < PerSource
<1> DEFINE K == {k \in DOMAIN list : list[k].source = c.source}
<1>1. Cardinality(K) = Cardinality({list[k] : k \in K})
  BY PositionsCount
<1>2. {list[k] : k \in K} = From(ToSet(list), c.source)
  BY DEF From, ToSet
<1>3. Fits(list, c) <=> /\ \A k \in DOMAIN list : list[k].hash # c.hash
                        /\ Cardinality(K) < PerSource
  BY DEF Fits, Count
<1>4. (\A k \in DOMAIN list : list[k].hash # c.hash)
        <=> (\A d \in ToSet(list) : d.hash # c.hash)
  BY DEF ToSet
<1> HIDE DEF K
<1> QED BY <1>1, <1>2, <1>3, <1>4

\* What one more member makes of a part of a set.
LEMMA PartGrows ==
  ASSUME NEW S, IsFiniteSet(S), NEW c, c \notin S, NEW source
  PROVE  /\ Cardinality(From(S, source)) \in Nat
         /\ Cardinality(From(S \cup {c}, source)) =
              Cardinality(From(S, source)) + (IF c.source = source THEN 1 ELSE 0)
<1>1. IsFiniteSet(From(S, source)) /\ c \notin From(S, source)
  BY FS_Subset DEF From
<1>2. From(S \cup {c}, source) =
        IF c.source = source THEN From(S, source) \cup {c} ELSE From(S, source)
  BY DEF From
<1>3. Cardinality(From(S, source)) \in Nat
  BY <1>1, FS_CardinalityType
<1>4. Cardinality(From(S, source) \cup {c}) = Cardinality(From(S, source)) + 1
  BY <1>1, FS_AddElement
<1> QED BY <1>2, <1>3, <1>4

\* What is missing of the first i has a reason.
ResultsOK(r, o, i, limit) ==
  /\ Selects(r, o, i)
  /\ Len(r) <= limit
  /\ \A c, d \in ToSet(r) : c.hash = d.hash => c = d
  /\ \A source : Cardinality(From(ToSet(r), source)) <= PerSource
  /\ \A p \in DOMAIN o : p <= i =>
       \/ o[p] \in ToSet(r)
       \/ \E d \in ToSet(r) : d.hash = o[p].hash
       \/ Cardinality(From(ToSet(r), o[p].source)) = PerSource
       \/ Len(r) = limit

LEMMA ResultsGrow ==
  ASSUME NEW C, NEW o \in Seq(C), Distinct(o), NEW limit \in Nat,
         NEW i \in Nat, i + 1 \in DOMAIN o,
         NEW r \in Seq(C), ResultsOK(r, o, i, limit)
  PROVE  ResultsOK(IF Len(r) < limit /\ Fits(r, o[i + 1]) THEN Append(r, o[i + 1]) ELSE r,
                   o, i + 1, limit)
<1> DEFINE c == o[i + 1]
           S == ToSet(r)
<1>1. c \in C /\ Len(r) \in Nat /\ PerSource \in Nat
  BY RankingAssumption
<1>2. /\ Selects(r, o, i + 1) /\ Selects(Append(r, c), o, i + 1)
      /\ Distinct(r) /\ IsFiniteSet(S)
  BY SelectionGrows, SelectionIsDistinct, PositionsCount DEF ResultsOK
<1>3. \A source : Cardinality(From(S, source)) \in Nat
  <2>1. \A source : From(S, source) \in SUBSET S
    BY DEF From
  <2> HIDE DEF S
  <2> QED BY <1>2, <2>1, FS_Subset, FS_CardinalityType
<1>4. Fits(r, c) <=> (\A d \in S : d.hash # c.hash) /\ Cardinality(From(S, c.source)) < PerSource
  BY <1>2, FitsMeans
<1>5. \A p \in DOMAIN o : p <= i + 1 => p <= i \/ p = i + 1
  <2>1. \A p \in DOMAIN o : p \in Nat
    OBVIOUS
  <2> QED BY <2>1
<1>6. CASE Len(r) < limit /\ Fits(r, c)
  <2> DEFINE t == Append(r, c)
  <2>1. /\ t \in Seq(C) /\ Len(t) = Len(r) + 1 /\ ToSet(t) = S \cup {c}
    BY <1>1, AppendFacts
  <2>2. c \notin S
    BY <1>4, <1>6
  <2>3. \A source : Cardinality(From(ToSet(t), source)) =
                     Cardinality(From(S, source)) + (IF c.source = source THEN 1 ELSE 0)
    <3> HIDE DEF S, t, c
    <3> QED BY <1>2, <2>1, <2>2, PartGrows
  <2>4. Len(t) <= limit
    BY <1>1, <1>6, <2>1
  <2>5. \A d, e \in ToSet(t) : d.hash = e.hash => d = e
    <3> HIDE DEF t
    <3> QED BY <1>4, <1>6, <2>1 DEF ResultsOK
  <2>6. \A source : Cardinality(From(ToSet(t), source)) <= PerSource
    <3>1. \A source : Cardinality(From(S, source)) <= PerSource
      BY DEF ResultsOK
    <3> HIDE DEF t, S, c
    <3> QED BY <1>1, <1>3, <1>4, <1>6, <2>3, <3>1
  <2>7. ASSUME NEW p \in DOMAIN o, p <= i + 1
        PROVE  \/ o[p] \in ToSet(t)
               \/ \E d \in ToSet(t) : d.hash = o[p].hash
               \/ Cardinality(From(ToSet(t), o[p].source)) = PerSource
               \/ Len(t) = limit
    <3>1. CASE p = i + 1
      BY <2>1, <3>1
    <3>2. CASE p <= i
      <4>1. \/ o[p] \in S
            \/ \E d \in S : d.hash = o[p].hash
            \/ Cardinality(From(S, o[p].source)) = PerSource
        BY <1>1, <1>6, <3>2 DEF ResultsOK
      <4>2. Cardinality(From(S, o[p].source)) = PerSource
              => Cardinality(From(ToSet(t), o[p].source)) = PerSource
        <5> HIDE DEF t, S, c
        <5> QED BY <1>1, <1>3, <1>4, <1>6, <2>3
      <4> HIDE DEF t, S
      <4> QED BY <2>1, <4>1, <4>2
    <3> QED BY <1>5, <2>7, <3>1, <3>2
  <2>8. ResultsOK(t, o, i + 1, limit)
    <3> HIDE DEF t
    <3>1. Selects(t, o, i + 1)
      BY <1>2 DEF t
    <3> QED BY <2>4, <2>5, <2>6, <2>7, <3>1 DEF ResultsOK
  <2> QED BY <1>6, <2>8
<1>7. CASE ~(Len(r) < limit /\ Fits(r, c))
  <2>1. Len(r) = limit \/ ~Fits(r, c)
    BY <1>1, <1>7 DEF ResultsOK
  <2>2. \/ \E d \in S : d.hash = c.hash
        \/ Cardinality(From(S, c.source)) = PerSource
        \/ Len(r) = limit
    <3>1. Cardinality(From(S, c.source)) <= PerSource
      BY DEF ResultsOK
    <3> HIDE DEF S, c
    <3> QED BY <1>1, <1>3, <1>4, <2>1, <3>1
  <2>3. ResultsOK(r, o, i + 1, limit)
    BY <1>2, <1>5, <2>2 DEF ResultsOK
  <2> QED BY <1>7, <2>3
<1> QED BY <1>6, <1>7

\* The results ranking makes of the lanes.
LEMMA FusedResults ==
  ASSUME NEW lanes, LanesOK(lanes), NEW limit \in Nat
  PROVE  \E n \in Nat :
           /\ OrderOK(Ordered(lanes), lanes, n)
           /\ Ordered(lanes) \in Seq(Catalogue)
           /\ Distinct(Ordered(lanes))
           /\ FuseAndRank(lanes, limit) \in Seq(Catalogue)
           /\ ResultsOK(FuseAndRank(lanes, limit), Ordered(lanes), n, limit)
<1> DEFINE o == Ordered(lanes)
           C == Catalogue
<1>1. PICK n \in Nat : OrderOK(o, lanes, n)
  BY OrderedLists
<1>2. /\ o \in [1 .. n -> C]
      /\ \A i, j \in 1 .. n : o[i] = o[j] => i = j
  BY <1>1, ListedFacts DEF OrderOK
<1> HIDE DEF o
<1>3. o \in Seq(C) /\ DOMAIN o = 1 .. n /\ Distinct(o)
  BY <1>2 DEF Distinct
<1>4. PICK g : ShapedBy(g, C, n, o, limit)
  <2> HIDE DEF C
  <2> QED BY <1>2, ShapedStepByStep
<1> HIDE DEF C
<1>5. \A i \in Nat : i <= n => ResultsOK(g[i], o, i, limit)
  <2> DEFINE T == {i \in Nat : i <= n => ResultsOK(g[i], o, i, limit)}
  <2>1. 0 \in T
    <3>1. <<>> \in Seq(C) /\ DOMAIN <<>> = {} /\ Len(<<>>) = 0
      OBVIOUS
    <3>2. ToSet(<<>>) = {} /\ Selects(<<>>, o, 0)
      BY <3>1 DEF ToSet, Selects
    <3>3. ASSUME NEW source
          PROVE  Cardinality(From(ToSet(<<>>), source)) <= PerSource
      <4>1. From(ToSet(<<>>), source) = {}
        BY <3>2 DEF From
      <4>2. Cardinality({}) = 0 /\ PerSource \in Nat
        BY FS_EmptySet, RankingAssumption
      <4> QED BY <4>1, <4>2
    <3>4. \A p \in DOMAIN o : ~(p <= 0)
      BY <1>3
    <3>5. ResultsOK(<<>>, o, 0, limit)
      <4>1. Len(<<>>) <= limit
        BY <3>1
      <4> QED BY <3>2, <3>3, <3>4, <4>1 DEF ResultsOK
    <3> QED BY <1>4, <3>5 DEF ShapedBy
  <2>2. ASSUME NEW i \in Nat, i \in T PROVE i + 1 \in T
    <3> SUFFICES ASSUME i + 1 <= n PROVE ResultsOK(g[i + 1], o, i + 1, limit)
      OBVIOUS
    <3>1. i \in 0 .. n - 1 /\ i <= n /\ i + 1 \in DOMAIN o /\ g[i] \in Seq(C)
      BY <1>3, <1>4 DEF ShapedBy
    <3>2. ResultsOK(g[i], o, i, limit)
      BY <2>2, <3>1
    <3>3. g[i + 1] = IF Len(g[i]) < limit /\ Fits(g[i], o[i + 1])
                       THEN Append(g[i], o[i + 1]) ELSE g[i]
      BY <1>4, <3>1 DEF ShapedBy
    <3> QED BY <1>3, <3>1, <3>2, <3>3, ResultsGrow
  <2>3. \A i \in Nat : i \in T
    <3> HIDE DEF T
    <3> QED BY <2>1, <2>2, AllNaturals
  <2> QED BY <2>3
<1>6. ResultsOK(Shaped(o, limit), o, n, limit) /\ Shaped(o, limit) \in Seq(C)
  BY <1>4, <1>5 DEF ShapedBy
<1> QED BY <1>1, <1>3, <1>6 DEF FuseAndRank, o, C

-----------------------------------------------------------------------------
(* The context. *)

In(S, section) == {c \in S : Section(c) = section}

LEMMA AffordableMeans ==
  ASSUME NEW C, NEW list \in Seq(C), Distinct(list), NEW c
  PROVE  Affordable(list, c) <=>
           /\ Cardinality(From(ToSet(list), c.source)) < ContextPerSource
           /\ Cardinality(In(ToSet(list), Section(c))) < PerSection
           /\ list # <<>> => Tokens(list) + c.tokens <= TokenBudget
<1> DEFINE K == {k \in DOMAIN list : list[k].source = c.source}
           L == {k \in DOMAIN list : Section(list[k]) = Section(c)}
<1>1. /\ Cardinality(K) = Cardinality({list[k] : k \in K})
      /\ Cardinality(L) = Cardinality({list[k] : k \in L})
  BY PositionsCount
<1>2. {list[k] : k \in K} = From(ToSet(list), c.source)
  BY DEF From, ToSet
<1>3. {list[k] : k \in L} = In(ToSet(list), Section(c))
  BY DEF In, ToSet
<1>4. Affordable(list, c) <=> /\ Cardinality(K) < ContextPerSource
                              /\ Cardinality(L) < PerSection
                              /\ list # <<>> => Tokens(list) + c.tokens <= TokenBudget
  BY DEF Affordable, Count
<1> HIDE DEF K, L
<1> QED BY <1>1, <1>2, <1>3, <1>4

\* What one more member makes of a section.
LEMMA SectionGrows ==
  ASSUME NEW S, IsFiniteSet(S), NEW c, c \notin S, NEW section
  PROVE  /\ Cardinality(In(S, section)) \in Nat
         /\ Cardinality(In(S \cup {c}, section)) =
              Cardinality(In(S, section)) + (IF Section(c) = section THEN 1 ELSE 0)
<1>1. IsFiniteSet(In(S, section)) /\ c \notin In(S, section)
  BY FS_Subset DEF In
<1>2. In(S \cup {c}, section) =
        IF Section(c) = section THEN In(S, section) \cup {c} ELSE In(S, section)
  BY DEF In
<1>3. Cardinality(In(S, section)) \in Nat
  BY <1>1, FS_CardinalityType
<1>4. Cardinality(In(S, section) \cup {c}) = Cardinality(In(S, section)) + 1
  BY <1>1, FS_AddElement
<1> QED BY <1>2, <1>3, <1>4

\* x is the context made of the first i results; what is missing of them has a
\* reason, and the first is always taken.
ContextOK(x, o, i) ==
  /\ Selects(x, o, i)
  /\ Len(x) <= MaxPassages
  /\ Len(x) > 1 => Tokens(x) <= TokenBudget
  /\ \A section : Cardinality(In(ToSet(x), section)) <= PerSection
  /\ \A p \in DOMAIN o : p <= i =>
       \/ o[p] \in ToSet(x)
       \/ Cardinality(In(ToSet(x), Section(o[p]))) = PerSection
       \/ Tokens(x) + o[p].tokens > TokenBudget
       \/ Len(x) = MaxPassages
  /\ i > 0 => x # <<>>

\* The share a source has of the context never binds: the results hold no more
\* of it, and what is still to come is one of them.
LEMMA SourceHasRoom ==
  ASSUME NEW C, NEW o \in Seq(C), Distinct(o), NEW i \in Nat, i + 1 \in DOMAIN o,
         \A source : Cardinality(From(ToSet(o), source)) <= PerSource,
         NEW x \in Seq(C), Selects(x, o, i)
  PROVE  /\ o[i + 1] \notin ToSet(x)
         /\ Cardinality(From(ToSet(x), o[i + 1].source)) < ContextPerSource
<1> DEFINE c == o[i + 1]
           A == From(ToSet(x), c.source)
           B == From(ToSet(o), c.source)
<1>1. c \notin ToSet(x)
  <2> SUFFICES ASSUME NEW k \in DOMAIN x, x[k] = c PROVE FALSE
    BY DEF ToSet
  <2>1. PICK p \in DOMAIN o : p <= i /\ x[k] = o[p]
    BY DEF Selects
  <2>2. p = i + 1
    <3>1. o[p] = o[i + 1]
      BY <2>1
    <3> HIDE DEF c
    <3> QED BY <3>1 DEF Distinct
  <2> HIDE DEF c
  <2> QED BY <2>1, <2>2
<1>2. ToSet(x) \subseteq ToSet(o) /\ IsFiniteSet(ToSet(o)) /\ c \in ToSet(o)
  <2>1. c \in ToSet(o)
    BY DEF ToSet
  <2> QED BY <2>1, SelectionIsDistinct, PositionsCount
<1>3. A \in SUBSET B /\ A # B /\ B \in SUBSET ToSet(o)
  <2>1. c \in B /\ c \notin A
    BY <1>1, <1>2 DEF From
  <2> QED BY <1>2, <2>1 DEF From
<1>4. /\ Cardinality(A) \in Nat /\ Cardinality(B) \in Nat
      /\ Cardinality(A) < Cardinality(B)
  <2> HIDE DEF A, B, c
  <2>1. IsFiniteSet(B)
    BY <1>2, <1>3, FS_Subset
  <2>2. IsFiniteSet(A)
    BY <1>3, <2>1, FS_Subset
  <2> QED BY <1>3, <2>1, <2>2, FS_Subset, FS_CardinalityType
<1>5. Cardinality(B) <= PerSource
  OBVIOUS
<1>6. PerSource \in Nat /\ ContextPerSource \in Nat /\ PerSource <= ContextPerSource
  BY RankingAssumption
<1> QED BY <1>1, <1>4, <1>5, <1>6

LEMMA ContextGrows ==
  ASSUME NEW C, \A c \in C : c.tokens \in Nat,
         NEW o \in Seq(C), Distinct(o), NEW i \in Nat, i + 1 \in DOMAIN o,
         \A source : Cardinality(From(ToSet(o), source)) <= PerSource,
         NEW x \in Seq(C), ContextOK(x, o, i)
  PROVE  ContextOK(IF Len(x) < MaxPassages /\ Affordable(x, o[i + 1])
                     THEN Append(x, o[i + 1]) ELSE x,
                   o, i + 1)
<1> DEFINE c == o[i + 1]
           S == ToSet(x)
<1>1. /\ c \in C /\ c.tokens \in Nat /\ Len(x) \in Nat
      /\ PerSection \in Nat \ {0} /\ MaxPassages \in Nat \ {0} /\ TokenBudget \in Nat
  BY RankingAssumption
<1>2. /\ Selects(x, o, i + 1) /\ Selects(Append(x, c), o, i + 1)
      /\ Distinct(x) /\ IsFiniteSet(S)
  BY SelectionGrows, SelectionIsDistinct, PositionsCount DEF ContextOK
<1>3. c \notin S /\ Cardinality(From(S, c.source)) < ContextPerSource
  BY SourceHasRoom DEF ContextOK
<1>4. \A section : Cardinality(In(S, section)) \in Nat /\ Cardinality(In(S, section)) <= PerSection
  <2>1. \A section : In(S, section) \in SUBSET S
    BY DEF In
  <2>2. \A section : Cardinality(In(S, section)) <= PerSection
    BY DEF ContextOK
  <2> HIDE DEF S
  <2> QED BY <1>2, <2>1, <2>2, FS_Subset, FS_CardinalityType
<1>5. Affordable(x, c) <=> /\ Cardinality(In(S, Section(c))) < PerSection
                           /\ x # <<>> => Tokens(x) + c.tokens <= TokenBudget
  BY <1>2, <1>3, AffordableMeans
<1>6. /\ Tokens(x) \in Nat /\ Tokens(Append(x, c)) = Tokens(x) + c.tokens
  BY <1>1, TokensOfOneMore
<1>7. \A p \in DOMAIN o : (p <= i + 1 => p <= i \/ p = i + 1) /\ o[p].tokens \in Nat
  <2>1. \A p \in DOMAIN o : p \in Nat /\ o[p] \in C
    OBVIOUS
  <2> QED BY <2>1
<1>8. x # <<>> <=> Len(x) > 0
  OBVIOUS
<1>9. CASE Len(x) < MaxPassages /\ Affordable(x, c)
  <2> DEFINE t == Append(x, c)
  <2>1. t \in Seq(C) /\ Len(t) = Len(x) + 1 /\ ToSet(t) = S \cup {c} /\ t # <<>>
    BY <1>1, AppendFacts
  <2>2. \A section : Cardinality(In(ToSet(t), section)) =
                      Cardinality(In(S, section)) + (IF Section(c) = section THEN 1 ELSE 0)
    <3> HIDE DEF S, t, c
    <3> QED BY <1>2, <1>3, <2>1, SectionGrows
  <2>3. Len(t) <= MaxPassages
    BY <1>1, <1>9, <2>1
  <2>4. Len(t) > 1 => Tokens(t) <= TokenBudget
    <3> HIDE DEF t, c
    <3>1. Tokens(t) = Tokens(x) + c.tokens
      BY <1>6 DEF t
    <3> QED BY <1>1, <1>5, <1>8, <1>9, <2>1, <3>1
  <2>5. \A section : Cardinality(In(ToSet(t), section)) <= PerSection
    <3> HIDE DEF t, S, c
    <3> QED BY <1>1, <1>4, <1>5, <1>9, <2>2
  <2>6. ASSUME NEW p \in DOMAIN o, p <= i + 1
        PROVE  \/ o[p] \in ToSet(t)
               \/ Cardinality(In(ToSet(t), Section(o[p]))) = PerSection
               \/ Tokens(t) + o[p].tokens > TokenBudget
               \/ Len(t) = MaxPassages
    <3>1. CASE p = i + 1
      BY <2>1, <3>1
    <3>2. CASE p <= i
      <4>1. \/ o[p] \in S
            \/ Cardinality(In(S, Section(o[p]))) = PerSection
            \/ Tokens(x) + o[p].tokens > TokenBudget
        BY <1>1, <1>9, <3>2 DEF ContextOK
      <4>2. Cardinality(In(S, Section(o[p]))) = PerSection
              => Cardinality(In(ToSet(t), Section(o[p]))) = PerSection
        <5> HIDE DEF t, S, c
        <5> QED BY <1>1, <1>4, <1>5, <1>9, <2>2
      <4>3. Tokens(x) + o[p].tokens > TokenBudget => Tokens(t) + o[p].tokens > TokenBudget
        BY <1>1, <1>6, <1>7
      <4> HIDE DEF t, S
      <4> QED BY <2>1, <4>1, <4>2, <4>3
    <3> QED BY <1>7, <2>6, <3>1, <3>2
  <2>7. ContextOK(t, o, i + 1)
    <3>1. Selects(t, o, i + 1)
      BY <1>2
    <3> HIDE DEF t
    <3> QED BY <2>1, <2>3, <2>4, <2>5, <2>6, <3>1 DEF ContextOK
  <2> QED BY <1>9, <2>7
<1>10. CASE ~(Len(x) < MaxPassages /\ Affordable(x, c))
  <2>1. Len(x) = MaxPassages \/ ~Affordable(x, c)
    BY <1>1, <1>10 DEF ContextOK
  <2>2. \/ Cardinality(In(S, Section(c))) = PerSection
        \/ x # <<>> /\ Tokens(x) + c.tokens > TokenBudget
        \/ Len(x) = MaxPassages
    <3>1. Cardinality(In(S, Section(c))) \in Nat /\ Cardinality(In(S, Section(c))) <= PerSection
      BY <1>4
    <3> HIDE DEF S, c
    <3> QED BY <1>1, <1>5, <1>6, <2>1, <3>1
  <2>3. x # <<>>
    <3> SUFFICES ASSUME x = <<>> PROVE FALSE
      OBVIOUS
    <3>1. In(S, Section(c)) = {} /\ Len(x) = 0
      <4>1. S = {}
        BY DEF ToSet
      <4> QED BY <4>1 DEF In
    <3>2. Cardinality({}) = 0
      BY FS_EmptySet
    <3> HIDE DEF S, c
    <3> QED BY <1>1, <2>2, <3>1, <3>2
  <2>4. ContextOK(x, o, i + 1)
    BY <1>2, <1>7, <2>2, <2>3 DEF ContextOK
  <2> QED BY <1>10, <2>4
<1> QED BY <1>9, <1>10

\* The context built from the results.
LEMMA BuiltContext ==
  ASSUME NEW C, \A c \in C : c.tokens \in Nat, NEW o \in Seq(C), Distinct(o),
         \A source : Cardinality(From(ToSet(o), source)) <= PerSource
  PROVE  BuildContext(o) \in Seq(C) /\ ContextOK(BuildContext(o), o, Len(o))
<1> DEFINE n == Len(o)
<1>1. n \in Nat /\ o \in [1 .. n -> C] /\ DOMAIN o = 1 .. n
  OBVIOUS
<1> HIDE DEF n
<1>2. PICK g : ContextBy(g, C, n, o)
  BY <1>1, ContextStepByStep
<1>3. \A i \in Nat : i <= n => ContextOK(g[i], o, i)
  <2> DEFINE T == {i \in Nat : i <= n => ContextOK(g[i], o, i)}
  <2>1. 0 \in T
    <3>1. <<>> \in Seq(C) /\ DOMAIN <<>> = {} /\ Len(<<>>) = 0
      OBVIOUS
    <3>2. ToSet(<<>>) = {} /\ Selects(<<>>, o, 0)
      BY <3>1 DEF ToSet, Selects
    <3>3. ASSUME NEW section
          PROVE  Cardinality(In(ToSet(<<>>), section)) <= PerSection
      <4>1. In(ToSet(<<>>), section) = {}
        BY <3>2 DEF In
      <4>2. Cardinality(In(ToSet(<<>>), section)) = 0
        BY <4>1, FS_EmptySet
      <4>3. PerSection \in Nat
        BY RankingAssumption
      <4> QED BY <4>2, <4>3
    <3>4. \A p \in DOMAIN o : ~(p <= 0)
      BY <1>1
    <3>5. ContextOK(<<>>, o, 0)
      <4>1. Len(<<>>) <= MaxPassages /\ ~(Len(<<>>) > 1)
        BY <3>1, RankingAssumption
      <4> QED BY <3>2, <3>3, <3>4, <4>1 DEF ContextOK
    <3> QED BY <1>2, <3>5 DEF ContextBy
  <2>2. ASSUME NEW i \in Nat, i \in T PROVE i + 1 \in T
    <3> SUFFICES ASSUME i + 1 <= n PROVE ContextOK(g[i + 1], o, i + 1)
      OBVIOUS
    <3>1. i \in 0 .. n - 1 /\ i <= n /\ i + 1 \in DOMAIN o /\ g[i] \in Seq(C)
      BY <1>1, <1>2 DEF ContextBy
    <3>2. ContextOK(g[i], o, i)
      BY <2>2, <3>1
    <3>3. g[i + 1] = IF Len(g[i]) < MaxPassages /\ Affordable(g[i], o[i + 1])
                       THEN Append(g[i], o[i + 1]) ELSE g[i]
      BY <1>2, <3>1 DEF ContextBy
    <3> QED BY <3>1, <3>2, <3>3, ContextGrows
  <2>3. \A i \in Nat : i \in T
    <3> HIDE DEF T
    <3> QED BY <2>1, <2>2, AllNaturals
  <2> QED BY <2>3
<1> QED BY <1>1, <1>2, <1>3 DEF ContextBy, n

-----------------------------------------------------------------------------
(* The theorems. *)

\* The parts of a response.
LEMMA WithoutAnswer ==
  ASSUME NEW plan, NEW ranked, plan.query.mode # "answer"
  PROVE  /\ Response(plan, ranked).context = <<>>
         /\ ~Response(plan, ranked).insufficient
<1>1. Response(plan, ranked).context = <<>>
  BY Zenon DEF Response
<1>2. ~Response(plan, ranked).insufficient
  BY Zenon DEF Response
<1> QED BY <1>1, <1>2

LEMMA WithAnswer ==
  ASSUME NEW plan, NEW ranked, plan.query.mode = "answer", NEW x, x = BuildContext(ranked)
  PROVE  /\ Response(plan, ranked).context = x
         /\ Response(plan, ranked).citations = SubSeq(x, 1, Min({MaxCitations, Len(x)}))
         /\ Response(plan, ranked).insufficient <=> x = <<>>
<1>1. Response(plan, ranked).context = x
  BY Zenon DEF Response
<1>2. Response(plan, ranked).citations = SubSeq(x, 1, Min({MaxCitations, Len(x)}))
  BY Zenon DEF Response
<1>3. Response(plan, ranked).insufficient <=> x = <<>>
  BY Zenon DEF Response
<1> QED BY <1>1, <1>2, <1>3

\* What is known of a request that has been answered.
LEMMA AnswerFacts ==
  ASSUME IInv, NEW r \in Answered
  PROVE  /\ r \in Requests /\ request[r].stage = "answered" /\ Found(r)
         /\ request[r].plan.query.limit \in 1 .. 50
         /\ request[r].plan.query.mode \in {"results", "answer"}
         /\ request[r].response =
              Response(request[r].plan,
                       FuseAndRank(request[r].lanes, request[r].plan.query.limit))
         /\ Results(r) = FuseAndRank(request[r].lanes, request[r].plan.query.limit)
         /\ Results(r) \in Seq(Catalogue)
         /\ \E n \in Nat :
              /\ OrderOK(Ordered(request[r].lanes), request[r].lanes, n)
              /\ Ordered(request[r].lanes) \in Seq(Catalogue)
              /\ Distinct(Ordered(request[r].lanes))
              /\ ResultsOK(Results(r), Ordered(request[r].lanes), n,
                           request[r].plan.query.limit)
<1> DEFINE lanes == request[r].lanes
           limit == request[r].plan.query.limit
<1>1. r \in Requests /\ request[r].stage = "answered"
  BY DEF Answered
<1>2. /\ Found(r)
      /\ request[r].response = Response(request[r].plan, FuseAndRank(lanes, limit))
  BY <1>1 DEF IInv, RequestOK, Waiting, Readings
<1>3. limit \in 1 .. 50 /\ request[r].plan.query.mode \in {"results", "answer"}
  BY <1>2, PlanLooksFor DEF Found
<1>4. Results(r) = FuseAndRank(lanes, limit)
  BY <1>2 DEF Results, Response
<1>5. LanesOK(lanes) /\ limit \in Nat
  BY <1>2, <1>3 DEF Found
<1> HIDE DEF lanes, limit
<1>6. /\ FuseAndRank(lanes, limit) \in Seq(Catalogue)
      /\ \E n \in Nat :
           /\ OrderOK(Ordered(lanes), lanes, n)
           /\ Ordered(lanes) \in Seq(Catalogue)
           /\ Distinct(Ordered(lanes))
           /\ ResultsOK(FuseAndRank(lanes, limit), Ordered(lanes), n, limit)
  BY <1>5, FusedResults
<1> QED BY <1>1, <1>2, <1>3, <1>4, <1>6 DEF lanes, limit

\* What is selected of the ordered chunks some lane found.
LEMMA ResultsWereListed ==
  ASSUME IInv, NEW r \in Answered
  PROVE  ToSet(Results(r)) \subseteq Listed(request[r].lanes)
<1> DEFINE lanes == request[r].lanes
           o == Ordered(lanes)
<1>1. PICK n \in Nat :
        OrderOK(o, lanes, n) /\ o \in Seq(Catalogue)
        /\ Distinct(o) /\ ResultsOK(Results(r), o, n, request[r].plan.query.limit)
  BY AnswerFacts
<1>2. Results(r) \in Seq(Catalogue)
  BY AnswerFacts
<1>3. ToSet(Results(r)) \subseteq ToSet(o)
  <2> HIDE DEF o
  <2> QED BY <1>1, <1>2, SelectionIsDistinct DEF ResultsOK
<1>4. ToSet(o) \subseteq Listed(lanes)
  <2> HIDE DEF o, lanes
  <2> QED BY <1>1 DEF OrderOK, ToSet
<1> QED BY <1>3, <1>4

\* The variables keep the shape the code gives them: in particular no lane holds
\* more than its LIMIT or a chunk twice, and no answer more than was asked for.
THEOREM TypeCorrect == Spec => []TypeOK
<1>1. IInv => TypeOK
  <2> SUFFICES ASSUME IInv PROVE TypeOK
    OBVIOUS
  <2>1. ASSUME NEW l \in Lanes, NEW hits, LaneOK(hits, l)
        PROVE  Cardinality(ChunksIn(hits)) = Len(hits)
    <3> DEFINE D == DOMAIN hits
               f == [i \in D |-> hits[i].chunk]
               S == ChunksIn(hits)
    <3>1. D = 1 .. Len(hits) /\ Len(hits) \in Nat
      BY <2>1 DEF LaneOK
    <3>2. f \in [D -> S] /\ \A i, j \in D : f[i] = f[j] => i = j
      BY <2>1 DEF LaneOK, ChunksIn
    <3>3. \A c \in S : \E i \in D : f[i] = c
      BY DEF ChunksIn
    <3>4. f \in Bijection(D, S)
      <4> HIDE DEF f, S, D
      <4> QED BY <3>2, <3>3 DEF Bijection, Injection, IsInjective, Surjection
    <3>5. IsFiniteSet(D) /\ Cardinality(D) = Len(hits)
      <4>1. Len(hits) \in Nat => /\ IsFiniteSet(1 .. Len(hits))
                                /\ Cardinality(1 .. Len(hits)) =
                                     IF 1 > Len(hits) THEN 0 ELSE Len(hits) - 1 + 1
        BY FS_Interval
      <4> HIDE DEF D
      <4> QED BY <3>1, <4>1
    <3> HIDE DEF f, S, D
    <3> QED BY <3>4, <3>5, FS_Bijection DEF ExistsBijection, S
  <2>2. ASSUME NEW r \in Requests, Found(r)
        PROVE  /\ request[r].generation \in 1 .. generation
               /\ \A l \in Lanes :
                    /\ Len(request[r].lanes[l]) <= LaneCap[l]
                    /\ Cardinality(ChunksIn(request[r].lanes[l])) = Len(request[r].lanes[l])
    BY <2>1, <2>2 DEF Found, LanesOK, LaneOK
  <2>3. ASSUME NEW r \in Requests
        PROVE  /\ seen[r] \subseteq Catalogue
               /\ request[r].stage \in {"waiting", "reading", "answered"}
               /\ request[r].stage # "waiting" => Found(r)
    BY DEF IInv, RequestOK, Waiting, Readings
  <2>4. ASSUME NEW r \in Answered
        PROVE  Len(Results(r)) <= request[r].plan.query.limit
    BY AnswerFacts DEF ResultsOK
  <2> QED BY <2>2, <2>3, <2>4 DEF TypeOK, IInv, IndexOK
<1> QED BY <1>1, SpecInv, PTL

\* An answer holds nothing a reader could not have seen: every result was on
\* show, and within the filters, at some moment while the request read its
\* lanes, whatever was published, withdrawn or disconnected between them.
THEOREM ResultsWereVisible == Spec => []ResultsWereShown
<1>1. IInv => ResultsWereShown
  <2> SUFFICES ASSUME IInv, NEW r \in Answered, NEW c \in ToSet(Results(r))
               PROVE  c \in seen[r] /\ Passes(request[r].plan.query, c)
    BY DEF ResultsWereShown
  <2> QED BY AnswerFacts, ResultsWereListed DEF Found
<1> QED BY <1>1, SpecInv, PTL

\* Fusion never turns the lanes around: a chunk ahead of another in every lane
\* that found either is ahead of it in the results.
THEOREM AheadNeverBehind == Spec => []AheadIsNotBehind
<1>1. IInv => AheadIsNotBehind
  <2> SUFFICES ASSUME IInv, NEW r \in Answered,
                      NEW i \in DOMAIN Results(r), NEW j \in DOMAIN Results(r),
                      Ahead(request[r].lanes, Results(r)[i], Results(r)[j])
               PROVE  i < j
    BY DEF AheadIsNotBehind
  <2> DEFINE lanes == request[r].lanes
             o == Ordered(lanes)
  <2>1. PICK n \in Nat :
          OrderOK(o, lanes, n) /\ ResultsOK(Results(r), o, n, request[r].plan.query.limit)
    BY AnswerFacts
  <2> HIDE DEF o
  <2>2. DOMAIN o = 1 .. n
    BY <2>1 DEF OrderOK
  <2>3. PICK p \in DOMAIN o, q \in DOMAIN o : Results(r)[i] = o[p] /\ Results(r)[j] = o[q]
    BY <2>1 DEF ResultsOK, Selects
  <2>4. p < q
    BY <2>1, <2>2, <2>3 DEF OrderOK
  <2> QED BY <2>1, <2>3, <2>4 DEF ResultsOK, Selects
<1> QED BY <1>1, SpecInv, PTL

\* No chunk a lane found is missing from the results without a reason: its text
\* is there, its source has its share, or the list is full.
THEOREM NothingLeftOutWithoutReason == Spec => []LeftOutForAReason
<1>1. IInv => LeftOutForAReason
  <2> SUFFICES ASSUME IInv, NEW r \in Answered
               PROVE  /\ \A c, d \in ToSet(Results(r)) : c.hash = d.hash => c = d
                      /\ \A s \in Sources : Cardinality(From(ToSet(Results(r)), s)) <= PerSource
                      /\ \A c \in Listed(request[r].lanes) \ ToSet(Results(r)) :
                           \/ \E d \in ToSet(Results(r)) : c.hash = d.hash
                           \/ Cardinality(From(ToSet(Results(r)), c.source)) = PerSource
                           \/ Len(Results(r)) = request[r].plan.query.limit
    BY DEF LeftOutForAReason, From
  <2> DEFINE lanes == request[r].lanes
             o == Ordered(lanes)
  <2>1. PICK n \in Nat :
          OrderOK(o, lanes, n) /\ ResultsOK(Results(r), o, n, request[r].plan.query.limit)
    BY AnswerFacts
  <2> HIDE DEF o
  <2>2. ASSUME NEW c \in Listed(lanes) \ ToSet(Results(r))
        PROVE  \/ \E d \in ToSet(Results(r)) : c.hash = d.hash
               \/ Cardinality(From(ToSet(Results(r)), c.source)) = PerSource
               \/ Len(Results(r)) = request[r].plan.query.limit
    <3>1. PICK p \in 1 .. n : o[p] = c
      BY <2>1 DEF OrderOK
    <3>2. p \in DOMAIN o /\ p <= n
      BY <2>1 DEF OrderOK
    <3> QED BY <2>1, <3>1, <3>2 DEF ResultsOK
  <2> QED BY <2>1, <2>2 DEF ResultsOK
<1> QED BY <1>1, SpecInv, PTL

\* The passages an answer is built from are results in their order, within the
\* budget and the shares; what is left out of them would not fit; the citations
\* are the first of them; and an answer says that it is insufficient exactly
\* when nothing was found.
THEOREM ContextAlwaysFits == Spec => []ContextFits
<1>1. IInv => ContextFits
  <2> SUFFICES ASSUME IInv PROVE ContextFits
    OBVIOUS
  <2>1. ASSUME NEW r \in Answered, request[r].plan.query.mode = "results"
        PROVE  Context(r) = <<>> /\ ~request[r].response.insufficient
    <3>1. request[r].response = Response(request[r].plan, Results(r))
      BY AnswerFacts
    <3>2. request[r].plan.query.mode # "answer"
      BY <2>1
    <3> QED BY <3>1, <3>2, WithoutAnswer DEF Context
  <2>2. ASSUME NEW r \in Answered, request[r].plan.query.mode # "results"
        PROVE  LET context == Context(r)
                   section(c) == {d \in ToSet(context) : Section(d) = Section(c)}
               IN /\ ToSet(context) \subseteq ToSet(Results(r))
                  /\ \A i, j \in DOMAIN context, k, m \in DOMAIN Results(r) :
                       (context[i] = Results(r)[k] /\ context[j] = Results(r)[m])
                         => (i < j <=> k < m)
                  /\ Len(context) <= MaxPassages
                  /\ Len(context) > 1 => Tokens(context) <= TokenBudget
                  /\ \A c \in ToSet(context) : Cardinality(section(c)) <= PerSection
                  /\ \A c \in ToSet(Results(r)) \ ToSet(context) :
                       \/ Cardinality(section(c)) = PerSection
                       \/ Tokens(context) + c.tokens > TokenBudget
                       \/ Len(context) = MaxPassages
                  /\ IsPrefix(request[r].response.citations, context)
                  /\ request[r].response.insufficient <=> Results(r) = <<>>
    <3> DEFINE o == Results(r)
               x == Context(r)
    <3>1. /\ o \in Seq(Catalogue)
          /\ request[r].response = Response(request[r].plan, o)
          /\ request[r].plan.query.mode = "answer"
      BY <2>2, AnswerFacts
    <3>2. /\ x = BuildContext(o)
          /\ request[r].response.citations = SubSeq(x, 1, Min({MaxCitations, Len(x)}))
          /\ request[r].response.insufficient <=> x = <<>>
      <4> HIDE DEF o
      <4>1. Response(request[r].plan, o).context = BuildContext(o)
        BY <3>1, WithAnswer
      <4>2. x = BuildContext(o)
        BY <3>1, <4>1 DEF Context
      <4> HIDE DEF x
      <4>3. /\ Response(request[r].plan, o).citations =
                 SubSeq(x, 1, Min({MaxCitations, Len(x)}))
            /\ Response(request[r].plan, o).insufficient <=> x = <<>>
        BY <3>1, <4>2, WithAnswer, Zenon
      <4> QED BY <3>1, <4>2, <4>3, Zenon
    <3>3. Distinct(o) /\ \A source : Cardinality(From(ToSet(o), source)) <= PerSource
      <4>1. PICK n \in Nat :
              /\ Ordered(request[r].lanes) \in Seq(Catalogue)
              /\ ResultsOK(o, Ordered(request[r].lanes), n, request[r].plan.query.limit)
        BY AnswerFacts
      <4> HIDE DEF o
      <4> QED BY <3>1, <4>1, SelectionIsDistinct DEF ResultsOK
    <3>4. x \in Seq(Catalogue) /\ ContextOK(x, o, Len(o))
      <4>1. \A c \in Catalogue : c.tokens \in Nat
        BY SearchAssumption
      <4> HIDE DEF o, x
      <4> QED BY <3>1, <3>2, <3>3, <4>1, BuiltContext
    <3> HIDE DEF o, x
    <3>5. DOMAIN o = 1 .. Len(o) /\ Len(o) \in Nat
      BY <3>1
    <3>6. ToSet(x) \subseteq ToSet(o)
      BY <3>1, <3>4, SelectionIsDistinct DEF ContextOK
    <3>7. \A i, j \in DOMAIN x, k, m \in DOMAIN o :
            (x[i] = o[k] /\ x[j] = o[m]) => (i < j <=> k < m)
      BY <3>4 DEF ContextOK, Selects
    <3>8. ASSUME NEW c \in ToSet(o) \ ToSet(x)
          PROVE  \/ Cardinality(In(ToSet(x), Section(c))) = PerSection
                 \/ Tokens(x) + c.tokens > TokenBudget
                 \/ Len(x) = MaxPassages
      <4>1. PICK p \in DOMAIN o : o[p] = c
        BY DEF ToSet
      <4> QED BY <3>4, <3>5, <4>1 DEF ContextOK
    <3>9. IsPrefix(request[r].response.citations, x)
      <4> DEFINE m == Min({MaxCitations, Len(x)})
      <4>1. m \in Nat /\ m <= Len(x)
        <5>1. Len(x) \in Nat /\ MaxCitations \in Nat
          BY <3>4, SearchAssumption
        <5> QED BY <5>1, MinOfTwo
      <4> HIDE DEF m
      <4>2. Len(SubSeq(x, 1, m)) = m /\ SubSeq(SubSeq(x, 1, m), 1, m) = SubSeq(x, 1, m)
        BY <3>4, <4>1
      <4> QED BY <3>2, <4>1, <4>2 DEF IsPrefix, m
    <3>10. x = <<>> <=> o = <<>>
      <4>1. ASSUME o = <<>> PROVE x = <<>>
        <5>1. DOMAIN o = {}
          BY <4>1
        <5>2. DOMAIN x = {}
          BY <3>4, <5>1 DEF ContextOK, Selects
        <5> QED BY <3>4, <5>2
      <4>2. ASSUME o # <<>> PROVE x # <<>>
        <5>1. Len(o) > 0
          BY <3>1, <4>2
        <5> QED BY <3>4, <5>1 DEF ContextOK
      <4> QED BY <4>1, <4>2
    <3> QED BY <3>2, <3>4, <3>6, <3>7, <3>8, <3>9, <3>10 DEF ContextOK, In, o, x
  <2> QED BY <2>1, <2>2 DEF ContextFits
<1> QED BY <1>1, SpecInv, PTL

==============================================================================
