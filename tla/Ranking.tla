------------------------------ MODULE Ranking --------------------------------
(***************************************************************************)
(* search/ranking.py: weighted reciprocal-rank fusion of the four lanes,   *)
(* the shaping of the ranked list and the choice of the passages an answer *)
(* is built from. Pure operators; Search runs them.                        *)
(*                                                                         *)
(* Python computes in floats. Here a lane's weight is counted in quarters, *)
(* a feature's in twentieths, a signal in thousandths, and reciprocal      *)
(* ranks in millionths: fine enough for two chunks at different ranks of a *)
(* lane to have different reciprocal ranks, as they have in the code.      *)
(***************************************************************************)
EXTENDS Integers, Sequences, FiniteSets, FiniteSetsExt, SequencesExt

CONSTANTS
  PerSource,         \* 3: results of one source
  PerSection,        \* 2: passages of one section
  ContextPerSource,  \* 4: passages of one source
  MaxPassages,       \* 15
  TokenBudget        \* 12,000

ASSUME RankingAssumption ==
  /\ {PerSource, PerSection, ContextPerSource, MaxPassages} \subseteq Nat \ {0}
  /\ PerSource <= ContextPerSource
  /\ TokenBudget \in Nat

\* The lanes in the order they are read. A lane is a sequence of hits
\* [chunk, raw], a chunk a record with at least id, source, hash, heading,
\* tokens and timestamp; raw is the lane's score, zero for some keyword hits.
LaneOrder == <<"exact", "keyword", "vector", "trigram">>

LaneWeight == [exact |-> 6, keyword |-> 5, vector |-> 4, trigram |-> 3]

RrfConstant == 60

FeatureWeight == [vector |-> 6, keyword |-> 5, exact |-> 4, trigram |-> 2]

\* "quality" is 1.0 for every chunk.
Quality == [value |-> 1000, weight |-> 1]

Lanes == DOMAIN LaneWeight

ChunksIn(hits) == {hits[i].chunk : i \in DOMAIN hits}

Listed(lanes) == UNION {ChunksIn(lanes[l]) : l \in Lanes}

LanesOf(lanes, c) == {l \in Lanes : c \in ChunksIn(lanes[l])}

Rank(hits, c) == CHOOSE i \in DOMAIN hits : hits[i].chunk = c

\* The best score of a lane, or one if every hit of it has none.
Maximum(hits) ==
  LET best == Max({hits[i].raw : i \in DOMAIN hits})
  IN IF best = 0 THEN 1 ELSE best

\* A raw score relative to the best of its lane.
Signal(hits, c) == (1000 * hits[Rank(hits, c)].raw) \div Maximum(hits)

\* The sum over the lanes.
SumOf(value) == value.exact + value.keyword + value.vector + value.trigram

Reciprocal(lanes, c) ==
  SumOf([l \in Lanes |->
           IF l \in LanesOf(lanes, c)
             THEN (LaneWeight[l] * 1000000) \div (RrfConstant + Rank(lanes[l], c))
             ELSE 0])

\* The weighted mean of the signals there are: absent lanes are left out of
\* the weights too.
Feature(lanes, c) ==
  LET in == LanesOf(lanes, c)
      weight == [l \in Lanes |-> IF l \in in THEN FeatureWeight[l] ELSE 0]
      value == [l \in Lanes |-> IF l \in in THEN Signal(lanes[l], c) * weight[l] ELSE 0]
  IN (Quality.value * Quality.weight + SumOf(value)) \div (Quality.weight + SumOf(weight))

\* The chunks found, with their scores: one part the reciprocal ranks relative
\* to the best, three parts the features; here times the best.
Scored(lanes) ==
  LET listed == Listed(lanes)
      best == Max({Reciprocal(lanes, c) : c \in listed} \cup {1})
  IN {[chunk |-> c, score |-> 1000 * Reciprocal(lanes, c) + 3 * best * Feature(lanes, c)] :
        c \in listed}

\* Mutation of Before: newest first, whatever the score.
BeforeByTime(a, b) ==
  \/ a.chunk.timestamp > b.chunk.timestamp
  \/ a.chunk.timestamp = b.chunk.timestamp /\ a.score > b.score
  \/ a.chunk.timestamp = b.chunk.timestamp /\ a.score = b.score /\ a.chunk.id < b.chunk.id

\* Best score, then newest, then smallest id.
Before(a, b) ==
  \/ a.score > b.score
  \/ a.score = b.score /\ a.chunk.timestamp > b.chunk.timestamp
  \/ a.score = b.score /\ a.chunk.timestamp = b.chunk.timestamp /\ a.chunk.id < b.chunk.id

\* The members of S, the one that nothing precedes in R first.
Sorted(S, R) ==
  [i \in 1 .. Cardinality(S) |->
     CHOOSE x \in S : Cardinality({y \in S : <<y, x>> \in R}) = i - 1]

Ordered(lanes) ==
  LET scored == Scored(lanes)
      sorted == Sorted(scored, {e \in scored \X scored : Before(e[1], e[2])})
  IN [i \in DOMAIN sorted |-> sorted[i].chunk]

Count(list, Matches(_)) == Cardinality({i \in DOMAIN list : Matches(list[i])})

\* Mutation of Fits: the share of a source is checked one result too late.
FitsOneMore(result, c) ==
  /\ \A i \in DOMAIN result : result[i].hash # c.hash
  /\ Count(result, LAMBDA d : d.source = c.source) <= PerSource

\* A chunk enters the results unless its text is there already or its source
\* has its share.
Fits(result, c) ==
  /\ \A i \in DOMAIN result : result[i].hash # c.hash
  /\ Count(result, LAMBDA d : d.source = c.source) < PerSource

Shaped(ordered, limit) ==
  FoldLeft(LAMBDA result, c :
             IF Len(result) < limit /\ Fits(result, c) THEN Append(result, c)
             ELSE result,
           <<>>, ordered)

FuseAndRank(lanes, limit) == Shaped(Ordered(lanes), limit)

Tokens(list) == FoldLeft(LAMBDA sum, c : sum + c.tokens, 0, list)

Section(c) == <<c.source, c.heading>>

\* Mutation of Affordable: the budget is compared before the passage is added.
AffordableBefore(context, c) ==
  /\ Count(context, LAMBDA d : d.source = c.source) < ContextPerSource
  /\ Count(context, LAMBDA d : Section(d) = Section(c)) < PerSection
  /\ context # <<>> => Tokens(context) <= TokenBudget

\* A passage enters the context unless its source or its section has its
\* share, or it would exceed the budget and is not the first.
Affordable(context, c) ==
  /\ Count(context, LAMBDA d : d.source = c.source) < ContextPerSource
  /\ Count(context, LAMBDA d : Section(d) = Section(c)) < PerSection
  /\ context # <<>> => Tokens(context) + c.tokens <= TokenBudget

BuildContext(ranked) ==
  FoldLeft(LAMBDA context, c :
             IF Len(context) < MaxPassages /\ Affordable(context, c)
             THEN Append(context, c) ELSE context,
           <<>>, ranked)

==============================================================================
