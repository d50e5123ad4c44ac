-------------------------- MODULE SearchProperties ---------------------------
(* What a search answer promises. *)
EXTENDS Search

Answered == {r \in Requests : request[r].stage = "answered"}

Results(r) == request[r].response.results

Context(r) == request[r].response.context

\* The variables have the shape the code gives them: a lane holds at most its
\* LIMIT of distinct chunks, an answer at most the limit asked for.
TypeOK ==
  /\ Index!ShownIsWanted
  /\ generation \in 1..MaxGeneration
  /\ connection \in {"active", "inactive"}
  /\ lapses \in 0..MaxLapses
  /\ \A r \in Requests :
       /\ seen[r] \subseteq Catalogue
       /\ request[r].stage \in {"waiting", "reading", "answered"}
       /\ request[r].stage # "waiting" =>
            /\ request[r].generation \in 1..generation
            /\ \A l \in Lanes :
                 /\ Len(request[r].lanes[l]) <= LaneCap[l]
                 /\ Cardinality(ChunksIn(request[r].lanes[l])) = Len(request[r].lanes[l])
       /\ r \in Answered => Len(Results(r)) <= request[r].plan.query.limit

\* Every result was on show, and within the filters asked for, at some moment
\* between the first read of the request and the last: an answer is never of
\* a version no reader could have seen, though every lane reads for itself
\* (search/repository.py:166, the visibility clause, and 245, the loop over
\* the lanes).
ResultsWereShown ==
  \A r \in Answered :
    \A c \in ToSet(Results(r)) : c \in seen[r] /\ Passes(request[r].plan.query, c)

\* a is ahead of b in the same lanes.
Ahead(lanes, a, b) ==
  /\ LanesOf(lanes, a) = LanesOf(lanes, b)
  /\ \A l \in LanesOf(lanes, a) : Rank(lanes[l], a) < Rank(lanes[l], b)

\* A chunk that is ahead of another in every lane that found either is never
\* behind it in the results, whatever the weights, the renormalisation over
\* the lanes there are and the ties (search/ranking.py:52-86).
AheadIsNotBehind ==
  \A r \in Answered :
    \A i, j \in DOMAIN Results(r) :
      Ahead(request[r].lanes, Results(r)[i], Results(r)[j]) => i < j

\* A chunk some lane found is missing from the results only for a reason: its
\* text is there, its source has the results it may have, or the list is full.
\* And the results themselves keep to those rules (search/ranking.py:87-99).
LeftOutForAReason ==
  \A r \in Answered :
    LET results == Results(r)
        sameText(c, d) == c.hash = d.hash
        of(s) == {c \in ToSet(results) : c.source = s}
    IN /\ \A c, d \in ToSet(results) : sameText(c, d) => c = d
       /\ \A s \in Sources : Cardinality(of(s)) <= PerSource
       /\ \A c \in Listed(request[r].lanes) \ ToSet(results) :
            \/ \E d \in ToSet(results) : sameText(c, d)
            \/ Cardinality(of(c.source)) = PerSource
            \/ Len(results) = request[r].plan.query.limit

\* The passages of an answer are results in their order, within the budget
\* unless there is one only, no more than the section's share, and every
\* passage left out would break one of these rules; an answer without
\* passages says so, and only when nothing was found
\* (search/ranking.py:102-127, search/service.py:74-77, routes/search.py:203).
ContextFits ==
  \A r \in Answered :
    LET context == Context(r)
        section(c) == {d \in ToSet(context) : Section(d) = Section(c)}
    IN IF request[r].plan.query.mode = "results"
         THEN context = <<>> /\ ~request[r].response.insufficient
         ELSE /\ ToSet(context) \subseteq ToSet(Results(r))
              /\ \A i, j \in DOMAIN context, k, m \in DOMAIN Results(r) :
                   (context[i] = Results(r)[k] /\ context[j] = Results(r)[m])
                     => (i < j <=> k < m)
              /\ Len(context) <= MaxPassages
              /\ Len(context) > 1 => Tokens(context) <= TokenBudget
              /\ \A c \in ToSet(context) : Cardinality(section(c)) <= PerSection
              /\ \A c \in ToSet(Results(r)) \ ToSet(context) :
                   \/ Cardinality(section(c)) = PerSection
                   \/ Tokens(context) + c.tokens > TokenBudget
                   \/ Len(context) = MaxPassages
              /\ IsPrefix(request[r].response.citations, context)
              /\ request[r].response.insufficient <=> Results(r) = <<>>

\* "Given the same query plan, workspace index generation, and ranker version,
\* ordering must be reproducible" (03_SEARCH_ENGINE_DESIGN.md:263): two
\* requests recorded with one plan and one generation have the same results.
Reproducible ==
  \A r, s \in Answered :
    /\ request[r].plan = request[s].plan
    /\ request[r].generation = request[s].generation
    => Results(r) = Results(s)

==============================================================================
