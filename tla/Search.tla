------------------------------- MODULE Search --------------------------------
(***************************************************************************)
(* A search request (search/service.py, search/repository.py,              *)
(* search/planner.py) while the index it reads keeps changing. The index   *)
(* is SearchIndex, the specification the indexing pipeline implements. The *)
(* connection of the sources is beside it: search shows nothing of a       *)
(* connection that is not active.                                          *)
(*                                                                         *)
(* retrieve runs in one transaction at PostgreSQL's default isolation,     *)
(* READ COMMITTED: the generation and the four lanes are five statements,  *)
(* each with a snapshot of its own.                                        *)
(***************************************************************************)
EXTENDS Ranking

CONSTANTS
  Sources, Contents, NoContent,
  Catalogue,       \* every chunk the pipeline makes of a content of a source
  Relevance,       \* Relevance[text][lane][id]: raw score, negative if no match
  Attributes,      \* Attributes[source][field]: its providers, people, folders...
  Queries,         \* what users ask: [text, phrases, mode, limit, only, from, to]
  LaneCap,         \* LIMIT of each lane: 50, 100, 100, 50
  MaxCitations,    \* 5
  Requests,
  MaxGeneration,   \* bound on publications and withdrawals
  MaxLapses        \* bound on the connection's changes

Ids == {c.id : c \in Catalogue}

ASSUME SearchAssumption ==
  /\ IsFiniteSet(Sources)
  /\ NoContent \notin Contents
  /\ IsFiniteSet(Catalogue)
  /\ \A c \in Catalogue :
       /\ c.id \in Nat /\ c.source \in Sources /\ c.content \in Contents
       /\ c.timestamp \in Int /\ c.tokens \in Nat
  /\ \A c, d \in Catalogue : c.id = d.id => c = d
  /\ Relevance \in [DOMAIN Relevance -> [Lanes -> [Ids -> Int]]]
  /\ \A q \in Queries :
       /\ q.text \in DOMAIN Relevance
       /\ q.phrases \in Seq(DOMAIN Relevance)
       /\ q.limit \in 1..50
       /\ q.mode \in {"results", "answer"}
  /\ LaneCap \in [Lanes -> 1..1000]
  /\ MaxCitations \in Nat
  /\ MaxGeneration \in Nat \ {0}
  /\ MaxLapses \in Nat

VARIABLES
  wanted, shown, count, generation,   \* SearchIndex
  connection,   \* connections.status: "active" or not
  lapses,
  request,      \* [Requests -> the request and what was read for it]
  seen          \* history: [Requests -> chunks on show since it began to read]

indexVars == <<wanted, shown, count, generation>>
vars == <<wanted, shown, count, generation, connection, lapses, request, seen>>

Index == INSTANCE SearchIndex

NoLanes == [l \in Lanes |-> <<>>]

Waiting == [stage |-> "waiting"]

Init ==
  /\ Index!Init
  /\ connection = "active"
  /\ lapses = 0
  /\ request = [r \in Requests |-> Waiting]
  /\ seen = [r \in Requests |-> {}]

\* What the index has for readers.
OnShow == {c \in Catalogue : shown[c.source] = c.content /\ connection = "active"}

Reading(r) == request[r].stage = "reading"

\* History: what comes on show while a request reads.
Watch ==
  seen' = [r \in Requests |-> IF Reading(r) THEN seen[r] \cup OnShow' ELSE seen[r]]

-----------------------------------------------------------------------------
\* The world outside the request.

IndexChanges ==
  /\ generation < MaxGeneration
  /\ Index!Next
  /\ UNCHANGED <<connection, lapses, request>>
  /\ Watch

\* A connection stops being active (disconnected, to be authorized again, in
\* error) or is active again. Neither touches the generation.
ConnectionChanges ==
  /\ lapses < MaxLapses
  /\ lapses' = lapses + 1
  /\ connection' = IF connection = "active" THEN "inactive" ELSE "active"
  /\ UNCHANGED <<indexVars, request>>
  /\ Watch

-----------------------------------------------------------------------------
\* build_plan: the exact lane looks for the first quoted phrase, if any.
Plan(q) ==
  [query |-> q,
   exact |-> IF q.phrases = <<>> THEN q.text ELSE Head(q.phrases),
   text |-> q.text]

\* _filters: of every list that is given, the source has one of the values; and
\* date_from <= timestamp < date_to_exclusive.
Passes(q, c) ==
  /\ \A field \in DOMAIN q.only :
       q.only[field] # {} => Attributes[c.source][field] \cap q.only[field] # {}
  /\ q.from <= c.timestamp
  /\ c.timestamp < q.to

\* Mutation: the pointer is not compared with the version.
VisibleAnyVersion(q) ==
  {c \in Catalogue : shown[c.source] # NoContent /\ connection = "active" /\ Passes(q, c)}

\* The WHERE clause the lanes share: the version the source points to, of an
\* active connection, within the filters.
Visible(q) ==
  {c \in Catalogue :
     /\ shown[c.source] = c.content
     /\ connection = "active"
     /\ Passes(q, c)}

\* ORDER BY raw_score DESC, chunk_id.
Better(a, b) == a.raw > b.raw \/ (a.raw = b.raw /\ a.chunk.id < b.chunk.id)

\* Mutation: a lane reads one hit more than its limit.
LaneHitsOneMore(l, plan) ==
  LET text == IF l = "exact" THEN plan.exact ELSE plan.text
      found == {[chunk |-> c, raw |-> Relevance[text][l][c.id]] : c \in Visible(plan.query)}
      hits == {h \in found : h.raw >= 0}
  IN SubSeq(Sorted(hits, {e \in hits \X hits : Better(e[1], e[2])}),
            1, Min({Cardinality(hits), LaneCap[l] + 1}))

\* One lane: the chunks that match, best first, then by id, up to the limit. A match
\* may score zero: ts_rank_cd of a query that only excludes words.
LaneHits(l, plan) ==
  LET text == IF l = "exact" THEN plan.exact ELSE plan.text
      found == {[chunk |-> c, raw |-> Relevance[text][l][c.id]] : c \in Visible(plan.query)}
      hits == {h \in found : h.raw >= 0}
  IN SubSeq(Sorted(hits, {e \in hits \X hits : Better(e[1], e[2])}),
            1, Min({Cardinality(hits), LaneCap[l]}))

\* POST /search: the plan is made and the transaction opened with the read of
\* the generation.
Begin(r, q) ==
  /\ request[r].stage = "waiting"
  /\ request' = [request EXCEPT ![r] =
       [stage |-> "reading", plan |-> Plan(q), generation |-> generation,
        lanes |-> NoLanes, read |-> 0]]
  /\ seen' = [seen EXCEPT ![r] = OnShow]
  /\ UNCHANGED <<indexVars, connection, lapses>>

ReadLane(r) ==
  /\ Reading(r)
  /\ request[r].read < Len(LaneOrder)
  /\ \E l \in {LaneOrder[request[r].read + 1]} :
       request' = [request EXCEPT ![r].lanes[l] = LaneHits(l, request[r].plan),
                                  ![r].read = @ + 1]
  /\ UNCHANGED <<indexVars, connection, lapses, seen>>

\* The answer made of the results: passages in answer mode only, its citations
\* the first of them, and the reason why there is none.
Response(plan, ranked) ==
  LET answering == plan.query.mode = "answer"
      context == IF answering THEN BuildContext(ranked) ELSE <<>>
  IN [results |-> ranked,
      context |-> context,
      citations |-> SubSeq(context, 1, Min({MaxCitations, Len(context)})),
      insufficient |-> answering /\ context = <<>>]

\* Fusion and context are computed in memory; a transaction of its own records
\* the request with the generation read at its beginning; then it is answered.
Finish(r) ==
  /\ Reading(r)
  /\ request[r].read = Len(LaneOrder)
  /\ request' = [request EXCEPT ![r] =
       [stage |-> "answered", plan |-> request[r].plan,
        generation |-> request[r].generation, lanes |-> request[r].lanes,
        response |-> Response(request[r].plan,
                              FuseAndRank(request[r].lanes,
                                          request[r].plan.query.limit))]]
  /\ UNCHANGED <<indexVars, connection, lapses, seen>>

Next ==
  \/ IndexChanges
  \/ ConnectionChanges
  \/ \E r \in Requests :
       \/ \E q \in Queries : Begin(r, q)
       \/ ReadLane(r)
       \/ Finish(r)

Spec == Init /\ [][Next]_vars

==============================================================================
