----------------------------- MODULE SearchIndex -----------------------------
(***************************************************************************)
(* What the index promises to a reader of the search API, with no jobs,    *)
(* leases, versions or workers: the provider decides which content of a    *)
(* source is wanted, and the index shows, one atomic publication at a      *)
(* time, content that was the wanted one at that moment, or nothing.       *)
(*                                                                         *)
(* Indexing implements it: IndexingProperties!Implementation.              *)
(***************************************************************************)
EXTENDS Naturals, FiniteSets

CONSTANTS
  Sources,     \* provider items, one row of app.sources each
  Contents,    \* fingerprints of a normalized document
  NoContent    \* "nothing wanted" and "nothing shown"

VARIABLES
  wanted,      \* the content the provider last reported for a source
  shown,       \* the content search answers with for a source
  count,       \* workspace_usage.indexed_source_count
  generation   \* workspaces.search_index_generation

vars == <<wanted, shown, count, generation>>

Shown == {s \in Sources : shown[s] # NoContent}

Init ==
  /\ wanted = [s \in Sources |-> NoContent]
  /\ shown = [s \in Sources |-> NoContent]
  /\ count = 0
  /\ generation = 1

\* The provider reports content c for source s.
Observe(s, c) ==
  /\ wanted' = [wanted EXCEPT ![s] = c]
  /\ UNCHANGED <<shown, count, generation>>

\* The wanted content of s becomes the shown one, once.
Publish(s) ==
  /\ wanted[s] # NoContent
  /\ shown[s] # wanted[s]
  /\ shown' = [shown EXCEPT ![s] = wanted[s]]
  /\ count' = IF shown[s] = NoContent THEN count + 1 ELSE count
  /\ generation' = generation + 1
  /\ UNCHANGED wanted

\* The sources of T are gone at the provider: they leave the index at once.
Withdraw(T) ==
  /\ T # {}
  /\ \A s \in T : wanted[s] # NoContent
  /\ wanted' = [s \in Sources |-> IF s \in T THEN NoContent ELSE wanted[s]]
  /\ shown' = [s \in Sources |-> IF s \in T THEN NoContent ELSE shown[s]]
  /\ count' = count - Cardinality(T \cap Shown)
  /\ generation' = generation + 1

Next ==
  \/ \E s \in Sources, c \in Contents : Observe(s, c)
  \/ \E s \in Sources : Publish(s)
  \/ \E T \in SUBSET Sources : Withdraw(T)

Spec == Init /\ [][Next]_vars

-----------------------------------------------------------------------------

\* Nothing is shown for a source the provider no longer has.
ShownIsWanted == \A s \in Shown : wanted[s] # NoContent

==============================================================================
