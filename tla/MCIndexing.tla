----------------------------- MODULE MCIndexing ------------------------------
(* Small instances of Indexing for TLC. *)
EXTENDS IndexingProperties, TLC

CONSTANTS a, b, p1, p2, s1, s2

\* Every worker process has an id of its own (one container each).
DistinctIds == (p1 :> "w1" @@ p2 :> "w2")

\* Two processes on one host: hostname:version is the same string.
SharedId == (p1 :> "host" @@ p2 :> "host")

OneWorker == (p1 :> "w1")

Sizes == (a :> 1 @@ b :> 2)

OneSource == {<<s1, a>>, <<s1, b>>}

\* Two sources, and a version whose text or media type the pipeline rejects.
TwoSources == {<<s1, a>>, <<s2, a>>, <<s2, b>>}
Rejected == {<<s2, b>>}

==============================================================================
