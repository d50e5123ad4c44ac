------------------------------ MODULE MCSearch -------------------------------
(* Small instances of Search for TLC. *)
EXTENDS SearchProperties, TLC

Chunk(id, source, content, hash, heading, tokens, timestamp) ==
  [id |-> id, source |-> source, content |-> content, hash |-> hash,
   heading |-> heading, tokens |-> tokens, timestamp |-> timestamp]

\* Two sources. s2 has a copy of a chunk of s1; content A of s1 has three
\* chunks, two of them in one section, content B has one.
TwoSources ==
  { Chunk(1, "s1", "A", "a1", "h1", 3, 5),
    Chunk(2, "s1", "A", "a2", "h1", 2, 5),
    Chunk(3, "s1", "A", "a3", "h2", 6, 5),
    Chunk(4, "s1", "B", "b1", "h1", 4, 5),
    Chunk(5, "s2", "A", "a1", "h1", 3, 7),
    Chunk(6, "s2", "B", "b2", "h3", 2, 7) }

none == -1

\* "word": every lane finds something, in different orders; "phrase": what the
\* exact lane finds when it is quoted; its keyword hits in s2 score zero.
Matches ==
  [word |-> [exact   |-> <<6, 6, none, 6, 8, none>>,
             keyword |-> <<4, 8, 2, 5, 4, 1>>,
             vector  |-> <<9, 5, 7, 3, 9, 2>>,
             trigram |-> <<none, none, none, 2, 3, 3>>],
   phrase |-> [exact   |-> <<none, none, 10, none, 6, 6>>,
               keyword |-> <<none, none, 3, 3, 0, 0>>,
               vector  |-> <<2, 2, 4, 5, 1, 3>>,
               trigram |-> <<none, none, none, none, none, none>>]]

\* s1 is a mail with two correspondents, s2 a file.
SourceAttributes ==
  [s1 |-> [provider |-> {"gmail"}, people |-> {"ann", "bob"}],
   s2 |-> [provider |-> {"google_drive"}, people |-> {"bob"}]]

Query(text, phrases, mode, limit, providers, people, to) ==
  [text |-> text, phrases |-> phrases, mode |-> mode, limit |-> limit,
   only |-> [provider |-> providers, people |-> people], from |-> 0, to |-> to]

SomeQueries ==
  { Query("word", <<>>, "answer", 10, {}, {}, 10),
    Query("word", <<"phrase">>, "answer", 2, {"gmail", "google_drive"}, {"bob"}, 10),
    Query("phrase", <<>>, "results", 10, {}, {"ann", "bob"}, 7) }

OneQuery == {Query("word", <<>>, "results", 10, {}, {}, 10)}

SmallLanes == [exact |-> 2, keyword |-> 4, vector |-> 4, trigram |-> 2]

==============================================================================
