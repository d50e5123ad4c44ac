---------------------------- MODULE MCAlgorithms -----------------------------
(* Small instances of Algorithms for TLC. *)
EXTENDS Algorithms, TLC

Block(level, name, words) == [level |-> level, name |-> name, words |-> words]

\* Headings of two levels, blocks below, at and above the maximum of three
\* words, and blocks of the same words in another order.
SomeBlocks ==
  { Block(1, "h1", <<"x">>),
    Block(2, "h2", <<"y">>),
    Block(0, "", <<"x", "y">>),
    Block(0, "", <<"y", "x">>),
    Block(0, "", <<"z", "y", "y">>),
    Block(0, "", <<"z", "z">>),
    Block(0, "", <<"x", "y", "z", "x", "y">>) }

Digests == "x" :> {1, 2} @@ "y" :> {3} @@ "z" :> {1, 4}

SomePolicies ==
  { [attempts |-> 3, base |-> 1, max |-> 1],
    [attempts |-> 3, base |-> 2, max |-> 3] }

==============================================================================
