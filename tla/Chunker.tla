------------------------------ MODULE Chunker --------------------------------
(***************************************************************************)
(* indexing/pipeline.py: the paragraphs of a normalized text with their    *)
(* headings, the split of large ones, the chunks they are gathered in, and *)
(* the chunks that are kept. Pure operators.                               *)
(*                                                                         *)
(* A text is a sequence of blocks [level, name, words]: level 0 is no      *)
(* heading. An offset counts the words before it.                          *)
(***************************************************************************)
EXTENDS Integers, Sequences, FiniteSets, FiniteSetsExt, SequencesExt

CONSTANTS
  TargetTokens,    \* 600
  MaximumTokens,   \* 800
  MaxChunks,       \* 10,000
  Bits,            \* the bits of a fingerprint: 64
  Digest,          \* [words -> SUBSET Bits]: sha256 of a token
  Distance         \* 3: the distance of near duplicates

ASSUME ChunkerAssumption ==
  /\ TargetTokens \in 1..MaximumTokens
  /\ MaximumTokens \in Nat
  /\ MaxChunks \in Nat

\* heading_path[: level - 1] + [name], as Python slices.
HeadingPath(path, block) ==
  IF block.level = 0 THEN path
  ELSE SubSeq(path, 1, Min({block.level - 1, Len(path)})) \o <<block.name>>

\* The next block, with the headings it stands under and its offset.
AddParagraph(acc, block) ==
  LET heading == HeadingPath(acc.path, block)
  IN [path |-> heading,
      at |-> acc.at + Len(block.words),
      list |-> Append(acc.list,
                      [heading |-> heading, words |-> block.words, start |-> acc.at])]

NoParagraphs == [path |-> <<>>, at |-> 0, list |-> <<>>]

Paragraphs(text) == FoldLeft(AddParagraph, NoParagraphs, text).list

\* Mutation of SplitLargeBlock: the rest of a block that is no multiple of the maximum is lost.
SplitWholePieces(block) ==
  LET size == Len(block.words)
      pieces == size \div MaximumTokens
  IN IF size <= MaximumTokens THEN <<block>>
     ELSE [i \in 1..pieces |->
            LET from == (i - 1) * MaximumTokens
            IN [heading |-> block.heading,
                words |-> SubSeq(block.words, from + 1, from + MaximumTokens),
                start |-> block.start + from]]

\* A block of more than MaximumTokens is cut at every MaximumTokens words.
SplitLargeBlock(block) ==
  LET size == Len(block.words)
      pieces == (size + MaximumTokens - 1) \div MaximumTokens
  IN IF size <= MaximumTokens THEN <<block>>
     ELSE [i \in 1..pieces |->
            LET from == (i - 1) * MaximumTokens
            IN [heading |-> block.heading,
                words |-> SubSeq(block.words, from + 1, Min({size, from + MaximumTokens})),
                start |-> block.start + from]]

Parts(text) ==
  LET paragraphs == Paragraphs(text)
  IN FlattenSeq([i \in DOMAIN paragraphs |-> SplitLargeBlock(paragraphs[i])])

Words(parts) == FlattenSeq([i \in DOMAIN parts |-> parts[i].words])

\* Mutation of EndsBefore: the part at hand is not counted.
EndsBeforeUncounted(current, part) ==
  /\ current # <<>>
  /\ \/ Len(Words(current)) > MaximumTokens
     \/ Last(current).heading # part.heading /\ Len(Words(current)) >= TargetTokens

\* Blocks gathered so far are a chunk of their own when the next does not fit,
\* or stands under another heading and the target is reached.
EndsBefore(current, part) ==
  /\ current # <<>>
  /\ \/ Len(Words(current)) + Len(part.words) > MaximumTokens
     \/ Last(current).heading # part.heading /\ Len(Words(current)) >= TargetTokens

\* A chunk has the heading of its first part. Its content keeps the parts
\* apart: their separators are part of the text that is hashed.
Merge(parts) ==
  [heading |-> Head(parts).heading,
   content |-> [i \in DOMAIN parts |-> parts[i].words],
   start |-> Head(parts).start,
   end |-> Last(parts).start + Len(Last(parts).words)]

\* The next part is gathered, after a chunk is made of those before it or not.
Gather(acc, part) ==
  IF EndsBefore(acc.current, part)
    THEN [done |-> Append(acc.done, Merge(acc.current)), current |-> <<part>>]
    ELSE [acc EXCEPT !.current = Append(@, part)]

NothingGathered == [done |-> <<>>, current |-> <<>>]

ChunkBlocks(text) ==
  LET gathered == FoldLeft(Gather, NothingGathered, Parts(text))
  IN IF gathered.current = <<>> THEN gathered.done
     ELSE Append(gathered.done, Merge(gathered.current))

-----------------------------------------------------------------------------
ChunkWords(chunk) == FlattenSeq(chunk.content)

\* simhash64: a bit is set when at least half of the words set it.
SimHash(words) ==
  {b \in Bits :
     2 * Cardinality({i \in DOMAIN words : b \in Digest[words[i]]}) >= Len(words)}

Near(c, d) ==
  LET f == SimHash(ChunkWords(c))
      g == SimHash(ChunkWords(d))
  IN Cardinality((f \ g) \cup (g \ f)) <= Distance

\* A kept chunk makes another one a duplicate: the same content anywhere, or
\* nearly the same under the same heading.
Duplicates(kept, chunk) ==
  \/ kept.content = chunk.content
  \/ kept.heading = chunk.heading /\ Near(kept, chunk)

\* Mutation of Kept: a chunk is compared with every chunk before it, kept or not.
KeptUnlessLikeAny(chunks) ==
  LET new(i) == \A k \in 1..(i - 1) : ~Duplicates(chunks[k], chunks[i])
      order == SetToSortSeq({i \in DOMAIN chunks : new(i)}, <)
  IN [n \in DOMAIN order |-> chunks[order[n]]]

\* prepare: chunks one after the other, each kept unless a kept one makes it a
\* duplicate.
Keep(kept, chunk) ==
  IF \E i \in DOMAIN kept : Duplicates(kept[i], chunk) THEN kept
  ELSE Append(kept, chunk)

Kept(chunks) == FoldLeft(Keep, <<>>, chunks)

\* The outcome for a text: its chunks, or the error of the attempt.
Prepare(text) ==
  LET kept == Kept(ChunkBlocks(text))
  IN IF Words(text) = <<>> THEN [error |-> "NO_INDEXABLE_TEXT", chunks |-> <<>>]
     ELSE IF Len(kept) > MaxChunks THEN [error |-> "CHUNK_LIMIT_EXCEEDED", chunks |-> <<>>]
     ELSE [error |-> "", chunks |-> kept]

==============================================================================
