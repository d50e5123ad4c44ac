----------------------------- MODULE Algorithms ------------------------------
(***************************************************************************)
(* The computations of the connectors and of the pipeline that touch no    *)
(* shared state, put to work one at a time: a text grows block by block    *)
(* and is chunked, or an operation is tried against a provider.            *)
(***************************************************************************)
EXTENDS Chunker

CONSTANTS
  Blocks,      \* the blocks a text may consist of
  MaxBlocks,   \* bound on its length
  Policies, Randoms, Statuses, RetryAfters, Lifetimes, Skew, Required,
  OtherScope, None, MaxClock

\* A block has a token: the paragraphs of a normalized text are not blank.
ASSUME BlockAssumption ==
  \A b \in Blocks : b.level \in Nat /\ b.words \in Seq(DOMAIN Digest) \ {<<>>}

ASSUME RetryAssumption ==
  /\ \A p \in Policies : p.attempts \in Nat \ {0} /\ p.base \in Nat /\ p.max \in Nat
  /\ Randoms \subseteq Int
  /\ RetryAfters \ {None} \subseteq Int
  /\ Lifetimes \ {None} \subseteq Int
  /\ Skew \in Int

VARIABLES text,
  now, policy, credentials, withdrawn, stage, attempt, until, error, waited, ensured

retryVars ==
  <<now, policy, credentials, withdrawn, stage, attempt, until, error, waited, ensured>>
vars ==
  <<text, now, policy, credentials, withdrawn, stage, attempt, until, error, waited, ensured>>

P == INSTANCE ProviderRetry

\* No error is None.
ASSUME NoneAssumption ==
  \A class \in {"authentication_failed", "permission_denied", "malformed_item"} :
    P!Error(class, None) # None

Init == text = <<>> /\ P!Init

\* The text has another block.
Write(block) ==
  /\ stage = "idle"
  /\ Len(text) < MaxBlocks
  /\ text' = Append(text, block)
  /\ UNCHANGED retryVars

Next ==
  \/ \E block \in Blocks : Write(block)
  \/ text = <<>> /\ P!Next /\ UNCHANGED text

Spec == Init /\ [][Next]_vars

-----------------------------------------------------------------------------
\* The chunks, end to end, are the text: every word once and in order, at the
\* offsets they claim. None has more than the maximum, and a text is cut only
\* where the next part does not fit or the target is reached
\* (indexing/pipeline.py:183-238). So no two chunks overlap, against the target of
\* 50-100 tokens across a necessary boundary (07_INDEXING_PIPELINE.md:113): the
\* code has no overlap, and this is the property of the code.
ChunksCoverTheText ==
  LET chunks == ChunkBlocks(text)
      parts == ToSet(Parts(text))
      size(i) == Len(ChunkWords(chunks[i]))
      fits(i, part) == size(i) + Len(part.words) <= MaximumTokens
  IN /\ FlattenSeq([i \in DOMAIN chunks |-> ChunkWords(chunks[i])]) = Words(text)
     /\ \A i \in DOMAIN chunks :
          /\ size(i) \in 1..MaximumTokens
          /\ chunks[i].end - chunks[i].start = size(i)
          /\ i < Len(chunks) =>
               /\ chunks[i].end = chunks[i + 1].start
               /\ \A part \in parts :
                    part.start = chunks[i].end => ~fits(i, part) \/ size(i) >= TargetTokens

\* A chunk that is not indexed has a twin that is, earlier in the text: the
\* same content, or nearly the same under the same heading. No two indexed
\* chunks are twins, and a text fails as a whole only when it has no word or
\* too many chunks (indexing/pipeline.py:249-291, 07_INDEXING_PIPELINE.md:140).
NothingIsLost ==
  LET chunks == ChunkBlocks(text)
      kept == Kept(chunks)
      outcome == Prepare(text)
  IN /\ \A c \in ToSet(chunks) \ ToSet(kept) :
          \E k \in ToSet(kept) : k.start < c.start /\ Duplicates(k, c)
     /\ \A i, j \in DOMAIN kept : i < j => ~Duplicates(kept[i], kept[j])
     /\ outcome.error = "" <=> kept # <<>> /\ Len(kept) <= MaxChunks
     /\ outcome.error = "" => outcome.chunks = kept

\* An operation sleeps at most once between two attempts and never longer than
\* the policy's maximum or, unless the provider asked for it, than the doubled
\* base; only a transient error is waited for, and it is given up only when the
\* attempts are spent (retry.py:36-53, drive_runtime.py:523, runtime.py:301).
RetriesAreBounded ==
  /\ stage # "idle" => attempt \in 1..policy.attempts
  /\ Len(waited) = attempt - (IF stage = "sleeping" THEN 0 ELSE 1)
  /\ \A i \in DOMAIN waited : waited[i] \in 0..policy.max
  /\ \A i \in DOMAIN waited :
       waited[i] <= policy.base * 2^(i - 1) \/ waited[i] \in RetryAfters \cup {policy.max}
  /\ stage = "sleeping" => error.retryable
  /\ stage = "raised" /\ error.retryable => attempt = policy.attempts

\* The user is asked to authorize again, which is what an authentication failure
\* comes to, only with a reason: the token endpoint refused in this very attempt,
\* the grant is withdrawn, the attempt's calls went on for longer than the skew
\* after its one look at the token, or the renewed token never had that long to
\* live. However long the operation slept and however often it was tried, an old
\* token is no reason, and no call is made without the connector's scope
\* (connections/drive.py:271-315, connections/gmail.py:211-258,
\* sync/drive_runtime.py:111-131).
AuthenticationFailsForAReason ==
  /\ stage = "raised" /\ error.class = "authentication_failed" =>
       \/ ensured.outcome = "failed"
       \/ withdrawn
       \/ now > ensured.at + Skew
       \/ ensured.outcome = "renewed" /\ credentials.expires <= ensured.at + Skew
  /\ stage = "calling" => Required \in credentials.scopes

==============================================================================
