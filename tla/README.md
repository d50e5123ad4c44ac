# Universal AI Search: TLA+ specifications

Specifications of the parts of this repository whose correctness depends on
what happens *between* two database transactions: leases, retries, crashes,
tombstones that race with promotions, callbacks and refreshes that arrive twice,
and the counters, pointers and cursors they share. The pure computations that
are hard at their boundaries (chunking, fusion, retry) are beside them.

Contents: [the system](#the-system) - [hard behaviours](#hard-behaviours) -
[modules](#modules) - [indexing](#the-indexing-model) -
[Gmail](#the-gmail-model) - [Drive](#the-drive-model) -
[sessions](#the-session-model) - [connections](#the-connection-model) -
[search](#the-search-model) - [algorithms](#the-algorithms) -
[runs](#runs) - [proofs](#proofs) - [what the runs found](#what-the-runs-found) -
[not modelled](#not-modelled) - [plan](#plan)

## The system

A FastAPI service and a fleet of worker processes around one PostgreSQL
database. Users connect a Google account; workers copy Gmail messages and Drive
files into *sources*, turn them into immutable *document versions*, and search
answers from the version each source points to. In the table, `P` is
`apps/api/src/universal_ai_search`, `SQL` is `apps/api/migrations/sql`.

| Component | State it keeps | Operations | Talks to | Must be true |
| --- | --- | --- | --- | --- |
| Indexing (`P/indexing`, `SQL/0003`) | `sources`, `document_versions`, `chunks`, `jobs`, `job_attempts`, `workspace_usage`, the index generation | `enqueue`, four purges, `claim_index_job`, `load_pending`, `promote`, `fail` | called by the syncs and the worker loop; read by search | the pointer of a source is its one ready version; counters equal what is shown; one lease, one running attempt; every job ends |
| Worker loop (`P/worker/main.py`) | none; its `worker_id` | poll Gmail sync, Drive sync, index, sleep | all three queues | an exception ends the process after the failure is recorded |
| Index preparation (`P/indexing/pipeline.py`) | none | normalise, chunk (600/800 tokens), embed | worker | chunks cover the text in order within the maximum |
| Gmail sync (`P/sync/runtime.py`, `repository.py`, `SQL/0005`) | sync jobs, `sync_cursors`, connection status, sync markers | `claim`, full page, history page, `advance`, `complete`, `recover_full`, `fail` | Gmail API, indexing | the cursor never runs ahead of what was indexed; reconciliation removes only what the provider no longer has; there is always a next sync |
| Drive sync (`P/sync/drive_*.py`, `SQL/0007`) | folder and page jobs of one run, markers | `claim`, `finish_page`, `complete_reconciliation`, `fail` | Drive API, indexing | reconciliation only after the whole tree was listed |
| Connections (`P/connections/service.py`, `store.py`) | OAuth transactions, connections, credentials, the first sync job | `start`, `complete`, `consume_error` | Google, both syncs | a callback completes at most once, for the session that started it |
| Google clients and parsers (`P/connections/{google,gmail,drive*,email_parser}.py`) | none | HTTP paging, text extraction | syncs | bounded output |
| Sessions (`P/auth`, `SQL/0002`) | users, one-time tokens, sessions, refresh-token families | `register`, `verify`, `login`, `refresh`, `authenticate`, `logout` | API | a replayed refresh token leaves no live session of its family |
| Search (`P/search`) | search history | `search`, `record` | reads the index | every result was on show while the request ran; fusion keeps the order the lanes agree on |
| API (`P/api`) | idempotency keys | routes, pagination, problem responses | all services | one effect per idempotency key |
| Connector SDK (`packages/connector-sdk`) | none | contract, models, registry, `with_retry` | connectors | bounded attempts and delays |
| Schema (`SQL/0001`) | constraints, row-level security | - | all | - |
| Web, desktop, shared UI, deployment | none | - | API | - |

## Hard behaviours

Three queues live in `app.jobs`, served by one leasing pattern: a
`SECURITY DEFINER` function takes a runnable or lapsed job with
`FOR UPDATE SKIP LOCKED`, the worker works *outside* any transaction, and a last
transaction checks the lease again and publishes. What can go wrong is in the
gap: the lease lapses and somebody else takes the job; the source gets new
content, is deleted, or is deleted and restored; the process dies; the
connection loses its authorisation, or gets a second one.

The API has the same gap in other places: a refresh token is looked up, locked
and rotated in several statements while another request presents it again; an
OAuth callback consumes its transaction, talks to Google twice and only then
saves; a search reads the generation and four lanes under five snapshots.
`PROJECT.json` lists each hazard at its line, with the properties that watch it
or the counterexample that shows it.

## Modules

| Component | Model | Properties | Instances | Proofs |
| --- | --- | --- | --- | --- |
| what a searcher may see of the index, abstractly | `SearchIndex` | - | - | - |
| a queue of leased jobs, abstractly | `LeaseQueue` | - | - | - |
| the refresh tokens of an account, abstractly | `SessionFamily` | - | - | - |
| indexing pipeline | `Indexing` | `IndexingProperties`, with the refinements of `SearchIndex` and `LeaseQueue` | `MCIndexing` | `IndexingProofs` |
| synchronisation of one mailbox | `GmailSync` | `GmailSyncProperties`, with the refinement of `LeaseQueue` | `MCGmailSync` | `GmailSyncProofs` |
| full scan of one Drive | `DriveSync` | `DriveSyncProperties`, with the refinement of `LeaseQueue` | `MCDriveSync` | `DriveSyncProofs` |
| accounts and sessions | `Sessions` | `SessionsProperties`, with the refinement of `SessionFamily` | `MCSessions` | `SessionsProofs` |
| OAuth round trip, credentials | `Connections` | `ConnectionsProperties` | `MCConnections` | `ConnectionsProofs` |
| a search request over a changing index | `Search`, which extends `Ranking` and runs on `SearchIndex` | `SearchProperties` | `MCSearch` | `SearchProofs` |
| chunking; one retried provider operation | `Algorithms`, which extends `Chunker` and instantiates `ProviderRetry` | in `Algorithms` | `MCAlgorithms` | `AlgorithmsProofs` |
| naturals, sequences and folds | - | - | - | `FoldLemmas` |

How they compose: `Indexing` is shown to implement `SearchIndex`, and `Search` runs
over `SearchIndex`, so what is checked of a search holds over the pipeline. The three
queues of `app.jobs` are shown to implement one `LeaseQueue`, which says what a claim, a
sweep, a late worker, a crash and a withdrawal may do to a job and to the jobs that follow
it: `JobQueue` and `Hands` are the mapping in each of the three property modules.
`Sessions` is shown to implement `SessionFamily`, which is what a client may rely on: one
token to refresh with per family, exchanged for the next one in one step, until the
family ends or its time is over.
`GmailSync` and `DriveSync` treat an enqueued message or file as `Indexing` promises,
and both have a second authorization (`Reauthorize`) that `Connections` explains: a
saved callback makes the initial jobs pending again. A definition whose comment
begins with "Defective" is a deviation from the code that some property is known to
catch; no action uses it.

## The indexing model

One action is one transaction, because each handler of `IndexRepository` opens
one connection and commits when it leaves the `with` block. The exception is a
purge. Its `SELECT ... LEFT JOIN ... FOR UPDATE OF source` takes the joined
version from the statement's snapshot and locks the source afterwards; under
READ COMMITTED a source row that changed in between is re-read and the join is
evaluated again with the *old* version row. So the purge is two actions,
`PurgeSelect` (the snapshot, kept in `scan`) and `PurgeCommit` (everything after
the lock), and `BytesJoined` is the joined column: the size if the pointer has
not moved, `NULL` (zero) if it has.

| Code | Model |
| --- | --- |
| `enqueue` (repository.py 92-286) | `Enqueue`: upsert of the source, the unchanged test, `ON CONFLICT DO NOTHING` for version and job |
| `tombstone`, `tombstone_gmail_message`, `reconcile_*` + `_purge_sources` (288-487) | `PurgeSelect`, `PurgeCommit(T)`, `PurgeNothing`; the four callers differ only in the set `T` |
| `app.claim_index_job` (SQL/0003 11-111) | `Claim`, `ClaimNothing` with `Swept*` (dead-letter sweep) and `ClaimedAttempts` |
| `load_pending` (500-521) | `Load` |
| `prepare` raising `IndexingError` (pipeline.py) | `Reject` on `Unindexable` versions |
| `promote` (523-659) | `Promote`, `PromoteRaises` |
| `fail` (691-725) and the two `except` arms of `run_once` | `Fail` with `RecordFailure` |
| wall clock against `lease_expires_at`, `available_at` | `LeaseExpires`, `BecomesAvailable` (sets `lapsed`, `cooling`) |
| process end, container restart | `Crash`, `Break` then `Fail`, `Restart` |

Abstractions, each of which keeps every outcome the properties can tell apart:

- a version is `<<source, content>>`: `version_key` hashes the source, content,
  permissions and constants of a deployment; the job id is a hash of the version
  id, hence one job row per version, for ever;
- time is two sets of jobs whose deadline has passed or not, so every schedule of
  deadlines is covered;
- the order in which a claim prefers jobs is dropped: any runnable job;
- `workspace_usage.extracted_bytes` is kept as one number per source (`charged`),
  whose sum is the column; since no source is ever charged less than its shown
  content (`NeverUndercharged`), the `GREATEST(..., 0)` of the sum never bites and
  the split is exact;
- `promote` reads its own old version through the same kind of join, but its
  source row cannot change between snapshot and lock and still match the
  fingerprint test except by waiting on the job row through a full cycle of
  contents; it is one action;
- chunks, embeddings, people, outbox rows and titles are written with the version
  or the source and are left out;
- a crash or an exception outside `run_once`'s claim (an idle worker) changes no
  row and is left out.

Bounds (constants of a run): `MaxAttempts` is 5 in the schema, 1 or 2 here, which
gives a retry and an exhausted job; `MaxIndexed` is the 25,000 of
`ck_workspace_usage_sources`; `MaxGeneration` stops purges (and nothing else).
Promotions raise the generation too, so a run with `MaxGeneration = n` purges
only while promotions and purges so far number less than n - 1; without purges the
rows of a finite set of versions can only be used up, so the run is finite. One
purge statement is under way at a time.

Every process has its own `worker_id`. The code computes `hostname:version`
(main.py 84), which is distinct when each worker has its own container, as the
deployment documents say. Two workers on one host would share it; then a late
`fail` of one can end the attempt of the other, and `RunningIffLeased` and
`LeaseMatchesClaim` fail (put `WorkerId <- SharedId` in `MCIndexing.cfg`).

## The Gmail model

A job id is `uuid5(parent, step)` and its idempotency key names the same parent
and step, so the model names a job by its path from the initial job: `Page(j, token)`,
`NextPoll(j)`, `Recovery(j)`. `ON CONFLICT DO NOTHING` is then "the path exists",
and the reset of the initial job by a second authorization meets the paths of its
first life, as it does in the code.

| Code | Model |
| --- | --- |
| `app.claim_gmail_sync_job` (SQL/0005) | `Claim`, `ClaimNothing`, `Swept`, `Runnable` |
| `load` (sync/repository.py 61-104) | `Load` |
| `history_id`, `page`, `history_page` (gmail.py 260-362) | `ReadHistoryId`, `ListPage`, `ListHistoryPage` |
| the loops of `_run_full`, `_run_incremental` (sync/runtime.py 120-200) | `Enqueue`, `MarkSeen`, `Tombstone`, `Reconcile`, each its own transaction |
| `advance`, `complete`, `recover_full`, `fail` | `Advance`, `Complete`, `RecoverFull`, `Fail` |
| `save_connection` with `_queue_initial_sync` (store.py 180-339) | `Reauthorize` |
| wall clock against `lease_expires_at`; process end | `LeaseExpires`; `Crash`, or `Fail` when the exception is recorded first |
| Gmail: mailbox, history, history expiry | `history`, `oldest`, `MailboxChanges`, `HistoryExpires` |

What the provider is assumed to do: a message that is deleted never returns; the
listing has a fixed order and a page token is a position in it; a history id is a
length of the history, and history after an expired id is answered with 404. A
page is listed and its messages fetched at one moment.

Abstractions: a message with its attachments is one source (they are enqueued one
after the other and tombstoned together); content, permissions and the rest of
`enqueue` belong to `Indexing`; `available_at` (the minute before a poll, the backoff of
a retry) is left open, since a claim need not happen; the rows of `job_attempts` are
kept as their number; refreshing credentials changes nothing the properties see,
and when saving them fails that is a `Fail`; a process that ends is replaced at once,
which only shortens its absence. Errors of the provider are `Fail` at the point where
Gmail is called; any step may also raise (a lost lease, a connection that is not
active, a lost database connection), which is `Fail` or, where nothing is recorded,
`Crash`.

Bounds: `MaxHistory` events in the mailbox; jobs at depth `MaxChain` exist but are not
claimed; `MaxStalls` leases that lapse while their worker is still at work (a lease
whose worker is gone may always lapse); `MaxGrants` authorizations after the first.

## The Drive model

A scan is a frontier of jobs: one page of one folder each, then one job that
reconciles. Every attempt at the initial job draws a new run id (`uuid4`), so a run
is a number; all other job ids are `uuid5` of the run or the parent job and a step,
so a job is the sequence of steps that leads to it: `FolderJob`, `PageJob`,
`ReconcileJob`.

| Code | Model |
| --- | --- |
| `app.claim_drive_sync_job` (SQL/0007) | `Claim`, `ClaimNothing`, `Swept`, `Runnable` |
| `load` (drive_repository.py 53-91) | `Load` |
| `children_page` (drive.py 317-357) | `ListPage`; the page of a folder that is gone is empty |
| the four kinds of document of `_document` (drive_runtime.py 221-328) | `Enqueue`; a file of `Downloads` must still exist when its content is fetched |
| `mark_provider_sync_seen` | `MarkSeen` |
| `_run_page` scheduling folders and the next page (180-216) | `FolderRows`, `PageRows`, `Scheduled` |
| `finish_page` (drive_repository.py 114-202) | `FinishPage`, with `FinishedRows` and `WalkEnded`: under an advisory lock of the run the children are inserted, the job is completed and the rows of the run are counted; the last page inserts the reconciliation |
| `reconcile_drive_full_sync` + `complete_reconciliation` | `Reconcile`, then `CompleteReconciliation` in a transaction of its own that checks the lease |
| `fail`; process end | `Fail`, `Crash` |
| `_queue_initial_sync` (connections/store.py 286-322) | `Reauthorize` |
| the user moving and removing files | `TreeChanges` |

Assumed of Drive: a listing has a fixed order, a page token is a position in it, and
a page is read at one moment. A folder does not move but may be removed, with all that
is below it (`Subtree`); folders form a tree, and what is in a removed folder is removed.
Abstractions as in Gmail: the job's
`available_at` is left open, `job_attempts` is its number, content belongs to
`Indexing`.

Bounds: `MaxMoves` items that move or go while the scan runs, `MaxStalls` leases that
lapse under a worker still at work, `MaxGrants` authorizations after the first. The
chain of attempts at the initial job is bounded by `MaxAttempts`.

## The session model

One account, and requests of the API that run at the same time. A request is the
statements between which PostgreSQL lets others in: what it has locked
(`auth_refresh_lookup` is `FOR UPDATE OF sessions`) and what its statement snapshot
has seen stay in its record, so requests interleave as READ COMMITTED allows.

| Code | Model |
| --- | --- |
| `register`: `auth_register_user`, then `send_verification` after its commit | `Register`, `RegisterAgain`, `SendVerification` |
| `auth_verify_email` (SQL/0002 113-143) | `LinkValid`, `VerifyEmail` |
| `login`: lookup and password check, then `create_session` | `LoginLookup`, `CreateSession` |
| `refresh`: `rotate_session` (store.py 250-328) | `RefreshLookup` (lock, `Usable`), `Rotate` |
| the replay branch (286-295) | `RevokeSnapshot`, `RevokeFamily` over `RevokedRows` |
| `authenticate_access`, `logout` | `Authenticates`, `LogoutCheck`, `RevokeSession` |
| an exception before the commit | `Abort` |
| `clock_timestamp()` | `Tick` |

Presenting a token is naming the session it belongs to, since tokens cannot be
guessed, and any token ever issued may be presented again. Password hashing, signing
and cookies are conversions. Statements that wait for a lock are actions that are
not enabled while `Locks` of another request contains the row.

Bounds: `MaxSessions` rows, `MaxClock` ticks; lifetimes are a few ticks, so that
links, access tokens and families all expire within a run.

## The connection model

| Code | Model |
| --- | --- |
| `start` (service.py 69-120) | `Start`; the session that signed it in may be replaced: `SessionRefreshed` |
| `consume_transaction` (store.py 112-154) | `Consume`, `RefuseCallback`, `TransactionExpires` |
| exchange of the code, `account` | `Exchange`: a new grant, `ExternalId` of its account |
| `connection_id_for_account` | `LookUpConnection`: the row's id, or a new uuid the credentials are encrypted for |
| `save_connection` + `_queue_initial_sync` (180-339) | `Save`, with the `ON CONFLICT` of the account, the scopes and the initial jobs |
| any failure on the way | `CallbackFails` |
| `_credentials`, `ensure_fresh`, `_encrypted_credentials`, `save_credentials` of both syncs | `LoadCredentials`, `SaveCredentials`, `RefreshRefused`, `WorkerRests` |
| the user withdrawing access at Google | `Withdraw` |

A callback is four transactions with two calls of Google in between, and every gap is
open to other callbacks and to workers. A fresh uuid is the number of the grant it was
proposed with. Ciphertext is the pair of the grant inside and the id it is bound to
(the additional data of the envelope), which is all decryption depends on.

Bounds: `MaxTransactions`, `MaxSessions`, and `MaxLoads` refreshes.

## The search model

`Search` runs requests over `SearchIndex`. `Begin` plans the query and reads the
generation; each `ReadLane` is one statement with its own snapshot of what is on show
(`Visible`: the pointer, the connection, the filters); `Finish` fuses, shapes, builds
the context and the citations and records the request. `IndexChanges` (a publication
or a withdrawal) and `ConnectionChanges` come between any two of them. `Ranking` is
`search/ranking.py` as pure operators: `FuseAndRank` with its four lane weights,
renormalised features and tie breaks, `Shaped`, `BuildContext`. Both orders, that of a
lane and that of the scores, are relations (`Better`, `Before`), and `Sorted` is the list
of a finite set in such an order.

The scores PostgreSQL computes are a table of the instance (`Relevance`), in which lanes
disagree. Python's floats are integers scaled so that chunks the code tells apart keep
their order; reciprocal ranks are counted in millionths, since in thousandths two
neighbouring ranks of a lane of 100 would be one. `seen` is a history variable: what was on show at some moment since the
request began to read.

Bounds: the generation, and `MaxLapses` changes of the connection. Lanes hold 2 and 4
hits instead of 50 and 100, shares are 2 per source and 1 per section instead of 3 and
2, so that every limit bites. (The context's share of 4 passages per source can never
bite, since the results hold at most 3 of one source: `SourceHasRoom` in `SearchProofs`.)

## The algorithms

`Chunker` is `indexing/pipeline.py` from the normalised text on: headings and their
paths as Python slices them, the split of large blocks, the gathering of chunks and
`prepare`'s removal of exact and near duplicates. A text is a sequence of blocks of
words and an offset counts words. The check of the media type before it
(`UNSUPPORTED_MEDIA_TYPE`, pipeline.py 243-247) is no matter of the text; what becomes of
a version it refuses is `Reject` in `Indexing`.

`ProviderRetry` is `with_retry` of the connector SDK and `ensure_fresh` of the Google
clients, which the two syncs use with the same delays between claims (`_retry_delay`); in
this repository `with_retry` itself is called by the SDK's tests only. An attempt looks at
its token once (`EnsureFresh`, `EnsureRenews`, `EnsureFails`) and then makes all its calls
with it: while its stage is `calling` time passes, and the last call (`Return`) or any call
that fails (`CallFails`) ends the attempt. Calls that succeed on the way leave no trace.
Google refuses with 401 exactly a token that has expired or whose grant the user has
withdrawn (`Accepted`, `Withdraw`), which is an assumption about Google. `Algorithms` lets a text grow block by block, or runs one operation
against every answer of the token endpoint and the provider.

## Runs

All runs but two check deadlock: an idle worker polls for ever and a request may always
come. `search` and `algorithms` come to an end when their bounds are used up.

| Run | Instance | Checks |
| --- | --- | --- |
| `indexing` | 1 source, contents a and b, 2 workers, 2 attempts, purges up to generation 4; 1,130,186 states | `TypeOK`, `PointerIsReady`, `NeverUndercharged`, `RunningIffLeased`, `SucceededIffCompleted`, `LeaseMatchesClaim`, `QueueImplementation`, `JobsSettle` |
| `indexing_quota` | 2 sources, 3 versions of which one is rejected, 2 workers, 1 attempt, purges up to generation 3, quota 1; 2,131,038 states | `CountExact`, `Implementation` |
| `nothing_stranded` | as `indexing` | `NothingStranded`, violated |
| `gmail` | 2 messages, 2 mailbox events, pages of 1, 2 workers, 2 attempts, chains of 3 jobs, 1 stall, 1 further authorization; 3,814,047 states | `TypeOK`, `MailIsIndexed`, `OneChain`, `NeverSkipped`, `CursorMovesForward` |
| `drive` | a folder with files in it and beside it, one of them gone, pages of 2, 2 workers, 2 attempts, 1 move, 1 stall; 913,808 states | `TypeOK`, `NoReconcileBeforeWalkEnds`, `ReconciledIndexIsDrive`, `UnmovedFilesStay`, `QueueImplementation` |
| `drive_live` | the same tree, 1 worker, 2 attempts, 1 further authorization; 870,102 states | `ScanComesToAnEnd` |
| `sessions` | 2 requests at once, 4 sessions, clock 3, lifetimes 1 (link), 2 (session), 1 (access); 758,906 states | `TypeOK`, `OneChainPerFamily`, `FamilyEnds`, `VerifiedOnce`, `EndedFamilyStaysEnded`, `FamilyImplementation` |
| `replay_survived` | as `sessions` | `ReplayEndsFamily`, violated |
| `connections` | 2 families, 2 Google users, 2 callbacks, 2 workers, 2 sessions, 2 transactions, 3 loads; 518,880 states | `TypeOK`, `ExchangedOnce`, `OneConnectionPerAccount`, `CredentialsFit` |
| `credentials_overwritten` | 1 user, 2 callbacks, 1 worker, 2 loads | `CredentialsMatchScopes`, violated |
| `search` | 3 questions, 2 sources with 2 contents, 6 chunks, generation 5, 2 lapses of the connection; about 1.55 million states | `TypeOK`, `ResultsWereShown`, `AheadIsNotBehind`, `LeftOutForAReason`, `ContextFits` |
| `algorithms` | texts of up to 5 blocks out of 7, target 2 and maximum 3 words; 2 retry policies, 7 statuses, 3 Retry-After headers, 3 token lifetimes, clock 6, a skew of 1; 245,606 states | `ChunksCoverTheText`, `NothingIsLost`, `RetriesAreBounded`, `AuthenticationFailsForAReason` |

Workers (requests, callbacks) are interchangeable in `gmail`, `drive`, `sessions` and
`connections`, and symmetry is used there; the runs of liveness use none.

Why these bounds are enough to be interesting.

- Indexing: two contents give replacement and the return to an earlier content; two
  workers and two attempts give a lease that lapses and is taken over while its first
  holder is still running; generation 4 gives deletion, restoration and a second
  deletion; a quota of one with two sources gives a promotion that the usage
  constraint rejects.
- Gmail: a message that arrives *before* the position a scan has reached is missed by
  it and must come back through the history; two events give an arrival and a deletion
  during a scan; chains of 3 give a scan of two pages and its poll, a poll and its
  recovery; one stall gives a worker that goes on after its successor has finished;
  one authorization gives two scans at once. `MCGmailQueue.cfg` is the same model with
  chains of 2 (666,117 states) and checks `QueueImplementation`, which needs no more than
  a job and its successor: every kind of end is in it. `MCGmailLongHistory.cfg` is the
  same model with 3 events and chains of 4 and no second authorization (3,618,019
  states): a scan of two pages followed by a poll of two pages. Both pass.
- Drive: a folder gives two pages in progress at once that may each be the last; pages
  of 2 over 5 items give a next page; a file that is gone gives a purge; a move gives a
  file the scan meets twice or never. `MCDriveNested.cfg` is the same model with a folder
  in a folder and pages of 1 (5.9 million states), so that a whole subtree may be removed
  while the scan is in it. It passes.
- Sessions: two requests give every race of a rotation with a rotation, a replay or a
  logout; four sessions give a login, two rotations and a second family; clock 3 passes
  every lifetime.
- Connections: two transactions and two callbacks give a callback twice and two
  callbacks for one account; two users give two accounts; a worker between them gives a
  refresh that outlives a grant.
- A retry after a retry repeats what the first one shows.

- Retries: a skew of 1 and lifetimes of 1 and 3 give a token that is fresh, one that is
  not and one that is born too old; clock 6 gives calls that outlast the skew and sleeps
  that outlast a token.

Fairness. `Indexing!FairSpec`: as long as some worker can take a step of its own (the
polling loop of main.py 91-97) or be restarted (the service scheduler replaces a stopped
task), one of them does, and deadlines pass. No single worker is relied on. `JobsSettle`
holds because every attempt is counted when it starts.
`DriveSync!FairSpec`: each worker's progress on its job and its sweep, for the same loop,
and the passing of leases nobody works on any more. Nothing is assumed of the connector,
of Google, of the user or of crashes: they may happen whenever the code allows them.
`ScanComesToAnEnd` is stated for one worker and without moves.

## Proofs

TLAPS proves, for every value of the constants that satisfies the assumption named in
each module (`IndexingAssumption`, `GmailSyncAssumption`, `DriveSyncAssumption`,
`SessionsAssumption`, `ConnectionsAssumption`, `RankingAssumption`, `SearchAssumption`,
`ChunkerAssumption`, `BlockAssumption`, `RetryAssumption`, `NoneAssumption`), every type
invariant and every safety property the passing runs check. The assumptions say of what kind the constants are (sets of positions are
finite, limits are positive, null values are no members, folders form a tree, chunk ids
are unique, the share of a source is no larger in the results than in the context); the
bounds of the runs are arbitrary numbers in the proofs.

| Module | Proved | Inductive invariant |
| --- | --- | --- |
| `IndexingProofs` | `TypeOK`, `PointerIsReady`, `NeverUndercharged`, `RunningIffLeased`, `SucceededIffCompleted`, `LeaseMatchesClaim`, `QueueMonotonic`, `LeaseNotStolen`, `CountExact`, `Implementation`, `QueueImplementation`, `DeletedNeverShown` | `CoreInv`, `LeaseInv`, `SourceShape`, `FreshJobs` |
| `GmailSyncProofs` | `TypeOK`, `OneChain`, `CursorMovesForward`, `NeverSkipped`, `MailIsIndexed`, `QueueImplementation` | `IInv`, `CoverInv`, `SafeInv` |
| `DriveSyncProofs` | `TypeOK`, `NoReconcileBeforeWalkEnds`, `UnmovedFilesStay`, `ReconciledIndexIsDrive`, `QueueImplementation` | `IInv`, `CoverInv` |
| `SessionsProofs` | `TypeOK`, `OneChainPerFamily`, `FamilyEnds`, `VerifiedOnce`, `EndedFamilyStaysEnded`, `FamilyImplementation` | `IInv`, with `SeenIsOneFamily` for the refinement |
| `ConnectionsProofs` | `TypeOK`, `ExchangedOnce`, `OneConnectionPerAccount`, `CredentialsFit` | `IInv` |
| `SearchProofs` | `TypeOK`, `ResultsWereShown`, `AheadIsNotBehind`, `LeftOutForAReason`, `ContextFits` | `IInv` |
| `AlgorithmsProofs` | `ChunksCoverTheText`, `NothingIsLost`, `RetriesAreBounded`, `AuthenticationFailsForAReason` | `RetryInv`, `TokenInv`; the text is a list of blocks |

Every proof has one lemma per action (or per kind of action), under it one step per
conjunct it can disturb, a lemma that combines them over the next-state relation, and a
temporal last step.

**Indexing.** `TypeOK`, `PointerIsReady` and `NeverUndercharged` are not inductive by
themselves. `CoreInv` adds three facts:

- `ClaimsInHand`: a process holds a version exactly between its claim and its end
  (without it `claimed[p]` in `Promote` might be the null claim);
- `QueueShape`: an owner is set exactly while a job is leased, only leased jobs
  lapse and only `retry_wait` jobs cool down (without it a claim could start on a
  job outside its states);
- `NoFutureAttempts`: attempts are numbered without gaps, so the row a claim inserts
  is new.

The key step is `PromoteCore`: the pending version that becomes ready takes the place of
the one version that was ready, which `PointerIsReady` identifies as the one the pointer
named. The section on leases adds the hypothesis `WorkersDistinct` (no two processes
share a worker id) and proves `LeaseInv`, relative to `CoreInv`: `fail` and `promote`
identify their lease by owner but close the attempt *by its number*; that they close the
right one is `LeaseMatchesClaim`, which in turn needs that no job has a running attempt
besides its latest. The sections after it prove that the source counter is exact for any
number of sources (by the cardinality theorems), and that every step is a step of
`SearchIndex` or a stutter; `SourceShape` is the added invariant there, and
`DeletedNeverShown` follows from the abstract specification.

**The queues.** `QueueImplementation` is proved of all three, by one lemma per action that
names the abstract step it is: a claim is a `Take` (with the sweep, which is the same
`Buried` in all of them) or, when nothing is free, a `Bury`; `promote`, `advance`,
`complete`, `recover_full`, `finish_page` and `complete_reconciliation` are a `Finish`,
which alone asks for a lease that has not expired and is where successors appear; `fail` is
a `GiveBack`, or a `Drop` when the lease is lost; a crash is a `Drop`; a purge is a
`Withdraw`, a second authorization a `Renew` of the initial job, an enqueue a `Put`. The
inductive invariants above suffice (an owner exactly while a job is leased, only leases
lapse, a worker's job exists); for `Indexing` one is added, `FreshJobs` (a job that was
never inserted was never tried). None of it assumes distinct worker ids: that is why
`Holds` compares names, as the code does. `LeaseNotStolen` and the part of
`QueueMonotonic` about jobs follow from `QueueImplementation`, so no run checks them a
second time; their proofs are direct.

**Gmail.** `OneLeaf` is what makes `OneChain` inductive: until the second authorization
the live jobs are one job that has scheduled nothing. It needs `ParentsExist` (no path
without its parent), since a job that ends inserts a child that must be new. A claim, a
sweep, a retry and a failure keep the job live or end the chain visibly; `advance`,
`complete` and `recover_full` hold the lease, so theirs is the live job, and pass it on.
`CursorMovesForward` needs `CursorBehind` (what the holder of the live job would write is
not behind the cursor), because a worker whose lease lapsed still holds an older id but
no longer writes it, and `IdsAreKnown` (no noted id is beyond the history).

`NeverSkipped` has an argument of its own, for any number of authorizations and lapses.
`Missing[h]` is the mail touched up to history id `h` that is in the mailbox and was never
enqueued; no step of the system adds to it, for a new event comes after `h` and no
message becomes absent again. `CoverInv` says that nothing is missing behind the progress
of a job, behind a poll that has loaded the cursor, and behind the cursor, and that what
is missing behind a page that was listed is on the worker's list. `PageFacts` is the step
that needs induction over finite sets (by the well-founded order of strict subsets): what
a page leaves out lies behind its token.

`MailIsIndexed` says more: not only was mail enqueued once, nothing has purged it since.
It holds while no lease lapses under a worker and nobody authorizes again (`Calm`), and
the reason is that then only the holder of the one live job is at work (`Alone`, from
`OneLeaf` and `LeasesHeld`). `SafeInv` adds to `CoverInv` that nothing is `Lost` (in the
mailbox, touched up to some history id, and not active) behind the cursor, and that
nothing is `Unsafe` behind the progress of the live job: a scan has marked all mail behind
its token that it has not seen change since, so its reconciliation purges nothing else,
and a retry after a crash finds the marks of the attempt before it.

**Drive.** `NoReconcileBeforeWalkEnds` needs to know which run a row belongs to
(`JobsHaveRuns`) and that a worker writes for the run of its job, or, at the initial job,
for a fresh one of which nothing is queued (`RunsInHand`): then the page that finds no
other active row of its run is the last, and nobody can add one after it.

The section on coverage is about what the walk has not reached. `WalkCovers` says that every
item nobody moved, of a folder the walk knows of, is reached (a file is marked and active,
a folder has its job) or lies ahead of a job of the run that is not completed;
`PagesCover` says the same of the page a worker has in hand. When the walk ends there is no
such job, so by the rootedness of the tree every item is reached, and the reconciliation
purges exactly the files that are gone. It too is stated for `Calm`: a worker that lost
its lease may mark a file again for a run whose reconciliation has been, or reconcile a
run another attempt has replaced.

**Sessions.** `LocksHold` says what a request may rely on while it holds the row it found
usable; `FamiliesAreOld` names a family by its first session, which puts every successor
in the chain; `RegistrationOrder` ties the link, the account's status and its sessions.
For `SessionFamily` a step is an exchange if it is a `Rotate` (the session it replaces is
the only one of its family to refresh, by `OneChainPerFamily`, and the family has not
expired, by `FamilyEnds`), and an end if a revocation reaches that session. A revocation
that finds nothing but replaced sessions, as the one a rotation has overlapped, is
invisible. `SeenIsOneFamily` keeps the rows a revocation has seen within one family, so
no logout or replay ends another.

**Connections.** `ConsumedForOne` makes a callback past its transaction the only one that
can bring a grant under it. `ProposedByAccount` and `FoundForAccount` say whose account an
id stands for, so that the loser of two inserts cannot leave credentials bound to the id
it had proposed; `RefreshOfAccount` says the same of a worker's refresh.

**Search.** `IInv` is short: what a request has read was on show while it read and passes
its filters, a lane is a list of distinct hits within its limit, best first, and an answer
is what `Response` and `FuseAndRank` make of the lanes. The properties are then facts about
pure operators, for any catalogue and any lanes:

- `SortedLists`: counting predecessors makes a list of every member of a finite set once,
  in the order of the relation;
- `FoldExists`, `FoldStepByStep`: the function the community modules define a fold by
  exists, and it can be followed from one position to the next; `ShapedStepByStep`,
  `ContextStepByStep` and `TokensStepByStep` say what a step of each fold does;
- `ReciprocalFalls`, `SignalFalls`, `AheadScoresMore`: at a later rank the reciprocal is
  strictly less (this is where the weights, the constant 60 and the limits of the lanes
  enter) and the signal no greater, so a chunk ahead in every lane has the better score;
- `ResultsGrow`, `ContextGrows`: what shaping and context building keep true from one
  chunk to the next; a reason to leave a chunk out stays one.

**Chunks.** `Chunker` is three folds: paragraphs, gathering, keeping. `FoldLemmas` shows
once that a fold of the community modules can be climbed step by step (`FoldStepByStep`:
there is a function `g` with `g[0]` the base, `g[i+1]` one step from `g[i]`, and `g[n]` the
fold), so that a property of what a fold computes is an invariant of that climb, proved by
`AllNaturals` (the well-founded order of the naturals, stated for a set instead of an
operator). The invariants are:

- `Covers(parts, a, words)`: the parts follow each other from offset `a` without a gap, and
  their words end to end are `words`. `CoversAppend` and `CoversConcat` build it up,
  `Cuts` and `SplitCovers` show it of the pieces of a large block (the cut points
  `min(i * maximum, size)` climb and end at the size);
- `GatherOK`: the chunks made so far and the parts in hand are the words of the parts seen,
  the parts in hand are within the maximum, and every chunk was cut where it had to be;
- `KeptOK`: of the chunks seen each is kept or has an earlier kept twin. It needs the
  chunks to be in the order of their offsets, which follows from no chunk being empty.

`BlockAssumption` says that a block has a word: every character that is no space is in a
token (pipeline.py 18), and a block of a normalized text is not blank. The similarity of
two chunks stays uninterpreted: what is proved holds for any digest and distance.

**Retries.** `RetryInv` counts the delays and says that while an operation sleeps it has an
attempt left and its error is transient. `DelayAllowed` is the arithmetic of `Backoff`, for any random number and any
`Retry-After`. The code draws the random factor below 1.5, as `Randoms` does in halves; the
clamp of `Backoff` makes the bound independent of it. `NoneAssumption` says that an error
is not the null value. `AuthenticationFailsForAReason` is not inductive: a look at the token
and the refusal are different steps, with time and the user between them. `TokenInv` carries
the result of the look to the calls (a token that passed it outlives the moment of the look
by the skew), so that one refused later is refused for what happened since.

Only model-checked: `JobsSettle` and `ScanComesToAnEnd` (liveness under fairness is out of
the prover's reach).

## What the runs found

Three runs expect a violation:

- **A document that returns to an earlier content is never indexed again**
  (`nothing_stranded`). The old version is superseded, its job completed, both
  inserts do nothing, and `enqueue` still answers `QUEUED`. The same happens when a
  purged source is restored with content it had before.
- **A refresh overwrites the credentials of a newer grant**
  (`credentials_overwritten`). `save_credentials` of both syncs asks for the id and the
  status of the connection only. If the user authorizes the account again with other
  families meanwhile, the old grant comes back under the new scopes, every job refuses
  it, and the connection stays active.
- **A session outlives the replay that should have ended its family** (`replay_survived`).
  A replayed token revokes the rows of the family its statement found. A rotation of the
  family's current token that commits while that statement waits for its row leaves a
  successor the statement never saw, and the successor goes on to be used and rotated.
  09_AUTH_AND_OAUTH.md 134-140 says that the concurrent loser revokes the family and all
  its descendants. What does hold is `EndedFamilyStaysEnded`: a family whose
  newest session is revoked never comes back.

Further counterexamples have a configuration of their own, to be run by hand:

- **Bytes of a deleted document stay charged** (`MCBytesExact.cfg`). See the purge above.
  The counter is only ever too high (`NeverUndercharged`), so the quota errs on
  the safe side, but nothing in the repository repairs it.
- **A dead-lettered job leaves its version pending** (`MCDeadLetterFailsVersion.cfg`),
  when the last lease lapsed instead of failing.
- **Promotion does not ask whether the connection is still active**
  (`MCPromotesOnlyConnected.cfg`), although the pipeline document lists that check.
- **Mail deleted between two attempts at the first page of a scan stays searchable**
  (`MCDeletedMail.cfg`). The marker depends on the job, not on the attempt, but each
  attempt reads a new history id: the message keeps the mark of the first attempt,
  and the cursor starts behind its deletion.
- **A worker that lost its lease still reconciles** (`MCFailedScan.cfg`). Only the last
  transaction of a scan checks the lease; the purge before it does not, and takes
  mail indexed since.
- **A second authorization ends the synchronisation of the mailbox**
  (`MCScanSchedulesPoll.cfg`). The initial job runs again under its old id and finds the
  poll it would schedule already there.
- **A file that moves during a Drive scan is purged** (`MCMovedFile.cfg`), if it moves from
  a folder not yet listed to one already listed; only another scan, which a new
  authorization starts, restores it.
- **An answer is not a function of the recorded generation** (`MCUnreproducible.cfg`). The
  generation and the four lanes are read under five snapshots; the design document
  (03_SEARCH_ENGINE_DESIGN.md 263-264) promises the same order for the same plan and
  generation.

`MailIsIndexed` and `OneChain` are therefore stated for one authorization, and
`MailIsIndexed`, `ReconciledIndexIsDrive` and `UnmovedFilesStay` also for workers that do
not outlive their lease; `NeverSkipped` and `NoReconcileBeforeWalkEnds` need neither.

Other differences met while reading, which no property states: ties are not broken by the
strength of an exact match, as 03_SEARCH_ENGINE_DESIGN.md 262 says; logout revokes the
session it is given and not its family (store.py 361, against 09_AUTH_AND_OAUTH.md 145);
when the verification mail cannot be sent, or its link expires, registering again
sends none; a heading that skips a level keeps the path of the levels there are
(pipeline.py 178).

Chunks do not overlap: 07_INDEXING_PIPELINE.md 113 sets the target "overlap: 50-100 tokens
only across a necessary structural boundary", and `_chunk_blocks` and `_split_large_block`
(pipeline.py 183-238) have no overlap anywhere, not even where a block is cut in the middle
for its length. `ChunksCoverTheText` states what the code does, every word exactly once, and
so disagrees with the document on purpose.

A page may be refused with a token that was good: `ensure_fresh` looks once per attempt
(drive_runtime.py 112), for a token that lives two more minutes, and the page then lists and
downloads with timeouts of 20 and 30 seconds a call. If that takes longer than the token
lives, the 401 becomes `reauthorization_required` and the user is asked to authorize again
although the refresh token is good. `AuthenticationFailsForAReason` lists it as a reason
(`now > ensured.at + Skew`).

## Not modelled

- Document and mail parsers, credential encryption, request validation, cookies, problem
  responses and pagination: conversions of one input without state shared between calls.
  What matters of encryption, the id a ciphertext is bound to, is in `Connections`.
- HTTP clients of Google beyond paging, token refresh and the classification of answers.
- Normalisation of characters, language detection, identifiers and the hash that stands
  for an embedding: conversions before and after `Chunker`.
- The worker's round over its three queues: each queue is polled in its own module; that
  one process serves all three only makes it slower.
- Contract, registry and models of the connector SDK: data definitions.
- Row-level security: declarative policies. Readiness probes and configuration: no state.
- Web, desktop and UI packages, deployment: presentation and packaging; the restart of
  containers is used as fairness.
- The lock order of concurrent transactions: a deadlock victim is the `Break` action of
  `Indexing`, and a `Fail` or `Abort` elsewhere.

## Plan

Done: `Indexing` with `SearchIndex`; `GmailSync`; `DriveSync`; `Sessions`; `Connections`;
`Search` with `Ranking`; `Chunker` and `ProviderRetry`; `LeaseQueue` with its three
refinements; `SessionFamily`, refined by `Sessions`; the theorems above.

Left:

- The grants of an account as an abstract specification (none, granted, refreshed,
  replaced), refined by `Connections`.
