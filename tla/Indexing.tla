------------------------------ MODULE Indexing -------------------------------
(***************************************************************************)
(* The durable indexing pipeline: app.sources, app.document_versions,      *)
(* app.jobs and app.job_attempts in PostgreSQL, the connector side that    *)
(* enqueues and tombstones sources, and the worker processes that lease    *)
(* one index job at a time, prepare its text outside any transaction and   *)
(* promote it.  One action is one transaction (or one process-local step); *)
(* the gap between two of them is where everything else may happen.        *)
(*                                                                         *)
(* A version is a pair <<source, content>>: version_key binds the source   *)
(* and the content and permission hashes, the parser, chunker and profile  *)
(* being constants of one deployment.  The index job of a version is       *)
(* uuid5(version), so a version has at most one job row, ever.             *)
(***************************************************************************)
EXTENDS Integers, FiniteSets

CONSTANTS
  Sources,        \* provider items of one connection
  Contents,       \* (content hash, permissions hash) pairs
  Versions,       \* the <<source, content>> pairs the provider may report
  Unindexable,    \* versions whose text or media type IndexingPipeline.prepare rejects
  Size,           \* extracted_bytes of each content
  Procs,          \* worker processes
  WorkerId,       \* the worker_id string each process computes in main
  MaxAttempts,    \* app.jobs.max_attempts (5 in the schema)
  MaxIndexed,     \* ck_workspace_usage_sources (25000 in the schema)
  MaxGeneration,  \* bound: purges stop when the generation reaches it
  NoContent, NotSeen, NoWorker, NoClaim

ASSUME IndexingAssumption ==
  /\ IsFiniteSet(Sources)
  /\ NoContent \notin Contents
  /\ NotSeen \notin Contents \cup {NoContent}
  /\ Versions \subseteq Sources \X Contents
  /\ Unindexable \subseteq Versions
  /\ Size \in [Contents -> Nat]
  /\ NoWorker \notin {WorkerId[p] : p \in Procs}
  /\ NoClaim \notin Versions
  /\ MaxAttempts \in Nat \ {0}
  /\ MaxIndexed \in Nat
  /\ MaxGeneration \in Nat

VARIABLES
  connected,      \* connections.status = 'active'
  sourceState,    \* sources.state, "absent" before the first enqueue
  sourceHash,     \* sources.content_hash and permissions_hash
  current,        \* sources.current_document_version_id
  versionState,   \* document_versions.state, "none" when there is no row
  jobStatus,      \* jobs.status, "none" when there is no row
  attemptCount,   \* jobs.attempt_count
  leaseOwner,     \* jobs.lease_owner
  lapsed,         \* leased jobs whose lease_expires_at has passed
  cooling,        \* retry_wait jobs whose available_at is still ahead
  attemptStatus,  \* job_attempts.status by attempt_number
  indexedCount,   \* workspace_usage.indexed_source_count
  charged,        \* workspace_usage.extracted_bytes, split by the source it counts
  generation,     \* workspaces.search_index_generation
  scan,           \* rows a purge has selected, with the current version each was joined to
  pc,             \* where each worker process is in run_once
  claimed,        \* ClaimedJob: the version
  claimNumber     \* ClaimedJob.attempt_number

sourceVars == <<sourceState, sourceHash, current>>
jobVars == <<jobStatus, attemptCount, leaseOwner, lapsed, cooling, attemptStatus>>
usageVars == <<indexedCount, charged, generation>>
procVars == <<pc, claimed, claimNumber>>
vars == <<connected, sourceVars, versionState, jobVars, usageVars, scan, procVars>>

SourceStates == {"absent", "active", "deleted"}
VersionStates == {"none", "pending", "ready", "superseded", "failed"}
Queued == {"pending", "retry_wait", "leased"}
Terminal == {"completed", "failed", "dead_letter"}
JobStatuses == {"none"} \cup Queued \cup Terminal
AttemptStatuses == {"none", "running", "succeeded", "retryable_failure",
                    "permanent_failure", "lease_expired"}
PCs == {"idle", "claimed", "loaded", "rejected", "broken", "down"}
Workers == {WorkerId[p] : p \in Procs}

Indexed == {s \in Sources : current[s] # NoContent}

Init ==
  /\ connected = TRUE
  /\ sourceState = [s \in Sources |-> "absent"]
  /\ sourceHash = [s \in Sources |-> NoContent]
  /\ current = [s \in Sources |-> NoContent]
  /\ versionState = [v \in Versions |-> "none"]
  /\ jobStatus = [v \in Versions |-> "none"]
  /\ attemptCount = [v \in Versions |-> 0]
  /\ leaseOwner = [v \in Versions |-> NoWorker]
  /\ lapsed = {}
  /\ cooling = {}
  /\ attemptStatus = [v \in Versions |-> [n \in 1..MaxAttempts |-> "none"]]
  /\ indexedCount = 0
  /\ charged = [s \in Sources |-> 0]
  /\ generation = 1
  /\ scan = [s \in Sources |-> NotSeen]
  /\ pc = [p \in Procs |-> "idle"]
  /\ claimed = [p \in Procs |-> NoClaim]
  /\ claimNumber = [p \in Procs |-> 0]

-----------------------------------------------------------------------------
(* The connector side: IndexRepository.enqueue and _purge_sources.          *)

\* The current version is ready and has the key just computed.
Unchanged(s, c) == current[s] = c /\ versionState[<<s, c>>] = "ready"

\* INSERT INTO app.jobs ... ON CONFLICT DO NOTHING.
InsertedJob(status) == IF status = "none" THEN "pending" ELSE status

\* Upsert the source, and unless it is unchanged insert its version and its
\* job, each with ON CONFLICT DO NOTHING, in one transaction.
Enqueue(s, c) ==
  /\ <<s, c>> \in Versions
  /\ connected
  /\ sourceState' = [sourceState EXCEPT ![s] = "active"]
  /\ sourceHash' = [sourceHash EXCEPT ![s] = c]
  /\ IF Unchanged(s, c)
       THEN UNCHANGED <<versionState, jobStatus>>
       ELSE /\ versionState' = [versionState EXCEPT ![<<s, c>>] =
                                  IF @ = "none" THEN "pending" ELSE @]
            /\ jobStatus' = [jobStatus EXCEPT ![<<s, c>>] = InsertedJob(@)]
  /\ UNCHANGED <<connected, current, attemptCount, leaseOwner, lapsed, cooling,
                 attemptStatus, usageVars, scan, procVars>>

\* SELECT ... LEFT JOIN document_versions ... FOR UPDATE OF source.  The join
\* is taken from the statement's snapshot; the rows are locked after it, and a
\* row that changed meanwhile is re-read while the joined version is not.
\* Bound: one purge statement at a time.
PurgeSelect ==
  /\ \A s \in Sources : scan[s] = NotSeen
  /\ \E s \in Sources : sourceState[s] # "absent"
  /\ scan' = [s \in Sources |->
                IF sourceState[s] = "absent" THEN NotSeen ELSE current[s]]
  /\ UNCHANGED <<connected, sourceVars, versionState, jobVars, usageVars, procVars>>

\* extracted_bytes of the joined version, NULL when the pointer has moved on.
BytesJoined(s) ==
  IF current[s] # NoContent /\ scan[s] = current[s] THEN Size[current[s]] ELSE 0

\* What the counter still holds for s afterwards: GREATEST(extracted_bytes - x, 0).
ChargedAfterPurge(s) ==
  IF charged[s] >= BytesJoined(s) THEN charged[s] - BytesJoined(s) ELSE 0

\* Defective: every purged source is subtracted, indexed or not.
CountAfterPurgeOfAll(T) ==
  IF indexedCount >= Cardinality(T) THEN indexedCount - Cardinality(T) ELSE 0

\* indexed_source_count counts the re-read pointers, never below zero.
CountAfterPurge(T) ==
  LET n == Cardinality(T \cap Indexed)
  IN IF indexedCount >= n THEN indexedCount - n ELSE 0

\* The rest of the transaction for the selected sources T that are not deleted.
\* tombstone, tombstone_gmail_message and the two reconciliations differ only in
\* which sources they select.  A leased job is left to its holder.
PurgeCommit(T) ==
  /\ T # {}
  /\ \A s \in T : scan[s] # NotSeen /\ sourceState[s] # "deleted"
  /\ generation < MaxGeneration
  /\ sourceState' = [s \in Sources |-> IF s \in T THEN "deleted" ELSE sourceState[s]]
  /\ current' = [s \in Sources |-> IF s \in T THEN NoContent ELSE current[s]]
  /\ versionState' = [v \in Versions |-> IF v[1] \in T THEN "none" ELSE versionState[v]]
  /\ jobStatus' = [v \in Versions |->
       IF v[1] \in T /\ jobStatus[v] \in {"pending", "retry_wait"}
       THEN "failed" ELSE jobStatus[v]]
  /\ cooling' = {v \in cooling : v[1] \notin T}
  /\ indexedCount' = CountAfterPurge(T)
  /\ charged' = [s \in Sources |-> IF s \in T THEN ChargedAfterPurge(s) ELSE charged[s]]
  /\ generation' = generation + 1
  /\ scan' = [s \in Sources |-> NotSeen]
  /\ UNCHANGED <<connected, sourceHash, attemptCount, leaseOwner, lapsed,
                 attemptStatus, procVars>>

\* Every selected source was already deleted, or no longer qualifies.
PurgeNothing ==
  /\ \E s \in Sources : scan[s] # NotSeen
  /\ scan' = [s \in Sources |-> NotSeen]
  /\ UNCHANGED <<connected, sourceVars, versionState, jobVars, usageVars, procVars>>

\* A sync that cannot authenticate leaves the connection
\* 'reauthorization_required'; a new OAuth round trip makes it active again.
ConnectionChange ==
  /\ connected' = ~connected
  /\ UNCHANGED <<sourceVars, versionState, jobVars, usageVars, scan, procVars>>

-----------------------------------------------------------------------------
(* The queue: app.claim_index_job.                                          *)

\* Defective: the sweep takes a lease that has not expired for lapsed.
ExhaustedUnlapsed(v) == jobStatus[v] = "leased" /\ attemptCount[v] >= MaxAttempts

Exhausted(v) == v \in lapsed /\ attemptCount[v] >= MaxAttempts

\* Defective: no limit on attempts; an expired lease is not taken.
RunnableForever(v) ==
  \/ jobStatus[v] = "pending"
  \/ jobStatus[v] = "retry_wait" /\ v \notin cooling
  \/ v \in lapsed
RunnableNotLapsed(v) ==
  /\ attemptCount[v] < MaxAttempts
  /\ \/ jobStatus[v] = "pending"
     \/ jobStatus[v] = "retry_wait" /\ v \notin cooling

\* The WHERE clause of the claim.
Runnable(v) ==
  /\ attemptCount[v] < MaxAttempts
  /\ \/ jobStatus[v] = "pending"
     \/ jobStatus[v] = "retry_wait" /\ v \notin cooling
     \/ v \in lapsed

\* UPDATE app.job_attempts ... WHERE attempt_number = n AND status = 'running'.
CloseAttempt(log, n, outcome) ==
  [k \in 1..MaxAttempts |-> IF k = n /\ log[k] = "running" THEN outcome ELSE log[k]]

\* What a claim leaves in job v's row before it selects: an exhausted lease
\* becomes a dead letter.  The version of that job is not touched.
SweptStatus(v) == IF Exhausted(v) THEN "dead_letter" ELSE jobStatus[v]
SweptOwner(v) == IF Exhausted(v) THEN NoWorker ELSE leaseOwner[v]
SweptAttempts(v) ==
  IF Exhausted(v)
  THEN CloseAttempt(attemptStatus[v], attemptCount[v], "permanent_failure")
  ELSE attemptStatus[v]

\* Defective: the attempt of the lapsed lease stays running.
ClaimedAttemptsOnly(v) == [attemptStatus[v] EXCEPT ![attemptCount[v] + 1] = "running"]

\* The attempts of the selected job: the lapsed one is closed, a new one runs.
ClaimedAttempts(v) ==
  LET log == IF jobStatus[v] = "leased"
             THEN CloseAttempt(attemptStatus[v], attemptCount[v], "lease_expired")
             ELSE attemptStatus[v]
  IN [log EXCEPT ![attemptCount[v] + 1] = "running"]

\* Process p leases job v.  ORDER BY priority, available_at, created_at is
\* abstracted to any runnable job.
Claim(p, v) ==
  /\ pc[p] = "idle"
  /\ Runnable(v)
  /\ jobStatus' = [w \in Versions |-> IF w = v THEN "leased" ELSE SweptStatus(w)]
  /\ leaseOwner' = [w \in Versions |-> IF w = v THEN WorkerId[p] ELSE SweptOwner(w)]
  /\ attemptStatus' = [w \in Versions |->
                         IF w = v THEN ClaimedAttempts(v) ELSE SweptAttempts(w)]
  /\ attemptCount' = [attemptCount EXCEPT ![v] = @ + 1]
  /\ lapsed' = {w \in lapsed : w # v /\ ~Exhausted(w)}
  /\ pc' = [pc EXCEPT ![p] = "claimed"]
  /\ claimed' = [claimed EXCEPT ![p] = v]
  /\ claimNumber' = [claimNumber EXCEPT ![p] = attemptCount[v] + 1]
  /\ UNCHANGED <<connected, sourceVars, versionState, cooling, usageVars, scan>>

\* Nothing is runnable: the claim still buries the exhausted leases.
ClaimNothing(p) ==
  /\ pc[p] = "idle"
  /\ \E v \in Versions : Exhausted(v)
  /\ \A v \in Versions : ~Runnable(v)
  /\ jobStatus' = [v \in Versions |-> SweptStatus(v)]
  /\ leaseOwner' = [v \in Versions |-> SweptOwner(v)]
  /\ attemptStatus' = [v \in Versions |-> SweptAttempts(v)]
  /\ lapsed' = {v \in lapsed : ~Exhausted(v)}
  /\ UNCHANGED <<connected, sourceVars, versionState, attemptCount, cooling,
                 usageVars, scan, procVars>>

\* lease_expires_at passes.
LeaseExpires(v) ==
  /\ jobStatus[v] = "leased" /\ v \notin lapsed
  /\ lapsed' = lapsed \cup {v}
  /\ UNCHANGED <<connected, sourceVars, versionState, jobStatus, attemptCount,
                 leaseOwner, cooling, attemptStatus, usageVars, scan, procVars>>

\* available_at passes.
BecomesAvailable(v) ==
  /\ v \in cooling
  /\ cooling' = cooling \ {v}
  /\ UNCHANGED <<connected, sourceVars, versionState, jobStatus, attemptCount,
                 leaseOwner, lapsed, attemptStatus, usageVars, scan, procVars>>

-----------------------------------------------------------------------------
(* The worker: IndexingRuntime.run_once after a claim.                      *)

\* Defective: the owner of the lease is not compared.
HoldsAnyLease(p) == jobStatus[claimed[p]] = "leased"

\* status = 'leased' AND lease_owner = worker_id: all that load_pending, promote
\* and fail ask of the job row.  The attempt number is not compared.
HoldsLease(p) ==
  /\ jobStatus[claimed[p]] = "leased"
  /\ leaseOwner[claimed[p]] = WorkerId[p]

\* load_pending; a row that is not there raises RuntimeError.
Load(p) ==
  /\ pc[p] = "claimed"
  /\ pc' = [pc EXCEPT ![p] =
       IF HoldsLease(p) /\ versionState[claimed[p]] = "pending"
       THEN "loaded" ELSE "broken"]
  /\ UNCHANGED <<connected, sourceVars, versionState, jobVars, usageVars, scan,
                 claimed, claimNumber>>

\* prepare raises IndexingError on this version.
Reject(p) ==
  /\ pc[p] = "loaded"
  /\ claimed[p] \in Unindexable
  /\ pc' = [pc EXCEPT ![p] = "rejected"]
  /\ UNCHANGED <<connected, sourceVars, versionState, jobVars, usageVars, scan,
                 claimed, claimNumber>>

\* Defective: the fingerprints of the source are not compared again.
PromotionOfStaleInput(p) ==
  LET v == claimed[p] IN
  /\ HoldsLease(p)
  /\ v \notin lapsed
  /\ versionState[v] = "pending"
  /\ sourceState[v[1]] = "active"

\* The locking SELECT of promote finds a row.
PromotionAllowed(p) ==
  LET v == claimed[p] IN
  /\ HoldsLease(p)
  /\ v \notin lapsed
  /\ versionState[v] = "pending"
  /\ sourceState[v[1]] = "active"
  /\ sourceHash[v[1]] = v[2]

\* ck_workspace_usage_sources lets the counter take the new value.
WithinQuota(s) == current[s] = NoContent => indexedCount < MaxIndexed

\* Defective: the previous version stays ready.
PromotedVersionsOnly(v) == [versionState EXCEPT ![v] = "ready"]

\* Every version row after v became current: the old ready one is superseded.
PromotedVersions(v) ==
  [w \in Versions |->
     IF w = v THEN "ready"
     ELSE IF w = <<v[1], current[v[1]]>> /\ versionState[w] = "ready" THEN "superseded"
     ELSE versionState[w]]

\* Defective: bytes are charged when a source is first indexed, not when replaced.
ChargedOnFirst(s, c) == IF current[s] = NoContent THEN Size[c] ELSE 0

\* extracted_bytes += prepared.extracted_bytes - old_bytes.
ChargedDelta(s, c) ==
  Size[c] - (IF current[s] = NoContent THEN 0 ELSE Size[current[s]])

Promote(p) ==
  LET v == claimed[p]
      s == v[1]
  IN
  /\ pc[p] = "loaded"
  /\ v \notin Unindexable
  /\ PromotionAllowed(p)
  /\ WithinQuota(s)
  /\ versionState' = PromotedVersions(v)
  /\ current' = [current EXCEPT ![s] = v[2]]
  /\ indexedCount' = IF current[s] = NoContent THEN indexedCount + 1
                     ELSE indexedCount
  /\ charged' = [charged EXCEPT ![s] = @ + ChargedDelta(s, v[2])]
  /\ generation' = generation + 1
  /\ attemptStatus' = [attemptStatus EXCEPT ![v] =
                         CloseAttempt(@, claimNumber[p], "succeeded")]
  /\ jobStatus' = [jobStatus EXCEPT ![v] = "completed"]
  /\ leaseOwner' = [leaseOwner EXCEPT ![v] = NoWorker]
  /\ pc' = [pc EXCEPT ![p] = "idle"]
  /\ claimed' = [claimed EXCEPT ![p] = NoClaim]
  /\ claimNumber' = [claimNumber EXCEPT ![p] = 0]
  /\ UNCHANGED <<connected, sourceState, sourceHash, attemptCount, lapsed, cooling, scan>>

\* The transaction raised and rolled back: lost lease, stale input or quota.
PromoteRaises(p) ==
  /\ pc[p] = "loaded"
  /\ claimed[p] \notin Unindexable
  /\ ~(PromotionAllowed(p) /\ WithinQuota(claimed[p][1]))
  /\ pc' = [pc EXCEPT ![p] = "broken"]
  /\ UNCHANGED <<connected, sourceVars, versionState, jobVars, usageVars, scan,
                 claimed, claimNumber>>

\* Any other exception on the way: a lost connection, a deadlock victim.
Break(p) ==
  /\ pc[p] \in {"claimed", "loaded"}
  /\ pc' = [pc EXCEPT ![p] = "broken"]
  /\ UNCHANGED <<connected, sourceVars, versionState, jobVars, usageVars, scan,
                 claimed, claimNumber>>

\* jobs.status after fail(retryable).
FailureStatus(v, retryable) ==
  IF retryable
  THEN IF attemptCount[v] < MaxAttempts THEN "retry_wait" ELSE "dead_letter"
  ELSE "failed"

\* fail() on a lease p holds, without asking whether it has expired.
RecordFailure(p, retryable) ==
  LET v == claimed[p]
      status == FailureStatus(v, retryable)
      outcome == IF status = "retry_wait" THEN "retryable_failure" ELSE "permanent_failure"
  IN
  /\ jobStatus' = [jobStatus EXCEPT ![v] = status]
  /\ leaseOwner' = [leaseOwner EXCEPT ![v] = NoWorker]
  /\ lapsed' = lapsed \ {v}
  /\ cooling' = IF status = "retry_wait" THEN cooling \cup {v} ELSE cooling
  /\ attemptStatus' = [attemptStatus EXCEPT ![v] =
                         CloseAttempt(@, claimNumber[p], outcome)]
  /\ versionState' = [versionState EXCEPT ![v] =
       IF status # "retry_wait" /\ @ = "pending" THEN "failed" ELSE @]

\* except IndexingError: the failure is recorded and the worker goes on;
\* except Exception: it is recorded and re-raised, which ends the process.
Fail(p) ==
  /\ pc[p] \in {"rejected", "broken"}
  /\ IF HoldsLease(p)
       THEN RecordFailure(p, pc[p] = "broken")
       ELSE UNCHANGED <<versionState, jobStatus, leaseOwner, lapsed, cooling, attemptStatus>>
  /\ pc' = [pc EXCEPT ![p] = IF @ = "broken" THEN "down" ELSE "idle"]
  /\ claimed' = [claimed EXCEPT ![p] = NoClaim]
  /\ claimNumber' = [claimNumber EXCEPT ![p] = 0]
  /\ UNCHANGED <<connected, sourceVars, attemptCount, usageVars, scan>>

\* The process dies with a claim in hand; nothing is recorded.
Crash(p) ==
  /\ pc[p] \in {"claimed", "loaded", "rejected", "broken"}
  /\ pc' = [pc EXCEPT ![p] = "down"]
  /\ claimed' = [claimed EXCEPT ![p] = NoClaim]
  /\ claimNumber' = [claimNumber EXCEPT ![p] = 0]
  /\ UNCHANGED <<connected, sourceVars, versionState, jobVars, usageVars, scan>>

\* The deployment replaces a worker that ended.
Restart(p) ==
  /\ pc[p] = "down"
  /\ pc' = [pc EXCEPT ![p] = "idle"]
  /\ UNCHANGED <<connected, sourceVars, versionState, jobVars, usageVars, scan,
                 claimed, claimNumber>>

-----------------------------------------------------------------------------

\* What a live worker process does by itself.
RunOnce(p) ==
  \/ \E v \in Versions : Claim(p, v)
  \/ ClaimNothing(p)
  \/ Load(p)
  \/ Reject(p)
  \/ Promote(p)
  \/ PromoteRaises(p)
  \/ Fail(p)

Clock == \E v \in Versions : LeaseExpires(v) \/ BecomesAvailable(v)

Connector ==
  \/ \E s \in Sources, c \in Contents : Enqueue(s, c)
  \/ PurgeSelect
  \/ \E T \in SUBSET Sources : PurgeCommit(T)
  \/ PurgeNothing
  \/ ConnectionChange

Next ==
  \/ \E p \in Procs : RunOnce(p) \/ Break(p) \/ Crash(p) \/ Restart(p)
  \/ Clock
  \/ Connector

Spec == Init /\ [][Next]_vars

\* Some worker that can go on goes on, a stopped one being replaced, and time
\* passes. Nothing is assumed of a single worker, of the connector, of crashes or
\* of exceptions.
Fairness ==
  /\ WF_vars(\E p \in Procs : RunOnce(p) \/ Restart(p))
  /\ WF_vars(Clock)

FairSpec == Spec /\ Fairness

==============================================================================
