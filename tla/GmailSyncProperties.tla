------------------------- MODULE GmailSyncProperties -------------------------
(***************************************************************************)
(* What the synchronisation of a mailbox should guarantee.                 *)
(***************************************************************************)
EXTENDS GmailSync

JobIds == Seq(Steps)
Jobs == [mode : {"full", "incremental"},
         progress : [history : Nat \cup {NoHistory}, token : Nat,
                     marker : JobIds \cup {NoMarker}],
         status : {"pending", "leased", "retry_wait", "completed", "failed", "dead_letter"},
         owner : Procs \cup {NoWorker},
         attempts : 0 .. MaxAttempts]
Locals == [stage : {"idle", "claimed", "loaded", "writing", "marked", "reconciled"},
           job : JobIds, since : Nat \cup {NoHistory}, todo : SUBSET Messages,
           seen : SUBSET Messages, gone : SUBSET Messages, next : Nat]

\* The type invariant of the connection, its jobs, its sources and the workers.
TypeOK ==
  /\ history \in Seq(Events)
  /\ oldest \in 0 .. Len(history)
  /\ connection \in {"active", "reauthorization_required"}
  /\ sourceState \in [Messages -> {"absent", "active", "deleted"}]
  /\ mark \in [Messages -> JobIds \cup {NoMarker}]
  /\ cursor \in Nat \cup {NoHistory}
  /\ DOMAIN jobs \subseteq JobIds
  /\ \A j \in DOMAIN jobs : jobs[j] \in Jobs
  /\ lapsed \subseteq {j \in DOMAIN jobs : jobs[j].status = "leased"}
  /\ work \in [Procs -> Locals]
  /\ \A p \in Procs : work[p].job \in DOMAIN jobs
  /\ stalls \in 0 .. MaxStalls
  /\ grants \in 0 .. MaxGrants

\* The last history id the cursor vouches for.
Synced == IF cursor = NoHistory THEN 0 ELSE cursor

\* The cursor never passes mail that was never handed to the index: whatever
\* crashes, lapses of leases and repeated authorizations, a message with a change
\* up to the cursor that is still in the mailbox has been enqueued once.
NeverSkipped ==
  \A m \in Touched(0, Synced) \cap Mail :
    cursor # NoHistory => sourceState[m] # "absent"

\* As long as no lease lapsed under a working process and the user authorized
\* once, mail up to the cursor is in the index: no scan, replay or recovery
\* purges what the mailbox still has.
MailIsIndexed ==
  (stalls = 0 /\ grants = 0 /\ cursor # NoHistory) =>
    \A m \in Touched(0, Synced) \cap Mail : sourceState[m] = "active"

Queued == {j \in DOMAIN jobs : jobs[j].status \in {"pending", "leased", "retry_wait"}}

\* Jobs at which the chain of syncs ended for good: dead letters, and failures
\* which scheduled no recovery.
Ended == {j \in DOMAIN jobs :
            \/ jobs[j].status = "dead_letter"
            \/ jobs[j].status = "failed" /\ Recovery(j) \notin DOMAIN jobs}

\* Until the user authorizes again there is exactly one sync to do, or the chain
\* has ended visibly: no stalled or crashed worker forks the chain, and no
\* completed page, poll or recovery loses it.
OneChain == grants = 0 => Cardinality(Queued) + Cardinality(Ended) = 1

\* Until the user authorizes again the cursor only moves forward, although workers
\* whose lease lapsed still hold older history ids.
CursorMovesForward ==
  [][grants' = 0 /\ cursor # NoHistory => cursor' >= cursor]_vars

-----------------------------------------------------------------------------
(* The queue implements the abstract one. *)

Row(job) ==
  [state |-> CASE job.status \in {"pending", "retry_wait"} -> "waiting"
               [] job.status = "leased" -> "leased"
               [] OTHER -> "ended",
   tries |-> job.attempts,
   holder |-> IF job.status = "leased" THEN {job.owner} ELSE {}]

JobQueue == [j \in DOMAIN jobs |-> Row(jobs[j])]

Hands == [p \in Procs |-> IF work[p].stage = "idle" THEN {} ELSE {work[p].job}]

Leases == INSTANCE LeaseQueue
            WITH Workers <- Procs, Name <- [p \in Procs |-> p],
                 MaxTries <- MaxAttempts, Renewable <- {Root},
                 queue <- JobQueue, late <- lapsed, hand <- Hands

\* Every step is a step of the abstract queue or invisible to it: a sync job
\* is decided by the worker that holds it, its successor appears as it ends, and
\* only the initial job ever starts again (sync/repository.py, SQL/0005).
QueueImplementation == Leases!Spec

-----------------------------------------------------------------------------
(* Documented promises the code does not keep.                              *)

\* A completed scan reconciles deletions: mail deleted before the cursor is not
\* searchable (no lapse, one authorization).
DeletedMailIsPurged ==
  (stalls = 0 /\ grants = 0 /\ cursor # NoHistory) =>
    \A m \in Deleted :
      (\E i \in 1 .. cursor : history[i] = [message |-> m, kind |-> "deleted"])
        => sourceState[m] # "active"

\* A failed scan cannot erase mail: a reconciliation that purges something is run
\* by a worker that still holds the scan.
FailedScanErasesNothing ==
  [][\A p \in Procs :
       (/\ work[p].stage = "marked"
        /\ work'[p].stage = "reconciled"
        /\ sourceState' # sourceState) => HoldsLease(p)]_vars

\* When the last page of a full scan completes, an incremental poll is waiting:
\* whatever happened before, the connection goes on being synchronised.
ScanSchedulesPoll ==
  [][\A p \in Procs :
       (/\ work[p].stage = "reconciled"
        /\ work'[p].stage = "idle"
        /\ jobs'[work[p].job].status = "completed"
        /\ jobs' # jobs) => \E j \in Queued' : jobs'[j].mode = "incremental"]_vars

=============================================================================
