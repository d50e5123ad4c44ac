------------------------- MODULE DriveSyncProperties -------------------------
(***************************************************************************)
(* What a full scan of Drive should guarantee.                             *)
(***************************************************************************)
EXTENDS DriveSync

JobIds == Seq(Steps)
Jobs == [run : Nat, folder : Nat, token : Nat,
         status : {"pending", "leased", "retry_wait", "completed", "failed", "dead_letter"},
         owner : Procs \cup {NoWorker},
         attempts : 0 .. MaxAttempts]
Locals == [stage : {"idle", "claimed", "loaded", "writing", "marked", "reconciled"},
           job : JobIds, run : Nat, todo : SUBSET Files, seen : SUBSET Files,
           children : SUBSET Folders, next : Nat]

\* The type invariant of the tree, the jobs, the sources and the workers.
TypeOK ==
  /\ parent \in [Items -> Places]
  /\ moved \subseteq Items
  /\ connection \in {"active", "reauthorization_required"}
  /\ sourceState \in [Files -> {"absent", "active", "deleted"}]
  /\ mark \in [Files -> Nat]
  /\ DOMAIN jobs \subseteq JobIds
  /\ \A j \in DOMAIN jobs : jobs[j] \in Jobs
  /\ lapsed \subseteq {j \in DOMAIN jobs : jobs[j].status = "leased"}
  /\ work \in [Procs -> Locals]
  /\ \A p \in Procs : work[p].job \in DOMAIN jobs
  /\ runs \in Nat
  /\ stalls \in 0 .. MaxStalls
  /\ grants \in 0 .. MaxGrants

\* The deletion barrier: once the reconciliation of a scan is queued, no page of
\* that scan is active or has failed, and none becomes so, whatever crashes,
\* retries and stalled workers did before and do after.
NoReconcileBeforeWalkEnds ==
  \A run \in 1 .. runs :
    ReconcileJob(run) \in DOMAIN jobs =>
      \A j \in OfRun(jobs, run) \ {ReconcileJob(run)} : jobs[j].status = "completed"

Reconciled == \E j \in DOMAIN jobs : IsReconcile(j) /\ jobs[j].status = "completed"

\* When a scan has been reconciled the index is what Drive holds, but for files
\* that were moved while it ran: no page, folder or retry lost a file, and files
\* removed before the scan are no longer searchable.  (One authorization, and no
\* lease that lapsed under a working process.)
ReconciledIndexIsDrive ==
  (stalls = 0 /\ grants = 0 /\ Reconciled) =>
    \A f \in Files \ moved :
      sourceState[f] = IF parent[f] = Gone THEN "deleted" ELSE "active"

\* Nothing that is still where it was is purged by a scan on its way either.
UnmovedFilesStay ==
  (stalls = 0 /\ grants = 0) =>
    \A f \in Files \ moved : parent[f] # Gone => sourceState[f] # "deleted"

Broken == \E j \in DOMAIN jobs : jobs[j].status \in {"failed", "dead_letter"}

\* A scan comes to an end: it is reconciled, or a job of it has visibly failed, or
\* the connection asks for a new authorization.  The last page to finish always
\* notices that it is the last.
ScanComesToAnEnd == <>(Reconciled \/ Broken \/ connection # "active")

-----------------------------------------------------------------------------
(* The queue implements the abstract one. *)

Row(job) ==
  [state |-> CASE job.status \in {"pending", "retry_wait"} -> "waiting"
               [] job.status = "leased" -> "leased"
               [] OTHER -> "ended",
   tries |-> job.attempts,
   holder |-> IF job.status = "leased" THEN {job.owner} ELSE {}]

JobQueue == [j \in DOMAIN jobs |-> Row(jobs[j])]

Hands == [p \in Procs |-> IF work[p].stage = "idle" THEN {} ELSE {work[p].job}]

Leases == INSTANCE LeaseQueue
            WITH Workers <- Procs, Name <- [p \in Procs |-> p],
                 MaxTries <- MaxAttempts, Renewable <- {Root},
                 queue <- JobQueue, late <- lapsed, hand <- Hands

\* Every step is a step of the abstract queue or invisible to it: a page is
\* decided by the worker that holds it, its successors and the reconciliation
\* appear as it ends, and only the initial job ever starts again
\* (sync/drive_runtime.py, SQL/0007).
QueueImplementation == Leases!Spec

-----------------------------------------------------------------------------
(* A documented promise the code does not keep.                             *)

\* Reconciliation purges files that are absent from Drive, and no others.
PurgesOnlyAbsentFiles ==
  [][\A f \in Files :
       sourceState[f] = "active" /\ sourceState'[f] = "deleted" => parent[f] = Gone]_vars

=============================================================================
