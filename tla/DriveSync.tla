------------------------------ MODULE DriveSync ------------------------------
(***************************************************************************)
(* The full scan of one Drive connection: a walk of the folder tree in     *)
(* which every job of app.jobs reads one page of one folder, the marks the *)
(* walk leaves on app.sources, and the reconciliation job that ends it and *)
(* purges what carries no mark of the walk.                                *)
(*                                                                         *)
(* An attempt of the initial job draws a new run id (uuid4).  Every other  *)
(* job id is uuid5 of the run or of the parent job and a step, so a job is *)
(* the sequence of steps that leads to it, and ON CONFLICT DO NOTHING is   *)
(* "the sequence exists".                                                  *)
(***************************************************************************)
EXTENDS Integers, Sequences, FiniteSets

CONSTANTS
  Files, Folders,  \* positions in the provider's listing order
  Tree,            \* where each of them is when the connection is made
  Downloads,       \* files whose content is downloaded or exported
  Procs,           \* worker processes, each its own worker_id
  PageSize,        \* DRIVE_PAGE_SIZE
  MaxAttempts,     \* app.jobs.max_attempts
  MaxMoves,        \* bound: changes of the tree
  MaxStalls,       \* bound: leases that lapse under a worker still at work
  MaxGrants,       \* bound: authorizations after the first
  Gone, NoWorker

Top == 0           \* the selected root folder
NoRun == 0         \* run ids are 1, 2, ...
Items == Files \cup Folders
Places == Folders \cup {Top, Gone}

ASSUME DriveSyncAssumption ==
  /\ Items \subseteq Nat \ {0}
  /\ IsFiniteSet(Items)
  /\ Files \cap Folders = {}
  /\ Downloads \subseteq Files
  /\ Gone \notin Nat
  /\ Tree \in [Items -> Places]
  /\ \A S \in SUBSET Items : S # {} => \E i \in S : Tree[i] \notin S
  /\ \A i \in Items : Tree[i] \in Folders => Tree[Tree[i]] # Gone
  /\ NoWorker \notin Procs
  /\ PageSize \in Nat \ {0}
  /\ MaxAttempts \in Nat \ {0}
  /\ {MaxMoves, MaxStalls, MaxGrants} \subseteq Nat

VARIABLES
  parent,       \* Drive: the folder an item is in, or Gone
  moved,        \* Drive: items that were moved or removed
  connection,   \* connections.status
  sourceState,  \* sources.state, "absent" before the first enqueue
  mark,         \* sources.provider_sync_marker
  jobs,         \* rows of app.jobs, by steps
  lapsed,       \* leased jobs whose lease_expires_at has passed
  work,         \* the locals of each worker's run_once
  runs,         \* run ids drawn so far
  stalls,       \* leases that lapsed under a worker still at work
  grants        \* authorizations after the first

drive == <<parent, moved>>
index == <<sourceState, mark>>
counters == <<runs, stalls, grants>>
vars == <<drive, connection, index, jobs, lapsed, work, counters>>

Steps == [kind : {"folder", "page", "reconcile"}, run : Nat, at : Nat]
Root == <<>>
FolderJob(run, d) == <<[kind |-> "folder", run |-> run, at |-> d]>>
PageJob(j, token) == Append(j, [kind |-> "page", run |-> NoRun, at |-> token])
ReconcileJob(run) == <<[kind |-> "reconcile", run |-> run, at |-> Top]>>

\* payload.drive_sync_run_id and the decrypted payload.drive_progress, which the
\* initial job has none of; token 0 is "no page token".
NewJob(run, folder, token) ==
  [run |-> run, folder |-> folder, token |-> token, status |-> "pending",
   owner |-> NoWorker, attempts |-> 0]

IsReconcile(j) == j # Root /\ j[1].kind = "reconcile"

\* INSERT INTO app.jobs ... ON CONFLICT DO NOTHING.
Insert(js, new) ==
  [j \in DOMAIN js \cup DOMAIN new |-> IF j \in DOMAIN js THEN js[j] ELSE new[j]]

Idle == [stage |-> "idle", job |-> Root, run |-> NoRun, todo |-> {}, seen |-> {},
         children |-> {}, next |-> 0]

\* Sources of files that were removed after an earlier scan are still active.
Init ==
  /\ parent = Tree
  /\ moved = {}
  /\ connection = "active"
  /\ sourceState = [f \in Files |-> IF Tree[f] = Gone THEN "active" ELSE "absent"]
  /\ mark = [f \in Files |-> NoRun]
  /\ jobs = [j \in {Root} |-> NewJob(NoRun, Top, 0)]
  /\ lapsed = {}
  /\ work = [p \in Procs |-> Idle]
  /\ runs = 0
  /\ stalls = 0
  /\ grants = 0

-----------------------------------------------------------------------------
(* Drive.                                                                   *)

\* An item with everything in it, at any depth.
Subtree(i) ==
  {k \in Items : \A S \in SUBSET Items :
     (i \in S /\ \A m \in Items : parent[m] \in S => m \in S) => k \in S}

\* A file is moved to another folder, or an item is removed; a removed folder
\* takes what is in it along.
TreeChanges ==
  /\ Cardinality(moved) < MaxMoves
  /\ \E i \in Items, to \in Places :
       /\ parent[i] # Gone
       /\ to # parent[i]
       /\ i \in Folders => to = Gone
       /\ to \in Folders => parent[to] # Gone
       /\ parent' = [k \in Items |-> IF k \in Subtree(i) THEN to ELSE parent[k]]
       /\ moved' = moved \cup Subtree(i)
  /\ UNCHANGED <<connection, index, jobs, lapsed, work, counters>>

-----------------------------------------------------------------------------
(* The lease: app.claim_drive_sync_job, load, and the passing of time.      *)

Exhausted(j) == j \in lapsed /\ jobs[j].attempts >= MaxAttempts

\* Jobs after the sweep that dead-letters the exhausted ones.
Swept == [j \in DOMAIN jobs |->
            IF Exhausted(j)
              THEN [jobs[j] EXCEPT !.status = "dead_letter", !.owner = NoWorker]
              ELSE jobs[j]]

\* Defective: a lapsed job is taken over however often it was tried.
RunnableForever(j) ==
  /\ connection = "active"
  /\ jobs[j].status \in {"pending", "retry_wait"} \/ j \in lapsed

\* Whether available_at has come is left open: a claim need not happen.
Runnable(j) ==
  /\ connection = "active"
  /\ jobs[j].attempts < MaxAttempts
  /\ jobs[j].status \in {"pending", "retry_wait"} \/ j \in lapsed

Claim(p, j) ==
  /\ work[p].stage = "idle"
  /\ Runnable(j)
  /\ jobs' = [Swept EXCEPT ![j].status = "leased", ![j].owner = p, ![j].attempts = @ + 1]
  /\ lapsed' = {i \in lapsed : ~Exhausted(i)} \ {j}
  /\ work' = [work EXCEPT ![p] = [Idle EXCEPT !.stage = "claimed", !.job = j]]
  /\ UNCHANGED <<drive, connection, index, counters>>

\* Nothing is runnable, or nothing is available yet.
ClaimNothing(p) ==
  /\ work[p].stage = "idle"
  /\ jobs' = Swept
  /\ lapsed' = {i \in lapsed : ~Exhausted(i)}
  /\ UNCHANGED <<drive, connection, index, work, counters>>

Owns(p) == LET j == work[p].job
           IN jobs[j].status = "leased" /\ jobs[j].owner = p

HoldsLease(p) == Owns(p) /\ work[p].job \notin lapsed

\* load, ensure_fresh and save_credentials: all of them ask for an active
\* connection, and load for the lease.
Load(p) ==
  /\ work[p].stage = "claimed"
  /\ HoldsLease(p)
  /\ connection = "active"
  /\ work' = [work EXCEPT ![p].stage = "loaded"]
  /\ UNCHANGED <<drive, connection, index, jobs, lapsed, counters>>

Working(j) == \E p \in Procs : work[p].stage # "idle" /\ work[p].job = j /\ Owns(p)

LeaseExpires(j) ==
  /\ jobs[j].status = "leased"
  /\ j \notin lapsed
  /\ Working(j) => stalls < MaxStalls
  /\ lapsed' = lapsed \cup {j}
  /\ stalls' = IF Working(j) THEN stalls + 1 ELSE stalls
  /\ UNCHANGED <<drive, connection, index, jobs, work, runs, grants>>

-----------------------------------------------------------------------------
(* One page of one folder.                                                  *)

\* children_page: the children of the folder in listing order from the page
\* token; a folder that is gone has none.  Without progress this is the first
\* page of a new scan.
ListPage(p) ==
  LET job == jobs[work[p].job]
      rest == {i \in Items : parent[i] = job.folder /\ i > job.token}
      page == {i \in rest : Cardinality({k \in rest : k <= i}) <= PageSize}
  IN /\ work[p].stage = "loaded"
     /\ ~IsReconcile(work[p].job)
     /\ runs' = IF job.run = NoRun THEN runs + 1 ELSE runs
     /\ work' = [work EXCEPT
          ![p].stage = "writing",
          ![p].run = IF job.run = NoRun THEN runs + 1 ELSE job.run,
          ![p].todo = page \cap Files,
          ![p].seen = page \cap Files,
          ![p].children = page \cap Folders,
          ![p].next = IF page = rest THEN 0
                      ELSE CHOOSE i \in page : \A k \in page : k <= i]
     /\ UNCHANGED <<drive, connection, index, jobs, lapsed, stalls, grants>>

\* _document and IndexRepository.enqueue of one file.  A download that is too
\* large still gives a document; one of a removed file is an error.
Enqueue(p, f) ==
  /\ f \in work[p].todo
  /\ f \in Downloads => parent[f] # Gone
  /\ connection = "active"
  /\ sourceState' = [sourceState EXCEPT ![f] = "active"]
  /\ work' = [work EXCEPT ![p].todo = @ \ {f}]
  /\ UNCHANGED <<drive, connection, mark, jobs, lapsed, counters>>

\* Defective: the files of the last page of a folder keep their old mark.
MarkedBeforeNextPage(p) == IF work[p].next = 0 THEN {} ELSE work[p].seen

Marked(p) == work[p].seen

\* mark_provider_sync_seen raises unless every file of the page is active.
MarkSeen(p) ==
  /\ work[p].stage = "writing"
  /\ work[p].todo = {}
  /\ \A f \in work[p].seen : sourceState[f] = "active"
  /\ mark' = [f \in Files |-> IF f \in Marked(p) THEN work[p].run ELSE mark[f]]
  /\ work' = [work EXCEPT ![p].stage = "marked"]
  /\ UNCHANGED <<drive, connection, sourceState, jobs, lapsed, counters>>

FolderRows(p) ==
  [i \in {FolderJob(work[p].run, d) : d \in work[p].children} |->
     NewJob(work[p].run, i[1].at, 0)]

PageRows(p) ==
  [i \in IF work[p].next = 0 THEN {} ELSE {PageJob(work[p].job, work[p].next)} |->
     NewJob(work[p].run, jobs[work[p].job].folder, work[p].next)]

\* Defective: a page with folders on it forgets its next page.
ScheduledFoldersFirst(p) == IF work[p].children = {} THEN PageRows(p) ELSE FolderRows(p)

\* The jobs a page asks for: one per folder on it, and one for the next page.
Scheduled(p) == Insert(FolderRows(p), PageRows(p))

\* End job j of the rows js, in status s.
End(js, j, s) == [js EXCEPT ![j].status = s, ![j].owner = NoWorker]

OfRun(js, run) == {j \in DOMAIN js : js[j].run = run}

\* Defective: a job that waits for its retry is not counted as active.
EndedButForRetries(js, run) ==
  \A j \in OfRun(js, run) : js[j].status \in {"completed", "retry_wait"}

\* No job of the run is active and none has failed.
WalkEnded(js, run) == \A j \in OfRun(js, run) : js[j].status = "completed"

\* Defective: the rows are counted before this page's own job is completed.
FinishedRowsUncounted(p) ==
  LET inserted == Insert(jobs, Scheduled(p))
      run == work[p].run
      reconcile == [j \in {ReconcileJob(run)} |-> NewJob(run, Top, 0)]
  IN End(IF WalkEnded(inserted, run) THEN Insert(inserted, reconcile) ELSE inserted,
         work[p].job, "completed")

\* The rows after finish_page: children inserted, this job completed, and the
\* reconciliation inserted if that ended the walk.
FinishedRows(p) ==
  LET ended == End(Insert(jobs, Scheduled(p)), work[p].job, "completed")
      run == work[p].run
      reconcile == [j \in {ReconcileJob(run)} |-> NewJob(run, Top, 0)]
  IN IF WalkEnded(ended, run) THEN Insert(ended, reconcile) ELSE ended

\* finish_page, one transaction under the advisory lock of the run.
FinishPage(p) ==
  /\ work[p].stage = "marked"
  /\ HoldsLease(p)
  /\ jobs' = FinishedRows(p)
  /\ work' = [work EXCEPT ![p] = Idle]
  /\ UNCHANGED <<drive, connection, index, lapsed, counters>>

-----------------------------------------------------------------------------
(* The reconciliation job.                                                  *)

\* reconcile_drive_full_sync, in a transaction of its own.
Reconcile(p) ==
  LET run == jobs[work[p].job].run
      absent == {f \in Files : sourceState[f] = "active" /\ mark[f] # run}
  IN /\ work[p].stage = "loaded"
     /\ IsReconcile(work[p].job)
     /\ sourceState' = [f \in Files |-> IF f \in absent THEN "deleted" ELSE sourceState[f]]
     /\ mark' = [f \in Files |-> IF f \in absent THEN NoRun ELSE mark[f]]
     /\ work' = [work EXCEPT ![p].stage = "reconciled"]
     /\ UNCHANGED <<drive, connection, jobs, lapsed, counters>>

\* complete_reconciliation; a connection that is not active any more leaves the
\* job leased.
CompleteReconciliation(p) ==
  /\ work[p].stage = "reconciled"
  /\ HoldsLease(p)
  /\ jobs' = IF connection = "active" THEN End(jobs, work[p].job, "completed") ELSE jobs
  /\ work' = [work EXCEPT ![p] = Idle]
  /\ UNCHANGED <<drive, connection, index, lapsed, counters>>

-----------------------------------------------------------------------------
(* Failure, crash, authorization.                                           *)

\* Defective: the number of attempts is not asked for.
FailedForever(j, retryable) == IF retryable THEN "retry_wait" ELSE "failed"

FailedStatus(j, retryable) ==
  IF ~retryable THEN "failed"
  ELSE IF jobs[j].attempts < MaxAttempts THEN "retry_wait" ELSE "dead_letter"

\* fail, which asks for the owner but not for the expiry.  Drive's permanent
\* errors come only while Drive is being called, for a page or for a file, and one
\* of them asks for a new grant.
Fail(p, retryable, reauthorization) ==
  LET j == work[p].job
  IN /\ work[p].stage # "idle"
     /\ ~retryable => /\ ~IsReconcile(j)
                      /\ work[p].stage = "loaded" \/ work[p].todo # {}
     /\ reauthorization => ~retryable
     /\ IF Owns(p)
          THEN /\ jobs' = End(jobs, j, FailedStatus(j, retryable))
               /\ lapsed' = lapsed \ {j}
               /\ connection' = IF reauthorization THEN "reauthorization_required"
                                ELSE connection
          ELSE UNCHANGED <<jobs, lapsed, connection>>
     /\ work' = [work EXCEPT ![p] = Idle]
     /\ UNCHANGED <<drive, index, counters>>

\* The process ends and a new one starts in its place.
Crash(p) ==
  /\ work[p].stage # "idle"
  /\ work' = [work EXCEPT ![p] = Idle]
  /\ UNCHANGED <<drive, connection, index, jobs, lapsed, counters>>

\* save_connection for an account that is already connected: _queue_initial_sync
\* makes the initial job pending again, whatever it was.
Reauthorize ==
  /\ grants < MaxGrants
  /\ grants' = grants + 1
  /\ connection' = "active"
  /\ jobs' = [jobs EXCEPT ![Root] = NewJob(NoRun, Top, 0)]
  /\ lapsed' = lapsed \ {Root}
  /\ UNCHANGED <<drive, index, work, runs, stalls>>

-----------------------------------------------------------------------------
\* What a worker does of itself: claim, and bring the job at hand to an end.
Progress(p) ==
  \/ \E j \in DOMAIN jobs : Claim(p, j)
  \/ Load(p)
  \/ ListPage(p)
  \/ \E f \in Files : Enqueue(p, f)
  \/ MarkSeen(p)
  \/ FinishPage(p)
  \/ Reconcile(p)
  \/ CompleteReconciliation(p)
  \/ \E retryable, reauthorization \in BOOLEAN : Fail(p, retryable, reauthorization)

Next ==
  \/ TreeChanges
  \/ Reauthorize
  \/ \E j \in DOMAIN jobs : LeaseExpires(j)
  \/ \E p \in Procs :
       \/ Progress(p)
       \/ ClaimNothing(p)
       \/ Crash(p)

Spec == Init /\ [][Next]_vars

\* The worker loop polls for ever and a lease lapses by itself.
Sweep(p) == ClaimNothing(p) /\ jobs' # jobs

Fairness ==
  /\ \A p \in Procs : WF_vars(Progress(p)) /\ WF_vars(Sweep(p))
  /\ WF_vars(\E j \in DOMAIN jobs : ~Working(j) /\ LeaseExpires(j))

FairSpec == Spec /\ Fairness

=============================================================================
