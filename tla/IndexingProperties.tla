------------------------- MODULE IndexingProperties --------------------------
(***************************************************************************)
(* What the indexing pipeline must keep true whatever the interleaving of  *)
(* connector transactions, claims, workers, crashes and lease expiries.    *)
(***************************************************************************)
EXTENDS Indexing

TypeOK ==
  /\ connected \in BOOLEAN
  /\ sourceState \in [Sources -> SourceStates]
  /\ sourceHash \in [Sources -> Contents \cup {NoContent}]
  /\ current \in [Sources -> Contents \cup {NoContent}]
  /\ versionState \in [Versions -> VersionStates]
  /\ jobStatus \in [Versions -> JobStatuses]
  /\ attemptCount \in [Versions -> 0..MaxAttempts]
  /\ leaseOwner \in [Versions -> Workers \cup {NoWorker}]
  /\ lapsed \subseteq Versions
  /\ cooling \subseteq Versions
  /\ attemptStatus \in [Versions -> [1..MaxAttempts -> AttemptStatuses]]
  /\ indexedCount \in Nat
  /\ charged \in [Sources -> Nat]
  /\ generation \in Nat
  /\ scan \in [Sources -> Contents \cup {NoContent, NotSeen}]
  /\ pc \in [Procs -> PCs]
  /\ claimed \in [Procs -> Versions \cup {NoClaim}]
  /\ claimNumber \in [Procs -> 0..MaxAttempts]

-----------------------------------------------------------------------------
(* The searchable state. *)

\* The pointer of a source and the states of its versions agree: the version a
\* source points to is the one ready version it has, and only an active source
\* points to one.  Search joins sources, versions and chunks through both.
PointerIsReady ==
  /\ \A s \in Indexed : sourceState[s] = "active" /\ <<s, current[s]>> \in Versions
  /\ \A v \in Versions : versionState[v] = "ready" <=> current[v[1]] = v[2]

\* The quota counter equals the number of sources that have a current version,
\* although a purge computes its delta from rows it selected before locking.
CountExact == indexedCount = Cardinality(Indexed)

\* The byte counter never holds less for a source than its active content: no
\* interleaving of promotions and purges lets a tenant grow past its quota unseen.
NeverUndercharged ==
  \A s \in Indexed : charged[s] >= Size[current[s]]

\* 04_DATABASE_SCHEMA.md: promotion, replacement and deletion apply the correct
\* delta to active extracted bytes in the transaction of the visible change.
BytesExact ==
  \A s \in Sources :
    charged[s] = (IF current[s] = NoContent THEN 0 ELSE Size[current[s]])

-----------------------------------------------------------------------------
(* The queue. *)

\* The attempt log tells the truth about the lease: a job that is leased has
\* exactly its latest attempt running, a job that is not has none running.
RunningIffLeased ==
  \A v \in Versions, n \in 1..MaxAttempts :
    attemptStatus[v][n] = "running" <=> jobStatus[v] = "leased" /\ n = attemptCount[v]

\* A completed job has one succeeded attempt, its last; no other job has any.
SucceededIffCompleted ==
  \A v \in Versions, n \in 1..MaxAttempts :
    attemptStatus[v][n] = "succeeded" <=> jobStatus[v] = "completed" /\ n = attemptCount[v]

\* A worker that still matches a lease is the worker of its latest attempt, so a
\* late promote or fail can never land on the attempt of somebody else.
LeaseMatchesClaim ==
  \A p \in Procs :
    claimed[p] # NoClaim /\ HoldsLease(p) => claimNumber[p] = attemptCount[claimed[p]]

\* 07_INDEXING_PIPELINE.md: on failure the pending version is marked failed.  A
\* dead letter leaves no version that looks as if it were still to be indexed.
DeadLetterFailsVersion ==
  \A v \in Versions : jobStatus[v] = "dead_letter" => versionState[v] # "pending"

-----------------------------------------------------------------------------
(* Steps. *)

\* A job that ended never runs again, and an attempt is never reopened: the
\* states are monotonic except for the retry loop.
QueueMonotonic ==
  [][\A v \in Versions :
       /\ jobStatus[v] \in Terminal => jobStatus'[v] = jobStatus[v]
       /\ attemptCount'[v] >= attemptCount[v]
       /\ \A n \in 1..MaxAttempts :
            attemptStatus[v][n] \notin {"none", "running"}
              => attemptStatus'[v][n] = attemptStatus[v][n]]_vars

\* A lease that has not expired is not taken over: a new attempt starts only
\* when the job waits or its lease has lapsed.
LeaseNotStolen ==
  [][\A v \in Versions :
       attemptCount'[v] > attemptCount[v] => jobStatus[v] # "leased" \/ v \in lapsed]_vars

\* 07_INDEXING_PIPELINE.md: before the pointer changes, the transaction verifies
\* that the connection is active.
PromotesOnlyConnected ==
  [][\A s \in Sources :
       current'[s] # current[s] /\ current'[s] # NoContent => connected]_vars

\* 07_INDEXING_PIPELINE.md: a changed source receives one index job.  Whatever
\* the provider last reported for an active source is shown, has been given up
\* on, or has a job that can still run.
NothingStranded ==
  \A s \in Sources :
    sourceState[s] = "active" =>
      LET v == <<s, sourceHash[s]>> IN
      \/ current[s] = sourceHash[s]
      \/ versionState[v] = "failed"
      \/ jobStatus[v] \in Queued \cup {"dead_letter"}

\* Every index job ends, whatever crashes, expires or is withdrawn meanwhile: there
\* comes a time from which on none is queued, leased or waiting for a retry.
JobsSettle == <>[](\A v \in Versions : jobStatus[v] \notin Queued)

-----------------------------------------------------------------------------
(* The pipeline implements the abstract index. *)

Wanted == [s \in Sources |->
             IF sourceState[s] = "active" THEN sourceHash[s] ELSE NoContent]

Index == INSTANCE SearchIndex
           WITH wanted <- Wanted, shown <- current, count <- indexedCount

\* Every step is one abstract step or invisible: search only ever shows content
\* that was the wanted one when it was published, each publication and removal
\* moves the generation and the counter with it.
Implementation == Index!Spec

-----------------------------------------------------------------------------
(* Its jobs implement the abstract queue. *)

Job(v) ==
  [state |-> CASE jobStatus[v] \in {"pending", "retry_wait"} -> "waiting"
               [] jobStatus[v] = "leased" -> "leased"
               [] OTHER -> "ended",
   tries |-> attemptCount[v],
   holder |-> IF jobStatus[v] = "leased" THEN {leaseOwner[v]} ELSE {}]

JobQueue == [v \in {w \in Versions : jobStatus[w] # "none"} |-> Job(v)]

Hands == [p \in Procs |-> {claimed[p]} \ {NoClaim}]

Leases == INSTANCE LeaseQueue
            WITH Workers <- Procs, Name <- WorkerId,
                 MaxTries <- MaxAttempts, Renewable <- {},
                 queue <- JobQueue, late <- lapsed, hand <- Hands

\* Every step is a step of the abstract queue or invisible to it: an index job is
\* decided by the worker its lease names, or withdrawn while it waits, and never
\* starts again (indexing/repository.py, SQL/0003).
QueueImplementation == Leases!Spec

==============================================================================
