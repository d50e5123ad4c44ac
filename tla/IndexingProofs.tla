--------------------------- MODULE IndexingProofs ----------------------------
(***************************************************************************)
(* Machine-checked proofs about Indexing, for every number of sources,     *)
(* contents, worker processes and attempts: the pointers, charges and      *)
(* counters; what a step may do to a job, and that under distinct worker   *)
(* ids leases, attempts and claims agree; and that Indexing implements     *)
(* SearchIndex and, seen through its job table, LeaseQueue.                *)
(***************************************************************************)
EXTENDS IndexingProperties, FiniteSetTheorems, TLAPS

\* A worker between a claim and its end holds a version, any other holds none.
ClaimsInHand ==
  \A p \in Procs : pc[p] \notin {"idle", "down"} <=> claimed[p] # NoClaim

\* lease_owner and lease_expires_at are set exactly while a job is leased, and
\* only a job in retry_wait waits for its available_at.
QueueShape ==
  /\ \A v \in Versions : leaseOwner[v] # NoWorker <=> jobStatus[v] = "leased"
  /\ \A v \in lapsed : jobStatus[v] = "leased"
  /\ \A v \in cooling : jobStatus[v] = "retry_wait"

\* Attempts are numbered from one without gaps: none exists past attempt_count.
NoFutureAttempts ==
  \A v \in Versions, n \in 1..MaxAttempts :
    n > attemptCount[v] => attemptStatus[v][n] = "none"

CoreInv == TypeOK /\ ClaimsInHand /\ QueueShape /\ PointerIsReady
           /\ NeverUndercharged /\ NoFutureAttempts

-----------------------------------------------------------------------------
(* Facts about the constants and the helpers. *)

\* A version is made of a source and a content, and is not the null claim.
LEMMA VersionParts ==
  ASSUME NEW v \in Versions
  PROVE  /\ v[1] \in Sources /\ v[2] \in Contents
         /\ v = <<v[1], v[2]>>
         /\ v[2] # NoContent
         /\ v # NoClaim
  BY IndexingAssumption

\* max_attempts is a number, and an attempt number may be zero before the first.
LEMMA MaxAttemptsNat == MaxAttempts \in Nat /\ 0 \in 0..MaxAttempts
  BY IndexingAssumption

\* Closing an attempt keeps the log well formed and touches a running row only.
LEMMA CloseAttemptFacts ==
  ASSUME NEW log \in [1..MaxAttempts -> AttemptStatuses],
         NEW n, NEW outcome \in AttemptStatuses
  PROVE  /\ CloseAttempt(log, n, outcome) \in [1..MaxAttempts -> AttemptStatuses]
         /\ \A k \in 1..MaxAttempts :
              /\ log[k] # "running" => CloseAttempt(log, n, outcome)[k] = log[k]
              /\ k # n => CloseAttempt(log, n, outcome)[k] = log[k]
              /\ k = n /\ log[k] = "running"
                   => CloseAttempt(log, n, outcome)[k] = outcome
  BY DEF CloseAttempt

\* The logs a claim writes are well formed; only running rows of them change, and
\* the claimed job gains a running row.
LEMMA ClaimLogFacts ==
  ASSUME TypeOK, NEW v \in Versions
  PROVE  /\ SweptAttempts(v) \in [1..MaxAttempts -> AttemptStatuses]
         /\ ClaimedAttempts(v) \in [1..MaxAttempts -> AttemptStatuses]
  BY CloseAttemptFacts DEF TypeOK, SweptAttempts, ClaimedAttempts, AttemptStatuses

-----------------------------------------------------------------------------
(* Every step keeps CoreInv: one lemma per action that changes a table. *)

\* The empty tables satisfy CoreInv.
LEMMA InitCore == Init => CoreInv
<1> SUFFICES ASSUME Init PROVE CoreInv
  OBVIOUS
<1> USE DEF Init
<1>1. TypeOK
  BY IndexingAssumption DEF TypeOK, SourceStates, VersionStates, JobStatuses, Queued,
     Terminal, AttemptStatuses, PCs, Workers
<1>2. ClaimsInHand /\ QueueShape /\ NoFutureAttempts
  BY DEF ClaimsInHand, QueueShape, NoFutureAttempts
<1>3. PointerIsReady /\ NeverUndercharged
  BY VersionParts DEF PointerIsReady, NeverUndercharged, Indexed
<1> QED BY <1>1, <1>2, <1>3 DEF CoreInv

\* An enqueue inserts rows or refreshes the source; it never moves a pointer.
LEMMA EnqueueCore ==
  ASSUME CoreInv, NEW s \in Sources, NEW c \in Contents, Enqueue(s, c)
  PROVE  CoreInv'
<1> USE DEF CoreInv, Enqueue, InsertedJob, usageVars, procVars
<1>1. TypeOK'
  <2>1. versionState' \in [Versions -> VersionStates]
    BY DEF TypeOK, VersionStates
  <2>2. jobStatus' \in [Versions -> JobStatuses]
    BY DEF TypeOK, JobStatuses, Queued, Terminal
  <2>3. sourceState' \in [Sources -> SourceStates]
    BY DEF TypeOK, SourceStates
  <2>4. sourceHash' \in [Sources -> Contents \cup {NoContent}]
    BY DEF TypeOK
  <2> QED
    BY <2>1, <2>2, <2>3, <2>4 DEF TypeOK
<1>2. ClaimsInHand'
  BY DEF ClaimsInHand
<1>3. QueueShape'
  BY DEF QueueShape, TypeOK
<1>4. NoFutureAttempts'
  BY DEF NoFutureAttempts
<1>5. PointerIsReady'
  BY DEF PointerIsReady, TypeOK, Indexed, Unchanged
<1>6. NeverUndercharged'
  BY DEF NeverUndercharged, Indexed
<1> QED BY <1>1, <1>2, <1>3, <1>4, <1>5, <1>6

\* A purge drops pointer and versions of a source together.
LEMMA PurgeCore ==
  ASSUME CoreInv, NEW T \in SUBSET Sources, PurgeCommit(T)
  PROVE  CoreInv'
<1> USE DEF CoreInv, PurgeCommit, procVars
<1>1. TypeOK'
  <2>1. CountAfterPurge(T) \in Nat
    <3>1. Cardinality(T \cap Indexed) \in Nat
      BY IndexingAssumption, FS_Subset, FS_CardinalityType
    <3> QED BY <3>1 DEF CountAfterPurge, TypeOK
  <2>2. \A s \in Sources : ChargedAfterPurge(s) \in Nat
    BY IndexingAssumption DEF ChargedAfterPurge, BytesJoined, TypeOK
  <2> QED
    BY <2>1, <2>2 DEF TypeOK, SourceStates, VersionStates, JobStatuses, Queued, Terminal
<1>2. ClaimsInHand'
  BY DEF ClaimsInHand
<1>3. QueueShape'
  BY DEF QueueShape, TypeOK
<1>4. NoFutureAttempts'
  BY DEF NoFutureAttempts
<1>5. PointerIsReady'
  BY VersionParts DEF PointerIsReady, TypeOK, Indexed
<1>6. NeverUndercharged'
  BY DEF NeverUndercharged, Indexed
<1> QED BY <1>1, <1>2, <1>3, <1>4, <1>5, <1>6

\* A claim starts the next attempt of a runnable job.
LEMMA ClaimCore ==
  ASSUME CoreInv, NEW p \in Procs, NEW v \in Versions, Claim(p, v)
  PROVE  CoreInv'
<1> USE DEF CoreInv, Claim, sourceVars, usageVars
<1>1. attemptCount[v] \in Nat /\ attemptCount[v] + 1 \in 1..MaxAttempts
  BY IndexingAssumption DEF TypeOK, Runnable
<1>2. TypeOK'
  <2>1. \A w \in Versions : SweptStatus(w) \in JobStatuses /\ SweptOwner(w) \in Workers \cup {NoWorker}
    BY DEF TypeOK, SweptStatus, SweptOwner, JobStatuses, Queued, Terminal
  <2>2. WorkerId[p] \in Workers /\ "leased" \in JobStatuses /\ "claimed" \in PCs
    BY DEF Workers, JobStatuses, Queued, PCs
  <2>3. attemptStatus' \in [Versions -> [1..MaxAttempts -> AttemptStatuses]]
    BY ClaimLogFacts
  <2> QED
    BY <1>1, <2>1, <2>2, <2>3 DEF TypeOK
<1>3. ClaimsInHand'
  BY VersionParts DEF ClaimsInHand, TypeOK
<1>4. QueueShape'
  BY IndexingAssumption DEF QueueShape, TypeOK, Runnable, SweptStatus, SweptOwner, Exhausted
<1>5. NoFutureAttempts'
  BY <1>1 DEF NoFutureAttempts, TypeOK, SweptAttempts, ClaimedAttempts, CloseAttempt
<1>6. PointerIsReady'
  BY DEF PointerIsReady, Indexed
<1>7. NeverUndercharged'
  BY DEF NeverUndercharged, Indexed
<1> QED BY <1>2, <1>3, <1>4, <1>5, <1>6, <1>7

\* A claim that selects nothing buries exhausted leases.
LEMMA ClaimNothingCore ==
  ASSUME CoreInv, NEW p \in Procs, ClaimNothing(p)
  PROVE  CoreInv'
<1> USE DEF CoreInv, ClaimNothing, sourceVars, usageVars, procVars
<1>1. TypeOK'
  <2>1. \A w \in Versions : SweptStatus(w) \in JobStatuses /\ SweptOwner(w) \in Workers \cup {NoWorker}
    BY DEF TypeOK, SweptStatus, SweptOwner, JobStatuses, Queued, Terminal
  <2>2. attemptStatus' \in [Versions -> [1..MaxAttempts -> AttemptStatuses]]
    BY ClaimLogFacts
  <2> QED
    BY <2>1, <2>2 DEF TypeOK
<1>2. ClaimsInHand'
  BY DEF ClaimsInHand
<1>3. QueueShape'
  BY DEF QueueShape, TypeOK, SweptStatus, SweptOwner, Exhausted
<1>4. NoFutureAttempts'
  BY DEF NoFutureAttempts, TypeOK, SweptAttempts, CloseAttempt
<1>5. PointerIsReady'
  BY DEF PointerIsReady, Indexed
<1>6. NeverUndercharged'
  BY DEF NeverUndercharged, Indexed
<1> QED BY <1>1, <1>2, <1>3, <1>4, <1>5, <1>6

\* Steps that only move a process between points that hold a claim.
LEMMA ProcStepCore ==
  ASSUME CoreInv, NEW p \in Procs, Load(p) \/ Reject(p) \/ PromoteRaises(p) \/ Break(p)
  PROVE  CoreInv'
<1> USE DEF CoreInv, sourceVars, jobVars, usageVars
<1>1. /\ pc[p] \in {"claimed", "loaded"}
      /\ \E where \in {"loaded", "rejected", "broken"} : pc' = [pc EXCEPT ![p] = where]
      /\ UNCHANGED <<connected, sourceVars, versionState, jobVars, usageVars, scan,
                     claimed, claimNumber>>
  BY DEF Load, Reject, PromoteRaises, Break
<1>2. TypeOK'
  BY <1>1 DEF TypeOK, PCs
<1>3. ClaimsInHand'
  BY <1>1 DEF ClaimsInHand, TypeOK
<1>4. QueueShape' /\ NoFutureAttempts' /\ PointerIsReady' /\ NeverUndercharged'
  BY <1>1 DEF QueueShape, NoFutureAttempts, PointerIsReady, NeverUndercharged, Indexed
<1> QED BY <1>2, <1>3, <1>4

\* A promotion replaces the one ready version of the source by the pending one.
LEMMA PromoteCore ==
  ASSUME CoreInv, NEW p \in Procs, Promote(p)
  PROVE  CoreInv'
<1> DEFINE v == claimed[p]
           s == v[1]
<1> USE DEF CoreInv, Promote
<1>1. v \in Versions
  BY DEF ClaimsInHand, TypeOK
<1>2. s \in Sources /\ v[2] \in Contents /\ v = <<s, v[2]>>
  BY <1>1, VersionParts
<1>3. /\ versionState[v] = "pending" /\ sourceState[s] = "active"
      /\ jobStatus[v] = "leased" /\ v \notin lapsed
  BY DEF PromotionAllowed, HoldsLease
<1>4. ChargedDelta(s, v[2]) \in Int
  BY <1>2, IndexingAssumption DEF ChargedDelta, TypeOK
<1>5. charged[s] + ChargedDelta(s, v[2]) \in Nat
      /\ charged[s] + ChargedDelta(s, v[2]) >= Size[v[2]]
  BY <1>2, <1>4, IndexingAssumption DEF ChargedDelta, TypeOK, NeverUndercharged, Indexed
<1>6. TypeOK'
  <2>1. versionState' \in [Versions -> VersionStates]
    BY DEF PromotedVersions, TypeOK, VersionStates
  <2>2. attemptStatus' \in [Versions -> [1..MaxAttempts -> AttemptStatuses]]
    BY <1>1, CloseAttemptFacts DEF TypeOK, AttemptStatuses
  <2>3. charged' \in [Sources -> Nat] /\ indexedCount' \in Nat /\ generation' \in Nat
    <3>1. charged' = [charged EXCEPT ![s] = charged[s] + ChargedDelta(s, v[2])]
      OBVIOUS
    <3> QED BY <3>1, <1>2, <1>5 DEF TypeOK
  <2>4. /\ current' \in [Sources -> Contents \cup {NoContent}]
        /\ jobStatus' \in [Versions -> JobStatuses]
        /\ leaseOwner' \in [Versions -> Workers \cup {NoWorker}]
    BY <1>2 DEF TypeOK, JobStatuses, Terminal
  <2>5. /\ pc' \in [Procs -> PCs]
        /\ claimed' \in [Procs -> Versions \cup {NoClaim}]
        /\ claimNumber' \in [Procs -> 0..MaxAttempts]
    BY MaxAttemptsNat DEF TypeOK, PCs
  <2> QED BY <2>1, <2>2, <2>3, <2>4, <2>5 DEF TypeOK
<1>7. ClaimsInHand'
  BY DEF ClaimsInHand, TypeOK
<1>8. QueueShape'
  BY <1>3, <1>1 DEF QueueShape, TypeOK
<1>9. NoFutureAttempts'
  BY <1>1 DEF NoFutureAttempts, TypeOK, CloseAttempt
<1>10. PointerIsReady'
  <2>1. \A t \in Indexed' : sourceState'[t] = "active" /\ <<t, current'[t]>> \in Versions
    <3> SUFFICES ASSUME NEW t \in Sources, current'[t] # NoContent
                 PROVE  sourceState'[t] = "active" /\ <<t, current'[t]>> \in Versions
      BY DEF Indexed
    <3>1. CASE t = s
      BY <3>1, <1>1, <1>2, <1>3 DEF TypeOK
    <3>2. CASE t # s
      BY <3>2 DEF PointerIsReady, Indexed, TypeOK
    <3> QED BY <3>1, <3>2
  <2>2. ASSUME NEW w \in Versions
        PROVE  versionState'[w] = "ready" <=> current'[w[1]] = w[2]
    <3>1. w[1] \in Sources /\ w[2] \in Contents /\ w = <<w[1], w[2]>> /\ w[2] # NoContent
      BY VersionParts
    <3>2. CASE w = v
      BY <3>2, <1>1, <1>2 DEF PromotedVersions, TypeOK
    <3>3. CASE w # v /\ w[1] = s
      <4>1. current'[s] = v[2] /\ w[2] # v[2]
        BY <3>1, <3>3, <1>2 DEF TypeOK
      <4>2. versionState[w] = "ready" => w = <<s, current[s]>>
        BY <3>1, <3>3 DEF PointerIsReady
      <4>3. versionState'[w] # "ready"
        BY <4>2, <3>3 DEF PromotedVersions
      <4> QED BY <4>1, <4>3, <3>3
    <3>4. CASE w[1] # s
      <4>1. current'[w[1]] = current[w[1]]
        BY <3>1, <3>4 DEF TypeOK
      <4>2. versionState'[w] = versionState[w]
        BY <3>1, <3>4, <1>2 DEF PromotedVersions
      <4> QED BY <4>1, <4>2 DEF PointerIsReady
    <3> QED BY <3>2, <3>3, <3>4
  <2> QED BY <2>1, <2>2 DEF PointerIsReady
<1>11. NeverUndercharged'
  BY <1>2, <1>5 DEF NeverUndercharged, Indexed, TypeOK
<1> QED BY <1>6, <1>7, <1>8, <1>9, <1>10, <1>11

\* A failure ends an attempt and never touches a ready version.
LEMMA FailCore ==
  ASSUME CoreInv, NEW p \in Procs, Fail(p)
  PROVE  CoreInv'
<1> DEFINE v == claimed[p]
<1> USE DEF CoreInv, Fail, sourceVars, usageVars
<1>1. v \in Versions
  BY DEF ClaimsInHand, TypeOK
<1>2. ASSUME HoldsLease(p) PROVE CoreInv'
  <2> DEFINE retryable == pc[p] = "broken"
             status == FailureStatus(v, retryable)
             outcome == IF status = "retry_wait" THEN "retryable_failure"
                                                 ELSE "permanent_failure"
  <2>1. RecordFailure(p, retryable)
    BY <1>2
  <2>2. jobStatus[v] = "leased"
    BY <1>2 DEF HoldsLease
  <2>3. status \in {"retry_wait", "dead_letter", "failed"} /\ outcome \in AttemptStatuses
    BY DEF FailureStatus, AttemptStatuses
  <2> HIDE DEF status, outcome, retryable
  <2>4. /\ jobStatus' = [jobStatus EXCEPT ![v] = status]
        /\ leaseOwner' = [leaseOwner EXCEPT ![v] = NoWorker]
        /\ lapsed' = lapsed \ {v}
        /\ cooling' = IF status = "retry_wait" THEN cooling \cup {v} ELSE cooling
        /\ attemptStatus' = [attemptStatus EXCEPT ![v] =
                               CloseAttempt(@, claimNumber[p], outcome)]
        /\ versionState' = [versionState EXCEPT ![v] =
             IF status # "retry_wait" /\ @ = "pending" THEN "failed" ELSE @]
    BY <2>1 DEF RecordFailure, status, outcome, retryable
  <2>5. TypeOK'
    <3>1. versionState' \in [Versions -> VersionStates]
      BY <2>4 DEF TypeOK, VersionStates
    <3>2. attemptStatus' \in [Versions -> [1..MaxAttempts -> AttemptStatuses]]
      BY <1>1, <2>3, <2>4, CloseAttemptFacts DEF TypeOK
    <3>3. /\ jobStatus' \in [Versions -> JobStatuses]
          /\ leaseOwner' \in [Versions -> Workers \cup {NoWorker}]
          /\ lapsed' \subseteq Versions /\ cooling' \subseteq Versions
      BY <1>1, <2>3, <2>4 DEF TypeOK, JobStatuses, Queued, Terminal
    <3>4. /\ pc' \in [Procs -> PCs]
          /\ claimed' \in [Procs -> Versions \cup {NoClaim}]
          /\ claimNumber' \in [Procs -> 0..MaxAttempts]
      BY MaxAttemptsNat DEF TypeOK, PCs
    <3> QED BY <3>1, <3>2, <3>3, <3>4 DEF TypeOK
  <2>6. ClaimsInHand'
    BY DEF ClaimsInHand, TypeOK
  <2>7. QueueShape'
    BY <1>1, <2>2, <2>3, <2>4 DEF QueueShape, TypeOK
  <2>8. NoFutureAttempts'
    BY <1>1, <2>4 DEF NoFutureAttempts, TypeOK, CloseAttempt
  <2>9. PointerIsReady'
    BY <1>1, <2>4 DEF PointerIsReady, Indexed, TypeOK
  <2>10. NeverUndercharged'
    BY DEF NeverUndercharged, Indexed
  <2> QED BY <2>5, <2>6, <2>7, <2>8, <2>9, <2>10
<1>3. ASSUME ~HoldsLease(p) PROVE CoreInv'
  <2>1. TypeOK'
    BY <1>3, MaxAttemptsNat DEF TypeOK, PCs
  <2>2. ClaimsInHand'
    BY DEF ClaimsInHand, TypeOK
  <2>3. QueueShape' /\ NoFutureAttempts' /\ PointerIsReady' /\ NeverUndercharged'
    BY <1>3 DEF QueueShape, NoFutureAttempts, PointerIsReady, NeverUndercharged, Indexed
  <2> QED BY <2>1, <2>2, <2>3
<1> QED BY <1>2, <1>3

\* A crash and a restart touch no table.
LEMMA CrashRestartCore ==
  ASSUME CoreInv, NEW p \in Procs, Crash(p) \/ Restart(p)
  PROVE  CoreInv'
<1> USE DEF CoreInv, Crash, Restart, sourceVars, jobVars, usageVars
<1>1. TypeOK'
  BY MaxAttemptsNat DEF TypeOK, PCs
<1>2. ClaimsInHand'
  BY DEF ClaimsInHand, TypeOK
<1>3. QueueShape' /\ NoFutureAttempts' /\ PointerIsReady' /\ NeverUndercharged'
  BY DEF QueueShape, NoFutureAttempts, PointerIsReady, NeverUndercharged, Indexed
<1> QED BY <1>1, <1>2, <1>3

\* Time passes.
LEMMA ClockCore ==
  ASSUME CoreInv, Clock
  PROVE  CoreInv'
<1> USE DEF CoreInv, Clock, LeaseExpires, BecomesAvailable, sourceVars, usageVars, procVars
<1>1. TypeOK'
  BY DEF TypeOK
<1>2. QueueShape'
  BY DEF QueueShape
<1>3. ClaimsInHand' /\ NoFutureAttempts' /\ PointerIsReady' /\ NeverUndercharged'
  BY DEF ClaimsInHand, NoFutureAttempts, PointerIsReady, NeverUndercharged, Indexed
<1> QED BY <1>1, <1>2, <1>3

\* The connector steps that write no source, version or job.
LEMMA QuietConnectorCore ==
  ASSUME CoreInv, PurgeSelect \/ PurgeNothing \/ ConnectionChange
  PROVE  CoreInv'
<1> USE DEF CoreInv, PurgeSelect, PurgeNothing, ConnectionChange, sourceVars, jobVars,
            usageVars, procVars
<1>1. TypeOK'
  BY DEF TypeOK
<1>2. ClaimsInHand' /\ QueueShape' /\ NoFutureAttempts' /\ PointerIsReady' /\ NeverUndercharged'
  BY DEF ClaimsInHand, QueueShape, NoFutureAttempts, PointerIsReady, NeverUndercharged, Indexed
<1> QED BY <1>1, <1>2

\* CoreInv is inductive.
LEMMA NextCore == CoreInv /\ [Next]_vars => CoreInv'
<1> SUFFICES ASSUME CoreInv, [Next]_vars PROVE CoreInv'
  OBVIOUS
<1>1. ASSUME NEW p \in Procs, RunOnce(p) PROVE CoreInv'
  BY <1>1, ClaimCore, ClaimNothingCore, ProcStepCore, PromoteCore, FailCore DEF RunOnce
<1>2. ASSUME NEW p \in Procs, Break(p) \/ Crash(p) \/ Restart(p) PROVE CoreInv'
  BY <1>2, ProcStepCore, CrashRestartCore
<1>3. ASSUME Connector PROVE CoreInv'
  BY <1>3, EnqueueCore, PurgeCore, QuietConnectorCore DEF Connector
<1>4. CASE UNCHANGED vars
  BY <1>4 DEF vars, sourceVars, jobVars, usageVars, procVars, CoreInv, TypeOK, ClaimsInHand,
     QueueShape, NoFutureAttempts, PointerIsReady, NeverUndercharged, Indexed
<1> QED BY <1>1, <1>2, <1>3, <1>4, ClockCore DEF Next

\* CoreInv holds in every reachable state.
LEMMA CoreInvariant == Spec => []CoreInv
  BY InitCore, NextCore, PTL DEF Spec

-----------------------------------------------------------------------------
(* The theorems. *)

\* Every variable keeps its type, whatever the number of processes and attempts.
THEOREM TypeCorrect == Spec => []TypeOK
  BY CoreInvariant, PTL DEF CoreInv

\* enqueue, promote, fail and _purge_sources together keep exactly one ready
\* version behind the pointer of each indexed source and none elsewhere.
THEOREM PointerCorrect == Spec => []PointerIsReady
  BY CoreInvariant, PTL DEF CoreInv

\* The race between a purge's join and a promotion can only leave too many bytes
\* charged, never too few.
THEOREM ChargesSafe == Spec => []NeverUndercharged
  BY CoreInvariant, PTL DEF CoreInv

-----------------------------------------------------------------------------
(* Leases, attempts and claims. *)

\* Every process computes a worker_id of its own: one container each.
WorkersDistinct == \A p, q \in Procs : WorkerId[p] = WorkerId[q] => p = q

LeaseInv == RunningIffLeased /\ SucceededIffCompleted /\ LeaseMatchesClaim

-----------------------------------------------------------------------------
(* What one claim does to the rows of a job. *)

\* A claim buries exhausted leases and changes no other job but its own.
LEMMA SweptFacts ==
  ASSUME CoreInv, NEW w \in Versions, NEW n \in 1..MaxAttempts
  PROVE  /\ ~Exhausted(w) => /\ SweptStatus(w) = jobStatus[w]
                             /\ SweptOwner(w) = leaseOwner[w]
                             /\ SweptAttempts(w)[n] = attemptStatus[w][n]
         /\ Exhausted(w) => /\ jobStatus[w] = "leased"
                            /\ SweptStatus(w) = "dead_letter"
         /\ attemptStatus[w][n] # "running"
              => SweptAttempts(w)[n] = attemptStatus[w][n]
         /\ Exhausted(w) /\ n = attemptCount[w] /\ attemptStatus[w][n] = "running"
              => SweptAttempts(w)[n] = "permanent_failure"
         /\ n # attemptCount[w] => SweptAttempts(w)[n] = attemptStatus[w][n]
<1>1. attemptStatus[w] \in [1..MaxAttempts -> AttemptStatuses]
  BY DEF CoreInv, TypeOK
<1>2. "permanent_failure" \in AttemptStatuses
  BY DEF AttemptStatuses
<1>3. Exhausted(w) => jobStatus[w] = "leased"
  BY DEF CoreInv, QueueShape, Exhausted
<1>4. CASE Exhausted(w)
  BY <1>1, <1>2, <1>3, <1>4, CloseAttemptFacts DEF SweptStatus, SweptAttempts
<1>5. CASE ~Exhausted(w)
  BY <1>5 DEF SweptStatus, SweptOwner, SweptAttempts
<1> QED BY <1>4, <1>5

\* The claimed job: a new attempt runs, the lapsed one is closed, and nothing
\* that had ended is written again.
LEMMA ClaimedFacts ==
  ASSUME CoreInv, NEW v \in Versions, Runnable(v), NEW n \in 1..MaxAttempts
  PROVE  /\ attemptCount[v] + 1 \in 1..MaxAttempts
         /\ ClaimedAttempts(v)[attemptCount[v] + 1] = "running"
         /\ attemptStatus[v][attemptCount[v] + 1] = "none"
         /\ n # attemptCount[v] + 1 /\ n # attemptCount[v]
              => ClaimedAttempts(v)[n] = attemptStatus[v][n]
         /\ n # attemptCount[v] + 1 /\ attemptStatus[v][n] # "running"
              => ClaimedAttempts(v)[n] = attemptStatus[v][n]
         /\ n = attemptCount[v] /\ attemptStatus[v][n] = "running" /\ jobStatus[v] = "leased"
              => ClaimedAttempts(v)[n] = "lease_expired"
         /\ jobStatus[v] \in Queued
         /\ ~Exhausted(v)
<1> USE DEF CoreInv, TypeOK
<1>1. attemptCount[v] + 1 \in 1..MaxAttempts
  BY IndexingAssumption DEF Runnable
<1>2. attemptStatus[v][attemptCount[v] + 1] = "none"
  BY <1>1 DEF NoFutureAttempts
<1>3. jobStatus[v] \in Queued /\ ~Exhausted(v)
  BY IndexingAssumption DEF Runnable, QueueShape, Queued, Exhausted
<1>4. CloseAttempt(attemptStatus[v], attemptCount[v], "lease_expired")
        \in [1..MaxAttempts -> AttemptStatuses]
  BY CloseAttemptFacts DEF AttemptStatuses
<1> QED
  BY <1>1, <1>2, <1>3, <1>4 DEF ClaimedAttempts, CloseAttempt

-----------------------------------------------------------------------------
(* LeaseInv is inductive relative to CoreInv. *)

\* Nothing is claimed at first.
LEMMA InitLease == Init => LeaseInv
  BY DEF Init, LeaseInv, RunningIffLeased, SucceededIffCompleted, LeaseMatchesClaim

\* A step that leaves jobs and attempts alone and no process with another claim
\* keeps LeaseInv.
LEMMA QuietLease ==
  ASSUME LeaseInv, UNCHANGED <<jobStatus, attemptCount, leaseOwner, attemptStatus>>,
         \A p \in Procs : \/ claimed'[p] = NoClaim
                          \/ claimed'[p] = claimed[p] /\ claimNumber'[p] = claimNumber[p]
  PROVE  LeaseInv'
  BY DEF LeaseInv, RunningIffLeased, SucceededIffCompleted, LeaseMatchesClaim, HoldsLease

\* So does one that neither leases nor completes a job nor takes that back.
LEMMA SameStatusLease ==
  ASSUME CoreInv, LeaseInv,
         \A v \in Versions : /\ jobStatus'[v] = "leased" <=> jobStatus[v] = "leased"
                             /\ jobStatus'[v] = "completed" <=> jobStatus[v] = "completed",
         UNCHANGED <<attemptCount, leaseOwner, attemptStatus, claimed, claimNumber>>
  PROVE  LeaseInv'
<1>1. \A p \in Procs : claimed[p] # NoClaim => claimed[p] \in Versions
  BY DEF CoreInv, TypeOK
<1> QED
  BY <1>1 DEF LeaseInv, RunningIffLeased, SucceededIffCompleted, LeaseMatchesClaim, HoldsLease

\* The connector never touches a lease.
LEMMA ConnectorLease ==
  ASSUME CoreInv, LeaseInv, Connector
  PROVE  LeaseInv'
<1>1. ASSUME NEW s \in Sources, NEW c \in Contents, Enqueue(s, c)
      PROVE  LeaseInv'
  <2>1. \A v \in Versions : /\ jobStatus'[v] = "leased" <=> jobStatus[v] = "leased"
                            /\ jobStatus'[v] = "completed" <=> jobStatus[v] = "completed"
    BY <1>1 DEF Enqueue, InsertedJob, CoreInv, TypeOK
  <2>2. UNCHANGED <<attemptCount, leaseOwner, attemptStatus, claimed, claimNumber>>
    BY <1>1 DEF Enqueue, procVars
  <2> QED
    BY <2>1, <2>2, SameStatusLease
<1>2. ASSUME NEW T \in SUBSET Sources, PurgeCommit(T)
      PROVE  LeaseInv'
  <2>1. \A v \in Versions : /\ jobStatus'[v] = "leased" <=> jobStatus[v] = "leased"
                            /\ jobStatus'[v] = "completed" <=> jobStatus[v] = "completed"
    BY <1>2 DEF PurgeCommit
  <2>2. UNCHANGED <<attemptCount, leaseOwner, attemptStatus, claimed, claimNumber>>
    BY <1>2 DEF PurgeCommit, procVars
  <2> QED
    BY <2>1, <2>2, SameStatusLease
<1>3. ASSUME PurgeSelect \/ PurgeNothing \/ ConnectionChange
      PROVE  LeaseInv'
  BY <1>3, QuietLease DEF PurgeSelect, PurgeNothing, ConnectionChange, jobVars, procVars
<1> QED
  BY <1>1, <1>2, <1>3 DEF Connector

\* A claim moves the lease and starts the attempt in one step.
LEMMA ClaimLease ==
  ASSUME CoreInv, LeaseInv, WorkersDistinct,
         NEW p \in Procs, NEW v \in Versions, Claim(p, v)
  PROVE  LeaseInv'
<1> USE DEF CoreInv, Claim
<1>1. Runnable(v) /\ attemptCount[v] + 1 \in 1..MaxAttempts /\ attemptCount[v] \in Nat
  BY ClaimedFacts, MaxAttemptsNat, IndexingAssumption DEF TypeOK, Runnable
<1>2. /\ jobStatus'[v] = "leased" /\ leaseOwner'[v] = WorkerId[p]
      /\ attemptCount'[v] = attemptCount[v] + 1
      /\ attemptStatus'[v] = ClaimedAttempts(v)
  BY DEF TypeOK
<1>3. ASSUME NEW w \in Versions, w # v
      PROVE  /\ jobStatus'[w] = SweptStatus(w) /\ leaseOwner'[w] = SweptOwner(w)
             /\ attemptCount'[w] = attemptCount[w]
             /\ attemptStatus'[w] = SweptAttempts(w)
  BY <1>3 DEF TypeOK
<1>4. RunningIffLeased'
  <2> SUFFICES ASSUME NEW w \in Versions, NEW n \in 1..MaxAttempts
               PROVE  attemptStatus'[w][n] = "running"
                        <=> jobStatus'[w] = "leased" /\ n = attemptCount'[w]
    BY DEF RunningIffLeased
  <2>1. CASE w = v
    BY <2>1, <1>1, <1>2, ClaimedFacts DEF LeaseInv, RunningIffLeased
  <2>2. CASE w # v
    BY <2>2, <1>3, SweptFacts DEF LeaseInv, RunningIffLeased
  <2> QED BY <2>1, <2>2
<1>5. SucceededIffCompleted'
  <2> SUFFICES ASSUME NEW w \in Versions, NEW n \in 1..MaxAttempts
               PROVE  attemptStatus'[w][n] = "succeeded"
                        <=> jobStatus'[w] = "completed" /\ n = attemptCount'[w]
    BY DEF SucceededIffCompleted
  <2>1. CASE w = v
    BY <2>1, <1>1, <1>2, ClaimedFacts
       DEF LeaseInv, RunningIffLeased, SucceededIffCompleted, Queued
  <2>2. CASE w # v
    BY <2>2, <1>3, SweptFacts DEF LeaseInv, RunningIffLeased, SucceededIffCompleted
  <2> QED BY <2>1, <2>2
<1>6. LeaseMatchesClaim'
  <2> SUFFICES ASSUME NEW q \in Procs, claimed'[q] # NoClaim, HoldsLease(q)'
               PROVE  claimNumber'[q] = attemptCount'[claimed'[q]]
    BY DEF LeaseMatchesClaim
  <2>1. CASE q = p
    BY <2>1, <1>2 DEF TypeOK
  <2>2. CASE q # p
    <3>1. claimed'[q] = claimed[q] /\ claimNumber'[q] = claimNumber[q]
      BY <2>2 DEF TypeOK
    <3>2. claimed[q] \in Versions
      BY <3>1 DEF TypeOK
    <3>3. claimed[q] # v
      BY <3>1, <2>2, <1>2 DEF WorkersDistinct, HoldsLease
    <3>4. HoldsLease(q)
      BY <3>1, <3>2, <3>3, <1>3, SweptFacts DEF HoldsLease, SweptStatus, SweptOwner
    <3> QED
      BY <3>1, <3>2, <3>3, <3>4, <1>3 DEF LeaseInv, LeaseMatchesClaim
  <2> QED BY <2>1, <2>2
<1> QED BY <1>4, <1>5, <1>6 DEF LeaseInv

\* A claim that finds nothing may still bury exhausted leases.
LEMMA ClaimNothingLease ==
  ASSUME CoreInv, LeaseInv, NEW p \in Procs, ClaimNothing(p)
  PROVE  LeaseInv'
<1> USE DEF ClaimNothing, procVars
<1>1. \A w \in Versions : /\ jobStatus'[w] = SweptStatus(w)
                          /\ leaseOwner'[w] = SweptOwner(w)
                          /\ attemptCount'[w] = attemptCount[w]
                          /\ attemptStatus'[w] = SweptAttempts(w)
  OBVIOUS
<1>2. RunningIffLeased' /\ SucceededIffCompleted'
  BY <1>1, SweptFacts DEF LeaseInv, RunningIffLeased, SucceededIffCompleted
<1>3. LeaseMatchesClaim'
  <2> SUFFICES ASSUME NEW q \in Procs, claimed'[q] # NoClaim, HoldsLease(q)'
               PROVE  claimNumber'[q] = attemptCount'[claimed'[q]]
    BY DEF LeaseMatchesClaim
  <2>1. claimed[q] \in Versions
    BY DEF CoreInv, TypeOK
  <2>2. HoldsLease(q)
    BY <1>1, <2>1, SweptFacts DEF HoldsLease, SweptStatus, SweptOwner
  <2> QED BY <1>1, <2>1, <2>2 DEF LeaseInv, LeaseMatchesClaim
<1> QED BY <1>2, <1>3 DEF LeaseInv

\* A process that ends its attempt with the lease in hand: the running attempt,
\* which is its own, gets an outcome, and the job leaves the lease.
LEMMA EndedAttemptLease ==
  ASSUME CoreInv, LeaseInv, NEW p \in Procs, NEW status, NEW outcome,
         claimed[p] # NoClaim, HoldsLease(p),
         outcome \in AttemptStatuses \ {"running"}, status \notin {"leased"},
         status = "completed" <=> outcome = "succeeded",
         jobStatus' = [jobStatus EXCEPT ![claimed[p]] = status],
         attemptCount' = attemptCount,
         leaseOwner' = [leaseOwner EXCEPT ![claimed[p]] = NoWorker],
         attemptStatus' = [attemptStatus EXCEPT ![claimed[p]] =
                             CloseAttempt(@, claimNumber[p], outcome)],
         claimed' = [claimed EXCEPT ![p] = NoClaim],
         claimNumber' = [claimNumber EXCEPT ![p] = 0]
  PROVE  LeaseInv'
<1> DEFINE v == claimed[p]
<1> USE DEF CoreInv, TypeOK
<1>1. v \in Versions /\ jobStatus[v] = "leased" /\ claimNumber[p] = attemptCount[v]
  BY DEF LeaseInv, LeaseMatchesClaim, HoldsLease
<1>2. jobStatus'[v] = status
  BY <1>1
<1>3. \A w \in Versions : w # v => jobStatus'[w] = jobStatus[w]
                                   /\ attemptStatus'[w] = attemptStatus[w]
                                   /\ leaseOwner'[w] = leaseOwner[w]
  BY <1>1
<1>4. \A n \in 1..MaxAttempts :
        attemptStatus'[v][n] = IF n = attemptCount[v] THEN outcome ELSE attemptStatus[v][n]
  BY <1>1 DEF CloseAttempt, LeaseInv, RunningIffLeased
<1>5. RunningIffLeased'
  BY <1>1, <1>2, <1>3, <1>4 DEF LeaseInv, RunningIffLeased
<1>6. SucceededIffCompleted'
  BY <1>1, <1>2, <1>3, <1>4 DEF LeaseInv, SucceededIffCompleted
<1>7. LeaseMatchesClaim'
  <2> SUFFICES ASSUME NEW q \in Procs, claimed'[q] # NoClaim, HoldsLease(q)'
               PROVE  claimNumber'[q] = attemptCount'[claimed'[q]]
    BY DEF LeaseMatchesClaim
  <2>1. q # p /\ claimed'[q] = claimed[q] /\ claimNumber'[q] = claimNumber[q]
    OBVIOUS
  <2>2. claimed[q] \in Versions /\ claimed[q] # v
    BY <2>1, <1>2 DEF HoldsLease
  <2> QED
    BY <2>1, <2>2, <1>3 DEF LeaseInv, LeaseMatchesClaim, HoldsLease
<1> QED BY <1>5, <1>6, <1>7 DEF LeaseInv

\* A recorded failure ends the attempt of the lease it holds, or changes nothing.
LEMMA FailLease ==
  ASSUME CoreInv, LeaseInv, NEW p \in Procs, Fail(p)
  PROVE  LeaseInv'
<1>1. CASE HoldsLease(p)
  <2> DEFINE status == FailureStatus(claimed[p], pc[p] = "broken")
             outcome == IF status = "retry_wait" THEN "retryable_failure"
                                                 ELSE "permanent_failure"
  <2>1. status \in {"retry_wait", "dead_letter", "failed"}
    BY DEF FailureStatus
  <2>2. claimed[p] # NoClaim
    BY DEF Fail, CoreInv, ClaimsInHand
  <2>3. /\ jobStatus' = [jobStatus EXCEPT ![claimed[p]] = status]
        /\ leaseOwner' = [leaseOwner EXCEPT ![claimed[p]] = NoWorker]
        /\ attemptStatus' = [attemptStatus EXCEPT ![claimed[p]] =
                               CloseAttempt(@, claimNumber[p], outcome)]
        /\ claimed' = [claimed EXCEPT ![p] = NoClaim]
        /\ claimNumber' = [claimNumber EXCEPT ![p] = 0]
        /\ attemptCount' = attemptCount
    BY <1>1 DEF Fail, RecordFailure
  <2> HIDE DEF status
  <2>4. /\ outcome \in AttemptStatuses \ {"running"} /\ status \notin {"leased"}
        /\ status = "completed" <=> outcome = "succeeded"
    BY <2>1 DEF AttemptStatuses
  <2> HIDE DEF outcome
  <2> QED BY <1>1, <2>2, <2>3, <2>4, EndedAttemptLease
<1>2. CASE ~HoldsLease(p)
  BY <1>2, QuietLease DEF Fail, CoreInv, TypeOK
<1> QED BY <1>1, <1>2

\* A promotion ends the attempt of the lease it holds.
LEMMA PromoteLease ==
  ASSUME CoreInv, LeaseInv, NEW p \in Procs, Promote(p)
  PROVE  LeaseInv'
<1>1. claimed[p] # NoClaim
  BY DEF Promote, CoreInv, ClaimsInHand
<1>2. HoldsLease(p)
  BY DEF Promote, PromotionAllowed
<1> DEFINE status == "completed"
           outcome == "succeeded"
<1>3. /\ outcome \in AttemptStatuses \ {"running"} /\ status \notin {"leased"}
      /\ status = "completed" <=> outcome = "succeeded"
  BY DEF AttemptStatuses
<1>4. /\ jobStatus' = [jobStatus EXCEPT ![claimed[p]] = status]
      /\ leaseOwner' = [leaseOwner EXCEPT ![claimed[p]] = NoWorker]
      /\ attemptStatus' = [attemptStatus EXCEPT ![claimed[p]] =
                             CloseAttempt(@, claimNumber[p], outcome)]
      /\ claimed' = [claimed EXCEPT ![p] = NoClaim]
      /\ claimNumber' = [claimNumber EXCEPT ![p] = 0]
      /\ attemptCount' = attemptCount
  BY DEF Promote
<1> HIDE DEF status, outcome
<1> QED
  BY <1>1, <1>2, <1>3, <1>4, EndedAttemptLease

\* Every step keeps LeaseInv.
LEMMA NextLease ==
  WorkersDistinct /\ CoreInv /\ LeaseInv /\ [Next]_vars => LeaseInv'
<1> SUFFICES ASSUME WorkersDistinct, CoreInv, LeaseInv, [Next]_vars PROVE LeaseInv'
  OBVIOUS
<1>1. ASSUME NEW p \in Procs, Load(p) \/ Reject(p) \/ PromoteRaises(p) \/ Break(p) \/ Restart(p)
      PROVE  LeaseInv'
  BY <1>1, QuietLease DEF Load, Reject, PromoteRaises, Break, Restart, jobVars
<1>2. ASSUME NEW p \in Procs, Crash(p) PROVE LeaseInv'
  BY <1>2, QuietLease DEF Crash, jobVars, CoreInv, TypeOK
<1>3. ASSUME NEW p \in Procs, RunOnce(p) PROVE LeaseInv'
  BY <1>1, <1>3, ClaimLease, ClaimNothingLease, PromoteLease, FailLease DEF RunOnce
<1>4. CASE Clock
  BY <1>4, QuietLease DEF Clock, LeaseExpires, BecomesAvailable, procVars
<1>5. CASE UNCHANGED vars
  BY <1>5, QuietLease DEF vars, jobVars, procVars
<1> QED
  BY <1>1, <1>2, <1>3, <1>4, <1>5, ConnectorLease DEF Next

\* LeaseInv holds in every reachable state.
LEMMA LeaseInvariant == WorkersDistinct => (Spec => []LeaseInv)
<1> SUFFICES ASSUME WorkersDistinct PROVE Spec => []LeaseInv
  OBVIOUS
<1>1. Init => LeaseInv
  BY InitLease
<1>2. CoreInv /\ LeaseInv /\ [Next]_vars => LeaseInv'
  BY NextLease
<1> QED BY <1>1, <1>2, CoreInvariant, PTL DEF Spec

-----------------------------------------------------------------------------
(* What a step may do to a job. *)

\* Rows of the attempt log that have ended stay as they are.
LogGrows(v) ==
  \A n \in 1..MaxAttempts :
    attemptStatus[v][n] \notin {"none", "running"}
      => attemptStatus'[v][n] = attemptStatus[v][n]

\* A step keeps job v where it ended, counts its attempts upwards, and starts a
\* new one only if the job waits or its lease has lapsed.
JobStep(v) ==
  /\ jobStatus[v] \in Terminal => jobStatus'[v] = jobStatus[v]
  /\ attemptCount'[v] >= attemptCount[v]
  /\ LogGrows(v)
  /\ attemptCount'[v] > attemptCount[v] => jobStatus[v] # "leased" \/ v \in lapsed

\* Rows that are not written satisfy it.
LEMMA UnchangedJob ==
  ASSUME CoreInv, NEW v \in Versions,
         jobStatus'[v] = jobStatus[v], attemptCount'[v] = attemptCount[v],
         attemptStatus'[v] = attemptStatus[v]
  PROVE  JobStep(v)
<1>1. attemptCount[v] \in Int
  BY IndexingAssumption DEF CoreInv, TypeOK
<1> QED BY <1>1 DEF JobStep, LogGrows

\* The connector inserts jobs and cancels waiting ones.
LEMMA ConnectorJob ==
  ASSUME CoreInv, Connector, NEW v \in Versions
  PROVE  JobStep(v)
<1>1. attemptCount[v] \in Int
  BY IndexingAssumption DEF CoreInv, TypeOK
<1>2. attemptCount' = attemptCount /\ attemptStatus' = attemptStatus
  BY DEF Connector, Enqueue, PurgeSelect, PurgeCommit, PurgeNothing, ConnectionChange, jobVars
<1>3. jobStatus[v] \in Terminal => jobStatus'[v] = jobStatus[v]
  <2>1. ASSUME NEW s \in Sources, NEW c \in Contents, Enqueue(s, c)
        PROVE  jobStatus[v] \in Terminal => jobStatus'[v] = jobStatus[v]
    BY <2>1 DEF Enqueue, InsertedJob, Terminal, CoreInv, TypeOK
  <2>2. ASSUME NEW T \in SUBSET Sources, PurgeCommit(T)
        PROVE  jobStatus[v] \in Terminal => jobStatus'[v] = jobStatus[v]
    BY <2>2 DEF PurgeCommit, Terminal
  <2>3. ASSUME PurgeSelect \/ PurgeNothing \/ ConnectionChange
        PROVE  jobStatus'[v] = jobStatus[v]
    BY <2>3 DEF PurgeSelect, PurgeNothing, ConnectionChange, jobVars
  <2> QED BY <2>1, <2>2, <2>3 DEF Connector
<1> QED BY <1>1, <1>2, <1>3 DEF JobStep, LogGrows

\* What the sweep of a claim does to a job that is not claimed.
LEMMA SweptJob ==
  ASSUME CoreInv, NEW v \in Versions,
         jobStatus'[v] = SweptStatus(v), attemptCount'[v] = attemptCount[v],
         attemptStatus'[v] = SweptAttempts(v)
  PROVE  JobStep(v)
<1>1. attemptCount[v] \in Int
  BY IndexingAssumption DEF CoreInv, TypeOK
<1>2. jobStatus[v] \in Terminal => jobStatus'[v] = jobStatus[v]
  BY DEF SweptStatus, Exhausted, CoreInv, QueueShape, Terminal
<1>3. LogGrows(v)
  BY SweptFacts DEF LogGrows
<1> QED BY <1>1, <1>2, <1>3 DEF JobStep

\* The claimed job was waiting or lapsed; the buried ones had lapsed.
LEMMA ClaimJob ==
  ASSUME CoreInv, NEW p \in Procs, NEW w \in Versions, Claim(p, w), NEW v \in Versions
  PROVE  JobStep(v)
<1>1. attemptCount[v] \in Int
  BY IndexingAssumption DEF CoreInv, TypeOK
<1>2. CASE v = w
  <2>1. Runnable(v) /\ attemptCount'[v] = attemptCount[v] + 1
        /\ attemptStatus'[v] = ClaimedAttempts(v)
    BY <1>2 DEF Claim, CoreInv, TypeOK
  <2>2. LogGrows(v)
    BY <2>1, ClaimedFacts DEF LogGrows
  <2>3. jobStatus[v] \notin Terminal
    BY <2>1 DEF Runnable, QueueShape, CoreInv, Terminal
  <2>4. jobStatus[v] # "leased" \/ v \in lapsed
    BY <2>1 DEF Runnable
  <2> QED BY <1>1, <2>1, <2>2, <2>3, <2>4 DEF JobStep
<1>3. CASE v # w
  <2>1. jobStatus'[v] = SweptStatus(v) /\ attemptCount'[v] = attemptCount[v]
        /\ attemptStatus'[v] = SweptAttempts(v)
    BY <1>3 DEF Claim, CoreInv, TypeOK
  <2> QED BY <1>1, <2>1, SweptJob
<1> QED BY <1>2, <1>3

\* A process writes only the job it holds the lease of, and closes a running row.
LEMMA WorkerJob ==
  ASSUME CoreInv, NEW p \in Procs, Promote(p) \/ Fail(p), NEW v \in Versions
  PROVE  JobStep(v)
<1>1. attemptCount[v] \in Int /\ attemptCount' = attemptCount
  BY IndexingAssumption DEF CoreInv, TypeOK, Promote, Fail
<1>2. attemptStatus[v] \in [1..MaxAttempts -> AttemptStatuses]
  BY DEF CoreInv, TypeOK
<1>3. CASE Promote(p)
  <2>1. jobStatus[claimed[p]] = "leased"
    BY <1>3 DEF Promote, PromotionAllowed, HoldsLease
  <2>2. v # claimed[p] => jobStatus'[v] = jobStatus[v] /\ attemptStatus'[v] = attemptStatus[v]
    BY <1>3 DEF Promote, CoreInv, TypeOK
  <2>3. v = claimed[p] =>
          attemptStatus'[v] = CloseAttempt(attemptStatus[v], claimNumber[p], "succeeded")
    BY <1>3 DEF Promote, CoreInv, TypeOK
  <2>4. LogGrows(v)
    BY <1>2, <2>2, <2>3 DEF LogGrows, CloseAttempt
  <2> QED BY <1>1, <2>1, <2>2, <2>4 DEF JobStep, Terminal
<1>4. CASE Fail(p) /\ ~HoldsLease(p)
  BY <1>4, UnchangedJob DEF Fail
<1>5. CASE Fail(p) /\ HoldsLease(p)
  <2>1. PICK outcome : attemptStatus' = [attemptStatus EXCEPT ![claimed[p]] =
                                           CloseAttempt(@, claimNumber[p], outcome)]
    BY <1>5 DEF Fail, RecordFailure
  <2>2. PICK status : jobStatus' = [jobStatus EXCEPT ![claimed[p]] = status]
    BY <1>5 DEF Fail, RecordFailure
  <2>3. jobStatus[claimed[p]] = "leased"
    BY <1>5 DEF HoldsLease
  <2>4. v # claimed[p] => jobStatus'[v] = jobStatus[v] /\ attemptStatus'[v] = attemptStatus[v]
    BY <2>1, <2>2 DEF CoreInv, TypeOK
  <2>5. LogGrows(v)
    BY <1>2, <2>1, <2>4 DEF LogGrows, CloseAttempt, CoreInv, TypeOK
  <2> QED BY <1>1, <2>3, <2>4, <2>5 DEF JobStep, Terminal
<1> QED BY <1>3, <1>4, <1>5

\* Every step is a JobStep of every job.
LEMMA NextJob ==
  ASSUME CoreInv, [Next]_vars, NEW v \in Versions
  PROVE  JobStep(v)
<1>1. ASSUME NEW p \in Procs, RunOnce(p) \/ Break(p) \/ Crash(p) \/ Restart(p)
      PROVE  JobStep(v)
  <2>1. ASSUME NEW w \in Versions, Claim(p, w) PROVE JobStep(v)
    BY <2>1, ClaimJob
  <2>2. CASE ClaimNothing(p)
    BY <2>2, SweptJob DEF ClaimNothing
  <2>3. CASE Promote(p) \/ Fail(p)
    BY <2>3, WorkerJob
  <2>4. CASE Load(p) \/ Reject(p) \/ PromoteRaises(p) \/ Break(p) \/ Crash(p) \/ Restart(p)
    BY <2>4, UnchangedJob DEF Load, Reject, PromoteRaises, Break, Crash, Restart, jobVars
  <2> QED BY <1>1, <2>1, <2>2, <2>3, <2>4 DEF RunOnce
<1>2. CASE Clock
  BY <1>2, UnchangedJob DEF Clock, LeaseExpires, BecomesAvailable
<1>3. CASE UNCHANGED vars
  BY <1>3, UnchangedJob DEF vars, jobVars
<1> QED
  BY <1>1, <1>2, <1>3, ConnectorJob DEF Next

-----------------------------------------------------------------------------
(* The theorems. *)

\* With one id per process, a job that is leased has exactly its latest attempt
\* running and no other job has one, whoever crashes or comes late.
THEOREM AttemptsCorrect == WorkersDistinct => (Spec => []RunningIffLeased)
  BY LeaseInvariant, PTL DEF LeaseInv

\* With one id per process, exactly the completed jobs have a succeeded attempt,
\* their last: no version is promoted twice or without a record of it.
THEOREM SuccessCorrect == WorkersDistinct => (Spec => []SucceededIffCompleted)
  BY LeaseInvariant, PTL DEF LeaseInv

\* With one id per process, comparing the owner is enough: a promote or a fail
\* that finds its lease is the one of the latest attempt.
THEOREM OwnerIdentifiesAttempt == WorkersDistinct => (Spec => []LeaseMatchesClaim)
  BY LeaseInvariant, PTL DEF LeaseInv

\* No step revives an ended job, takes back an attempt or rewrites its record.
THEOREM QueueIsMonotonic == Spec => QueueMonotonic
<1>1. CoreInv /\ [Next]_vars =>
        [\A v \in Versions :
           /\ jobStatus[v] \in Terminal => jobStatus'[v] = jobStatus[v]
           /\ attemptCount'[v] >= attemptCount[v]
           /\ \A n \in 1..MaxAttempts :
                attemptStatus[v][n] \notin {"none", "running"}
                  => attemptStatus'[v][n] = attemptStatus[v][n]]_vars
  BY NextJob DEF JobStep, LogGrows
<1> QED BY <1>1, CoreInvariant, PTL DEF Spec, QueueMonotonic

\* A claim never takes a lease that has not lapsed.
THEOREM LeasesRespected == Spec => LeaseNotStolen
<1>1. CoreInv /\ [Next]_vars =>
        [\A v \in Versions :
           attemptCount'[v] > attemptCount[v] => jobStatus[v] # "leased" \/ v \in lapsed]_vars
  BY NextJob DEF JobStep
<1> QED BY <1>1, CoreInvariant, PTL DEF Spec, LeaseNotStolen

-----------------------------------------------------------------------------
(* Counting what is shown. *)

\* The set a counter counts is finite.
LEMMA IndexedFinite ==
  /\ IsFiniteSet(Indexed) /\ Indexed \subseteq Sources
  /\ Cardinality(Indexed) \in Nat
<1>1. Indexed \in SUBSET Sources
  BY DEF Indexed
<1> QED BY <1>1, IndexingAssumption, FS_Subset, FS_CardinalityType

\* A purge takes exactly the shown sources among its own out of the counter.
LEMMA PurgeCount ==
  ASSUME CoreInv, CountExact, NEW T \in SUBSET Sources, PurgeCommit(T)
  PROVE  /\ CountExact'
         /\ indexedCount' = indexedCount - Cardinality(T \cap Indexed)
<1>1. Indexed' = Indexed \ T
  BY DEF PurgeCommit, Indexed
<1>2. Indexed \cap T = T \cap Indexed
  OBVIOUS
<1>3. Cardinality(Indexed \ T) = Cardinality(Indexed) - Cardinality(T \cap Indexed)
  BY <1>2, IndexedFinite, FS_Difference
<1>4. /\ Cardinality(T \cap Indexed) \in Nat
      /\ Cardinality(T \cap Indexed) <= Cardinality(Indexed)
  BY IndexedFinite, FS_Subset, FS_CardinalityType
<1>5. indexedCount' = CountAfterPurge(T)
  BY DEF PurgeCommit
<1>6. indexedCount' = indexedCount - Cardinality(T \cap Indexed)
  BY <1>4, <1>5, IndexedFinite DEF CountAfterPurge, CountExact
<1> QED BY <1>1, <1>3, <1>6 DEF CountExact

\* A promotion adds the source if and only if it was not shown.
LEMMA PromoteCount ==
  ASSUME CoreInv, CountExact, NEW p \in Procs, Promote(p)
  PROVE  CountExact'
<1> DEFINE s == claimed[p][1]
<1>1. claimed[p] \in Versions
  BY DEF Promote, CoreInv, ClaimsInHand, TypeOK
<1>2. s \in Sources /\ claimed[p][2] # NoContent
  BY <1>1, VersionParts
<1>3. Indexed' = Indexed \cup {s}
  BY <1>2 DEF Promote, Indexed, CoreInv, TypeOK
<1>4. s \in Indexed <=> current[s] # NoContent
  BY <1>2 DEF Indexed
<1>5. Cardinality(Indexed \cup {s}) =
        IF s \in Indexed THEN Cardinality(Indexed) ELSE Cardinality(Indexed) + 1
  BY IndexedFinite, FS_AddElement
<1> QED BY <1>3, <1>4, <1>5 DEF Promote, CountExact

\* Steps that move no pointer and no counter.
LEMMA QuietCount ==
  ASSUME CountExact, current' = current, indexedCount' = indexedCount
  PROVE  CountExact'
  BY DEF CountExact, Indexed

\* Only purges and promotions move a pointer or a counter.
LEMMA QuietSteps ==
  ASSUME CoreInv, [Next]_vars,
         ~ \E T \in SUBSET Sources : PurgeCommit(T),
         ~ \E p \in Procs : Promote(p)
  PROVE  current' = current /\ indexedCount' = indexedCount /\ generation' = generation
<1>1. ASSUME NEW p \in Procs, RunOnce(p) \/ Break(p) \/ Crash(p) \/ Restart(p)
      PROVE  UNCHANGED <<current, usageVars>>
  BY <1>1 DEF RunOnce, Claim, ClaimNothing, Load, Reject, PromoteRaises, Fail, Break,
     Crash, Restart, sourceVars
<1>2. CASE Clock
  BY <1>2 DEF Clock, LeaseExpires, BecomesAvailable, sourceVars, usageVars
<1>3. CASE Connector
  BY <1>3 DEF Connector, Enqueue, PurgeSelect, PurgeNothing, ConnectionChange,
     sourceVars, usageVars
<1>4. CASE UNCHANGED vars
  BY <1>4 DEF vars, sourceVars, usageVars
<1> QED BY <1>1, <1>2, <1>3, <1>4 DEF Next, usageVars

\* The counter is exact in every reachable state.
LEMMA CountInvariant == Spec => []CountExact
<1>1. Init => CountExact
  <2> SUFFICES ASSUME Init PROVE CountExact
    OBVIOUS
  <2>1. Indexed = {}
    BY DEF Init, Indexed
  <2> QED BY <2>1, FS_EmptySet DEF Init, CountExact
<1>2. CoreInv /\ CountExact /\ [Next]_vars => CountExact'
  BY PurgeCount, PromoteCount, QuietCount, QuietSteps
<1> QED BY <1>1, <1>2, CoreInvariant, PTL DEF Spec

-----------------------------------------------------------------------------
(* Indexing implements SearchIndex. *)

\* A source row has a fingerprint, and a purge selects rows that exist.
SourceShape ==
  \A s \in Sources :
    /\ sourceState[s] # "absent" => sourceHash[s] # NoContent
    /\ scan[s] # NotSeen => sourceState[s] # "absent"

\* It is inductive.
LEMMA SourceShapeInvariant == Spec => []SourceShape
<1>1. Init => SourceShape
  BY DEF Init, SourceShape
<1>2. CoreInv /\ SourceShape /\ [Next]_vars => SourceShape'
  <2> SUFFICES ASSUME CoreInv, SourceShape, [Next]_vars PROVE SourceShape'
    OBVIOUS
  <2>1. ASSUME NEW s \in Sources, NEW c \in Contents, Enqueue(s, c)
        PROVE  SourceShape'
    BY <2>1, IndexingAssumption DEF Enqueue, SourceShape, CoreInv, TypeOK
  <2>2. ASSUME NEW T \in SUBSET Sources, PurgeCommit(T)
        PROVE  SourceShape'
    BY <2>2 DEF PurgeCommit, SourceShape
  <2>3. CASE PurgeSelect
    BY <2>3 DEF PurgeSelect, SourceShape, sourceVars
  <2>4. CASE PurgeNothing
    BY <2>4 DEF PurgeNothing, SourceShape, sourceVars
  <2>5. ASSUME UNCHANGED <<sourceState, sourceHash, scan>>
        PROVE  SourceShape'
    BY <2>5 DEF SourceShape
  <2>6. ASSUME NEW p \in Procs, RunOnce(p) \/ Break(p) \/ Crash(p) \/ Restart(p)
        PROVE  SourceShape'
    BY <2>5, <2>6 DEF RunOnce, Claim, ClaimNothing, Load, Reject, Promote, PromoteRaises,
       Fail, Break, Crash, Restart, sourceVars
  <2>7. CASE Clock \/ ConnectionChange
    BY <2>5, <2>7 DEF Clock, LeaseExpires, BecomesAvailable, ConnectionChange, sourceVars
  <2>8. CASE UNCHANGED vars
    BY <2>5, <2>8 DEF vars, sourceVars
  <2> QED
    BY <2>1, <2>2, <2>3, <2>4, <2>6, <2>7, <2>8 DEF Next, Connector
<1> QED BY <1>1, <1>2, CoreInvariant, PTL DEF Spec

\* The empty tables are the empty index.
LEMMA InitRefines == Init => Index!Init
  BY DEF Init, Index!Init, Wanted

\* An enqueue observes what the provider has.
LEMMA EnqueueRefines ==
  ASSUME CoreInv, NEW s \in Sources, NEW c \in Contents, Enqueue(s, c)
  PROVE  Index!Observe(s, c)
<1>1. Wanted' = [Wanted EXCEPT ![s] = c]
  BY DEF Enqueue, Wanted, CoreInv, TypeOK
<1> QED BY <1>1 DEF Index!Observe, Enqueue, usageVars

\* A purge withdraws its sources.
LEMMA PurgeRefines ==
  ASSUME CoreInv, CountExact, SourceShape, NEW T \in SUBSET Sources, PurgeCommit(T)
  PROVE  Index!Withdraw(T)
<1>1. \A s \in T : sourceState[s] = "active"
  BY DEF PurgeCommit, SourceShape, CoreInv, TypeOK, SourceStates
<1>2. \A s \in T : Wanted[s] # NoContent
  BY <1>1 DEF Wanted, SourceShape
<1>3. Wanted' = [s \in Sources |-> IF s \in T THEN NoContent ELSE Wanted[s]]
  BY DEF PurgeCommit, Wanted
<1>4. indexedCount' = indexedCount - Index!Cardinality(T \cap Index!Shown)
  <2>1. indexedCount' = indexedCount - Cardinality(T \cap Indexed)
    BY PurgeCount
  <2>2. Index!Shown = Indexed
    BY DEF Index!Shown, Indexed
  <2> QED BY <2>1, <2>2 DEF Cardinality, Index!Cardinality
<1>5. T # {} /\ generation' = generation + 1
      /\ current' = [s \in Sources |-> IF s \in T THEN NoContent ELSE current[s]]
  BY DEF PurgeCommit
<1> QED BY <1>2, <1>3, <1>4, <1>5 DEF Index!Withdraw

\* A promotion publishes the wanted content, and only if it is not shown yet.
LEMMA PromoteRefines ==
  ASSUME CoreInv, NEW p \in Procs, Promote(p)
  PROVE  \E s \in Sources : Index!Publish(s)
<1> DEFINE v == claimed[p]
           s == v[1]
<1>1. v \in Versions
  BY DEF Promote, CoreInv, ClaimsInHand, TypeOK
<1>2. s \in Sources /\ v[2] \in Contents /\ v[2] # NoContent
  BY <1>1, VersionParts
<1>3. Wanted[s] = v[2]
  BY <1>2 DEF Promote, PromotionAllowed, Wanted
<1>4. current[s] # v[2]
  BY <1>1 DEF Promote, PromotionAllowed, CoreInv, PointerIsReady
<1>5. Wanted' = Wanted
  BY DEF Promote, Wanted
<1>6. Index!Publish(s)
  BY <1>2, <1>3, <1>4, <1>5 DEF Index!Publish, Promote
<1> QED BY <1>2, <1>6

\* Every other step is invisible to a searcher.
LEMMA QuietRefines ==
  ASSUME CoreInv, [Next]_vars,
         ~ \E T \in SUBSET Sources : PurgeCommit(T),
         ~ \E p \in Procs : Promote(p),
         ~ \E s \in Sources, c \in Contents : Enqueue(s, c)
  PROVE  UNCHANGED Index!vars
<1>1. UNCHANGED <<sourceState, sourceHash>>
  <2>1. ASSUME NEW p \in Procs, RunOnce(p) \/ Break(p) \/ Crash(p) \/ Restart(p)
        PROVE  UNCHANGED <<sourceState, sourceHash>>
    BY <2>1 DEF RunOnce, Claim, ClaimNothing, Load, Reject, PromoteRaises, Fail, Break,
       Crash, Restart, sourceVars
  <2>2. CASE Clock
    BY <2>2 DEF Clock, LeaseExpires, BecomesAvailable, sourceVars
  <2>3. CASE Connector
    BY <2>3 DEF Connector, PurgeSelect, PurgeNothing, ConnectionChange, sourceVars
  <2>4. CASE UNCHANGED vars
    BY <2>4 DEF vars, sourceVars
  <2> QED BY <2>1, <2>2, <2>3, <2>4 DEF Next
<1>2. Wanted' = Wanted
  BY <1>1 DEF Wanted
<1> QED BY <1>2, QuietSteps DEF Index!vars

-----------------------------------------------------------------------------
(* Indexing implements LeaseQueue. *)

\* What a job is in the abstract queue, by the status of its row.
LEMMA JobShape ==
  ASSUME NEW v \in Versions
  PROVE  /\ v \in DOMAIN JobQueue <=> jobStatus[v] # "none"
         /\ jobStatus[v] # "none" => JobQueue[v] = Job(v)
         /\ jobStatus[v] \in {"pending", "retry_wait"}
              => Job(v) = Leases!Waiting(attemptCount[v])
         /\ jobStatus[v] = "leased"
              => Job(v) = [state |-> "leased", tries |-> attemptCount[v],
                           holder |-> {leaseOwner[v]}]
         /\ jobStatus[v] \in Terminal => Job(v) = Leases!Ended(attemptCount[v])
         /\ DOMAIN JobQueue \subseteq Versions
<1>1. /\ v \in DOMAIN JobQueue <=> jobStatus[v] # "none"
      /\ jobStatus[v] # "none" => JobQueue[v] = Job(v)
      /\ DOMAIN JobQueue \subseteq Versions
  BY DEF JobQueue
<1>2. CASE jobStatus[v] = "leased"
  BY <1>1, <1>2 DEF Job, Terminal
<1>3. CASE jobStatus[v] \in {"pending", "retry_wait"}
  BY <1>1, <1>3 DEF Job, Terminal, Leases!Waiting
<1>4. CASE jobStatus[v] \notin {"pending", "retry_wait", "leased"}
  BY <1>1, <1>4 DEF Job, Leases!Ended
<1> QED BY <1>2, <1>3, <1>4

\* The same in the next state.
LEMMA NextJobShape ==
  ASSUME NEW v \in Versions
  PROVE  /\ v \in DOMAIN JobQueue' <=> jobStatus'[v] # "none"
         /\ jobStatus'[v] # "none" => JobQueue'[v] = Job(v)'
         /\ jobStatus'[v] \in {"pending", "retry_wait"}
              => Job(v)' = Leases!Waiting(attemptCount'[v])
         /\ jobStatus'[v] = "leased"
              => Job(v)' = [state |-> "leased", tries |-> attemptCount'[v],
                            holder |-> {leaseOwner'[v]}]
         /\ jobStatus'[v] \in Terminal => Job(v)' = Leases!Ended(attemptCount'[v])
         /\ DOMAIN JobQueue' \subseteq Versions
<1>1. /\ v \in DOMAIN JobQueue' <=> jobStatus'[v] # "none"
      /\ jobStatus'[v] # "none" => JobQueue'[v] = Job(v)'
      /\ DOMAIN JobQueue' \subseteq Versions
  BY DEF JobQueue
<1>2. CASE jobStatus'[v] = "leased"
  BY <1>1, <1>2 DEF Job, Terminal
<1>3. CASE jobStatus'[v] \in {"pending", "retry_wait"}
  BY <1>1, <1>3 DEF Job, Terminal, Leases!Waiting
<1>4. CASE jobStatus'[v] \notin {"pending", "retry_wait", "leased"}
  BY <1>1, <1>4 DEF Job, Leases!Ended
<1> QED BY <1>2, <1>3, <1>4

\* What the lease of a leased job says.
LEMMA RowFields ==
  ASSUME NEW v \in Versions, jobStatus[v] # "none"
  PROVE  /\ JobQueue[v].tries = attemptCount[v]
         /\ JobQueue[v].state = "leased" <=> jobStatus[v] = "leased"
         /\ JobQueue[v].state = "waiting" <=> jobStatus[v] \in {"pending", "retry_wait"}
         /\ jobStatus[v] = "leased" => JobQueue[v].holder = {leaseOwner[v]}
<1>1. JobQueue[v] = Job(v)
  BY DEF JobQueue
<1> QED BY <1>1 DEF Job

\* A job whose row is not written is the same job.
LEMMA JobKept ==
  ASSUME NEW v \in Versions,
         \/ {jobStatus[v], jobStatus'[v]} \subseteq {"pending", "retry_wait"}
         \/ jobStatus'[v] = jobStatus[v],
         attemptCount'[v] = attemptCount[v],
         jobStatus[v] = "leased" => leaseOwner'[v] = leaseOwner[v]
  PROVE  Job(v)' = Job(v)
  BY DEF Job

\* A step that writes no job and no claim is invisible to the queue.
LEMMA QueueKept ==
  ASSUME UNCHANGED <<jobStatus, attemptCount, leaseOwner>>
  PROVE  JobQueue' = JobQueue
  BY DEF JobQueue, Job

\* The swept jobs are the buried ones.
LEMMA BuriedFacts ==
  ASSUME CoreInv, NEW v \in Versions, jobStatus[v] # "none"
  PROVE  /\ Leases!Spent(v) <=> Exhausted(v)
         /\ Leases!Buried[v] = IF Exhausted(v) THEN Leases!Ended(attemptCount[v])
                               ELSE JobQueue[v]
         /\ DOMAIN Leases!Buried = DOMAIN JobQueue
<1>1. JobQueue[v].tries = attemptCount[v] /\ v \in DOMAIN JobQueue
  BY RowFields, JobShape
<1>2. Leases!Spent(v) <=> Exhausted(v)
  BY <1>1 DEF Leases!Spent, Exhausted
<1> QED BY <1>1, <1>2 DEF Leases!Buried

\* A row that is swept becomes the buried job.
LEMMA SweptIsBuried ==
  ASSUME CoreInv, NEW w \in Versions, jobStatus[w] # "none",
         jobStatus'[w] = SweptStatus(w), leaseOwner'[w] = SweptOwner(w),
         attemptCount'[w] = attemptCount[w]
  PROVE  JobQueue'[w] = Leases!Buried[w]
<1>1. CASE Exhausted(w)
  <2>1. jobStatus'[w] = "dead_letter"
    BY <1>1 DEF SweptStatus
  <2> QED BY <1>1, <2>1, BuriedFacts, NextJobShape DEF Terminal
<1>2. CASE ~Exhausted(w)
  <2>1. jobStatus'[w] = jobStatus[w] /\ leaseOwner'[w] = leaseOwner[w]
    BY <1>2 DEF SweptStatus, SweptOwner
  <2>2. Job(w)' = Job(w)
    BY <2>1, JobKept
  <2> QED BY <1>2, <2>1, <2>2, BuriedFacts, JobShape, NextJobShape
<1> QED BY <1>1, <1>2

\* A job that was never inserted was never tried.
FreshJobs == \A v \in Versions : jobStatus[v] = "none" => attemptCount[v] = 0

\* It is inductive: only a claim counts, and it takes a row that is there.
LEMMA FreshInvariant == Spec => []FreshJobs
<1>1. Init => FreshJobs
  BY DEF Init, FreshJobs
<1>2. CoreInv /\ FreshJobs /\ [Next]_vars => FreshJobs'
  <2> SUFFICES ASSUME CoreInv, FreshJobs, [Next]_vars,
                      NEW v \in Versions, jobStatus'[v] = "none"
               PROVE  attemptCount'[v] = 0
    BY DEF FreshJobs
  <2>1. ASSUME NEW p \in Procs, NEW w \in Versions, Claim(p, w)
        PROVE  attemptCount'[v] = 0
    BY <2>1 DEF Claim, SweptStatus, FreshJobs, CoreInv, TypeOK
  <2>2. ASSUME NEW p \in Procs, ClaimNothing(p)
        PROVE  attemptCount'[v] = 0
    BY <2>2 DEF ClaimNothing, SweptStatus, FreshJobs
  <2>3. ASSUME NEW p \in Procs, Promote(p)
        PROVE  attemptCount'[v] = 0
    BY <2>3 DEF Promote, FreshJobs, CoreInv, TypeOK
  <2>4. ASSUME NEW p \in Procs, Fail(p)
        PROVE  attemptCount'[v] = 0
    BY <2>4 DEF Fail, RecordFailure, FailureStatus, FreshJobs, CoreInv, TypeOK
  <2>5. ASSUME UNCHANGED <<jobStatus, attemptCount>>
        PROVE  attemptCount'[v] = 0
    BY <2>5 DEF FreshJobs
  <2>6. ASSUME NEW p \in Procs,
               Load(p) \/ Reject(p) \/ PromoteRaises(p) \/ Break(p) \/ Crash(p) \/ Restart(p)
        PROVE  attemptCount'[v] = 0
    BY <2>5, <2>6 DEF Load, Reject, PromoteRaises, Break, Crash, Restart, jobVars
  <2>7. CASE Clock
    BY <2>5, <2>7 DEF Clock, LeaseExpires, BecomesAvailable
  <2>8. ASSUME NEW s \in Sources, NEW c \in Contents, Enqueue(s, c)
        PROVE  attemptCount'[v] = 0
    BY <2>8 DEF Enqueue, InsertedJob, FreshJobs, CoreInv, TypeOK
  <2>9. ASSUME NEW T \in SUBSET Sources, PurgeCommit(T)
        PROVE  attemptCount'[v] = 0
    BY <2>9 DEF PurgeCommit, FreshJobs
  <2>10. CASE PurgeSelect \/ PurgeNothing \/ ConnectionChange \/ UNCHANGED vars
    BY <2>5, <2>10 DEF PurgeSelect, PurgeNothing, ConnectionChange, vars, jobVars
  <2> QED
    BY <2>1, <2>2, <2>3, <2>4, <2>6, <2>7, <2>8, <2>9, <2>10 DEF Next, RunOnce, Connector
<1> QED BY <1>1, <1>2, CoreInvariant, PTL DEF Spec

\* Nothing waits in the empty tables.
LEMMA InitQueue == Init => Leases!Init
<1> SUFFICES ASSUME Init PROVE Leases!Init
  OBVIOUS
<1>1. JobQueue = [j \in DOMAIN JobQueue |-> Leases!Waiting(0)]
  <2>1. \A v \in Versions : v \notin DOMAIN JobQueue
    BY DEF Init, JobQueue
  <2>2. DOMAIN JobQueue = {}
    BY <2>1, JobShape DEF JobQueue
  <2> QED BY <2>2 DEF JobQueue
<1>2. Hands = [p \in Procs |-> {}]
  BY DEF Init, Hands
<1> QED BY <1>1, <1>2 DEF Leases!Init, Init

\* An enqueue puts at most one job, which waits.
LEMMA EnqueuePuts ==
  ASSUME CoreInv, NEW s \in Sources, NEW c \in Contents, Enqueue(s, c), FreshJobs
  PROVE  Leases!Put
<1> DEFINE v == <<s, c>>
<1> USE DEF Enqueue
<1>1. ASSUME NEW w \in Versions
      PROVE  jobStatus'[w] = IF w = v /\ ~Unchanged(s, c)
                               THEN InsertedJob(jobStatus[w]) ELSE jobStatus[w]
  BY DEF CoreInv, TypeOK
<1>2. attemptCount' = attemptCount /\ leaseOwner' = leaseOwner
  OBVIOUS
<1>3. ASSUME NEW w \in DOMAIN JobQueue
      PROVE  w \in DOMAIN JobQueue' /\ JobQueue'[w] = JobQueue[w]
  <2>1. w \in Versions /\ jobStatus[w] # "none"
    BY <1>3, JobShape DEF JobQueue
  <2>2. jobStatus'[w] = jobStatus[w]
    BY <2>1, <1>1 DEF InsertedJob
  <2>3. Job(w)' = Job(w)
    BY <2>1, <2>2, <1>2, JobKept
  <2> QED BY <2>1, <2>2, <2>3, JobShape, NextJobShape
<1>4. ASSUME NEW w \in DOMAIN JobQueue', w \notin DOMAIN JobQueue
      PROVE  JobQueue'[w] = Leases!Waiting(0)
  <2>1. w \in Versions /\ jobStatus'[w] # "none" /\ jobStatus[w] = "none"
    BY <1>4 DEF JobQueue
  <2>2. jobStatus'[w] = "pending"
    BY <2>1, <1>1 DEF InsertedJob
  <2>3. attemptCount'[w] = 0
    BY <2>1, <1>2 DEF FreshJobs
  <2> QED BY <2>1, <2>2, <2>3, NextJobShape
<1>5. Leases!Become(JobQueue)
  <2>1. JobQueue' = [j \in DOMAIN JobQueue' |-> JobQueue'[j]]
    BY DEF JobQueue
  <2> QED BY <1>3, <1>4, <2>1 DEF Leases!Become
<1> QED BY <1>5 DEF Leases!Put, Hands, procVars

\* A purge withdraws jobs that wait.
LEMMA PurgeWithdraws ==
  ASSUME CoreInv, NEW T \in SUBSET Sources, PurgeCommit(T)
  PROVE  \E W \in SUBSET DOMAIN JobQueue : Leases!Withdraw(W)
<1> DEFINE W == {v \in DOMAIN JobQueue :
                   v[1] \in T /\ jobStatus[v] \in {"pending", "retry_wait"}}
<1> USE DEF PurgeCommit
<1>1. attemptCount' = attemptCount /\ leaseOwner' = leaseOwner
  OBVIOUS
<1>2. DOMAIN JobQueue' = DOMAIN JobQueue
  BY DEF JobQueue
<1>3. ASSUME NEW w \in DOMAIN JobQueue
      PROVE  JobQueue'[w] = IF w \in W THEN Leases!Ended(JobQueue[w].tries) ELSE JobQueue[w]
  <2>1. w \in Versions /\ jobStatus[w] # "none" /\ w \in DOMAIN JobQueue'
    BY <1>3, <1>2 DEF JobQueue
  <2>2. JobQueue[w].tries = attemptCount[w]
    BY <2>1, RowFields
  <2>3. CASE w \in W
    <3>1. jobStatus'[w] = "failed"
      BY <2>1, <2>3
    <3> QED BY <2>1, <2>2, <2>3, <3>1, <1>1, NextJobShape DEF Terminal
  <2>4. CASE w \notin W
    <3>1. jobStatus'[w] = jobStatus[w]
      BY <2>1, <2>4
    <3>2. Job(w)' = Job(w)
      BY <2>1, <3>1, <1>1, JobKept
    <3> QED BY <2>1, <2>4, <3>1, <3>2, JobShape, NextJobShape
  <2> QED BY <2>3, <2>4
<1>4. \A w \in W : JobQueue[w].state = "waiting"
  BY RowFields DEF JobQueue
<1>5. JobQueue' = [w \in DOMAIN JobQueue |->
                     IF w \in W THEN Leases!Ended(JobQueue[w].tries) ELSE JobQueue[w]]
  <2>1. JobQueue' = [j \in DOMAIN JobQueue' |-> JobQueue'[j]]
    BY DEF JobQueue
  <2> HIDE DEF W
  <2> QED BY <1>2, <1>3, <2>1
<1>6. Leases!Withdraw(W)
  BY <1>4, <1>5 DEF Leases!Withdraw, Hands, procVars
<1> QED BY <1>6

\* A claim takes a job that is free and buries what is spent.
LEMMA ClaimTakes ==
  ASSUME CoreInv, NEW p \in Procs, NEW v \in Versions, Claim(p, v)
  PROVE  v \in DOMAIN JobQueue /\ Leases!Take(p, v)
<1> USE DEF Claim
<1>1. jobStatus[v] # "none" /\ v \in DOMAIN JobQueue
      /\ JobQueue[v].tries = attemptCount[v]
  BY ClaimedFacts, JobShape, RowFields DEF Runnable, CoreInv, QueueShape
<1>2. Leases!Free(v)
  BY <1>1, RowFields DEF Runnable, Leases!Free
<1>3. Hands[p] = {} /\ Hands' = [Hands EXCEPT ![p] = {v}]
  <2>1. claimed[p] = NoClaim
    BY DEF CoreInv, ClaimsInHand
  <2>2. claimed' = [claimed EXCEPT ![p] = v] /\ v # NoClaim
    BY VersionParts
  <2> QED BY <2>1, <2>2 DEF Hands, CoreInv, TypeOK
<1>4. lapsed' = {w \in lapsed : w # v /\ ~Leases!Spent(w)}
  <2>1. \A w \in lapsed : Leases!Spent(w) <=> Exhausted(w)
    BY BuriedFacts DEF CoreInv, QueueShape, TypeOK
  <2> QED BY <2>1
<1>5. DOMAIN JobQueue' = DOMAIN JobQueue
  <2>1. \A w \in Versions : jobStatus'[w] # "none" <=> jobStatus[w] # "none"
    BY <1>1 DEF SweptStatus, Exhausted, CoreInv, QueueShape
  <2> QED BY <2>1 DEF JobQueue
<1>6. ASSUME NEW w \in DOMAIN JobQueue
      PROVE  JobQueue'[w] = IF w = v THEN Leases!LeasedTo(p, attemptCount[v] + 1)
                            ELSE Leases!Buried[w]
  <2>1. w \in Versions /\ jobStatus[w] # "none" /\ w \in DOMAIN JobQueue'
    BY <1>6, <1>5 DEF JobQueue
  <2>2. CASE w = v
    <3>1. jobStatus'[v] = "leased" /\ leaseOwner'[v] = WorkerId[p]
          /\ attemptCount'[v] = attemptCount[v] + 1
      BY DEF CoreInv, TypeOK
    <3> QED BY <2>1, <2>2, <3>1, NextJobShape DEF Leases!LeasedTo
  <2>3. CASE w # v
    <3>1. jobStatus'[w] = SweptStatus(w) /\ leaseOwner'[w] = SweptOwner(w)
          /\ attemptCount'[w] = attemptCount[w]
      BY <2>1, <2>3 DEF CoreInv, TypeOK
    <3>2. JobQueue'[w] = Leases!Buried[w]
      BY <2>1, <3>1, SweptIsBuried
    <3> QED BY <2>3, <3>2
  <2> QED BY <2>2, <2>3
<1>7. JobQueue' = [Leases!Buried EXCEPT ![v] = Leases!LeasedTo(p, attemptCount[v] + 1)]
  <2>1. JobQueue' = [j \in DOMAIN JobQueue' |-> JobQueue'[j]]
    BY DEF JobQueue
  <2>2. Leases!Buried = [j \in DOMAIN JobQueue |-> Leases!Buried[j]]
    BY DEF Leases!Buried
  <2> QED BY <1>1, <1>5, <1>6, <2>1, <2>2
<1> QED BY <1>1, <1>2, <1>3, <1>4, <1>7 DEF Leases!Take

\* A claim that finds nothing buries what is spent.
LEMMA ClaimNothingBuries ==
  ASSUME CoreInv, NEW p \in Procs, ClaimNothing(p)
  PROVE  Leases!Bury
<1> USE DEF ClaimNothing
<1>1. DOMAIN JobQueue' = DOMAIN JobQueue
  <2>1. \A w \in Versions : jobStatus'[w] # "none" <=> jobStatus[w] # "none"
    BY DEF SweptStatus, Exhausted, CoreInv, QueueShape
  <2> QED BY <2>1 DEF JobQueue
<1>2. ASSUME NEW w \in DOMAIN JobQueue PROVE JobQueue'[w] = Leases!Buried[w]
  <2>1. w \in Versions /\ jobStatus[w] # "none"
    BY <1>2 DEF JobQueue
  <2> QED BY <2>1, SweptIsBuried
<1>3. JobQueue' = Leases!Buried
  <2>1. JobQueue' = [j \in DOMAIN JobQueue' |-> JobQueue'[j]]
    BY DEF JobQueue
  <2>2. Leases!Buried = [j \in DOMAIN JobQueue |-> Leases!Buried[j]]
    BY DEF Leases!Buried
  <2> QED BY <1>1, <1>2, <2>1, <2>2
<1>4. lapsed' = {w \in lapsed : ~Leases!Spent(w)}
  <2>1. \A w \in lapsed : Leases!Spent(w) <=> Exhausted(w)
    BY BuriedFacts DEF CoreInv, QueueShape, TypeOK
  <2> QED BY <2>1
<1> QED BY <1>3, <1>4 DEF Leases!Bury, Hands, procVars

\* A worker that writes a job has it in hand, and lets go of it.
LEMMA HeldInHand ==
  ASSUME CoreInv, NEW p \in Procs, HoldsLease(p), pc[p] \notin {"idle", "down"},
         claimed' = [claimed EXCEPT ![p] = NoClaim]
  PROVE  /\ claimed[p] \in Versions /\ claimed[p] \in DOMAIN JobQueue
         /\ Leases!Holds(p, claimed[p])
         /\ Hands' = [Hands EXCEPT ![p] = {}]
<1>1. claimed[p] \in Versions /\ claimed[p] # NoClaim
  BY DEF CoreInv, ClaimsInHand, TypeOK
<1>2. jobStatus[claimed[p]] = "leased" /\ leaseOwner[claimed[p]] = WorkerId[p]
  BY DEF HoldsLease
<1>3. JobQueue[claimed[p]].holder = {WorkerId[p]} /\ claimed[p] \in DOMAIN JobQueue
  BY <1>1, <1>2, RowFields, JobShape
<1>4. Hands[p] = {claimed[p]} /\ Hands' = [Hands EXCEPT ![p] = {}]
  BY <1>1 DEF Hands, CoreInv, TypeOK
<1> QED BY <1>1, <1>3, <1>4 DEF Leases!Holds

\* Writing the row of one job that is there changes that job only.
LEMMA OneJobWritten ==
  ASSUME CoreInv, NEW v \in Versions, jobStatus[v] # "none", NEW status \in JobStatuses,
         status # "none", jobStatus' = [jobStatus EXCEPT ![v] = status],
         leaseOwner' = [leaseOwner EXCEPT ![v] = NoWorker],
         attemptCount' = attemptCount
  PROVE  JobQueue' = [JobQueue EXCEPT ![v] = Job(v)']
<1>1. DOMAIN JobQueue' = DOMAIN JobQueue
  BY DEF JobQueue, CoreInv, TypeOK
<1>2. ASSUME NEW w \in DOMAIN JobQueue
      PROVE  JobQueue'[w] = IF w = v THEN Job(v)' ELSE JobQueue[w]
  <2>1. w \in Versions /\ jobStatus[w] # "none" /\ jobStatus'[w] # "none"
    BY <1>2, <1>1 DEF JobQueue
  <2>2. CASE w = v
    BY <2>1, <2>2, NextJobShape
  <2>3. CASE w # v
    <3>1. jobStatus'[w] = jobStatus[w] /\ leaseOwner'[w] = leaseOwner[w]
      BY <2>1, <2>3 DEF CoreInv, TypeOK
    <3>2. Job(w)' = Job(w)
      BY <2>1, <3>1, JobKept
    <3> QED BY <2>1, <2>3, <3>2, JobShape, NextJobShape
  <2> QED BY <2>2, <2>3
<1>3. JobQueue' = [j \in DOMAIN JobQueue' |-> JobQueue'[j]]
  BY DEF JobQueue
<1>4. JobQueue = [j \in DOMAIN JobQueue |-> JobQueue[j]]
  BY DEF JobQueue
<1>5. v \in DOMAIN JobQueue
  BY DEF JobQueue
<1> HIDE DEF JobQueue
<1> QED BY <1>1, <1>2, <1>3, <1>4, <1>5

\* A promotion finishes a job whose lease has not lapsed.
LEMMA PromoteFinishes ==
  ASSUME CoreInv, NEW p \in Procs, Promote(p)
  PROVE  \E v \in DOMAIN JobQueue : Leases!Finish(p, v)
<1> USE DEF Promote
<1>0. PICK v \in Versions : v = claimed[p]
  BY DEF CoreInv, ClaimsInHand, TypeOK
<1>1. HoldsLease(p) /\ v \notin lapsed
  BY <1>0 DEF PromotionAllowed
<1>2. /\ v \in Versions /\ v \in DOMAIN JobQueue
      /\ Leases!Holds(p, v)
      /\ Hands' = [Hands EXCEPT ![p] = {}]
  BY <1>0, <1>1, HeldInHand
<1>3. jobStatus[v] = "leased"
  BY <1>0, <1>1 DEF HoldsLease
<1>4. JobQueue' = [JobQueue EXCEPT ![v] = Job(v)']
  <2>1. "completed" \in JobStatuses
    BY DEF JobStatuses, Terminal
  <2> QED BY <1>0, <1>3, <2>1, OneJobWritten
<1>5. Job(v)' = Leases!Ended(attemptCount[v])
  <2>1. jobStatus'[v] = "completed"
    BY <1>0 DEF CoreInv, TypeOK
  <2> QED BY <2>1, NextJobShape DEF Terminal
<1>6. Leases!Become([JobQueue EXCEPT ![v] = Leases!Ended(JobQueue[v].tries)])
  <2>1. JobQueue[v].tries = attemptCount[v]
    BY <1>2, <1>3, RowFields
  <2>2. JobQueue = [j \in DOMAIN JobQueue |-> JobQueue[j]]
    BY DEF JobQueue
  <2> QED BY <1>4, <1>5, <2>1, <2>2 DEF Leases!Become
<1>7. Leases!Finish(p, v)
  BY <1>1, <1>2, <1>6 DEF Leases!Finish
<1> QED BY <1>2, <1>7

\* A failure gives the job back, or finds that the lease is lost.
LEMMA FailGivesBack ==
  ASSUME CoreInv, NEW p \in Procs, Fail(p)
  PROVE  Leases!Drop(p) \/ \E v \in DOMAIN JobQueue : Leases!GiveBack(p, v)
<1> USE DEF Fail
<1>1. CASE HoldsLease(p)
  <2>0. PICK v \in Versions : v = claimed[p]
    BY DEF CoreInv, ClaimsInHand, TypeOK
  <2> DEFINE status == FailureStatus(v, pc[p] = "broken")
  <2>1. /\ v \in Versions /\ v \in DOMAIN JobQueue
        /\ Leases!Holds(p, v)
        /\ Hands' = [Hands EXCEPT ![p] = {}]
    BY <1>1, <2>0, HeldInHand
  <2>2. jobStatus[v] = "leased"
    BY <1>1, <2>0 DEF HoldsLease
  <2>3. /\ jobStatus' = [jobStatus EXCEPT ![v] = status]
        /\ leaseOwner' = [leaseOwner EXCEPT ![v] = NoWorker]
        /\ lapsed' = lapsed \ {v}
        /\ attemptCount' = attemptCount
    BY <1>1, <2>0 DEF RecordFailure
  <2>4. /\ status \in {"retry_wait", "dead_letter", "failed"}
        /\ status = "retry_wait" => attemptCount[v] < MaxAttempts
    BY DEF FailureStatus
  <2>5. jobStatus'[v] = status
    BY <2>1, <2>3 DEF CoreInv, TypeOK
  <2> HIDE DEF status
  <2>6. JobQueue' = [JobQueue EXCEPT ![v] = Job(v)']
    <3>1. status \in JobStatuses /\ status # "none"
      BY <2>4 DEF JobStatuses, Queued, Terminal
    <3> QED BY <2>1, <2>2, <2>3, <3>1, OneJobWritten
  <2>7. \/ Job(v)' = Leases!Ended(attemptCount[v])
        \/ Job(v)' = Leases!Waiting(attemptCount[v]) /\ attemptCount[v] < MaxAttempts
    BY <2>1, <2>3, <2>4, <2>5, NextJobShape DEF Terminal
  <2>8. JobQueue[v].tries = attemptCount[v]
    BY <2>1, <2>2, RowFields
  <2>9. Leases!GiveBack(p, v)
    BY <2>1, <2>3, <2>6, <2>7, <2>8 DEF Leases!GiveBack
  <2> QED BY <2>1, <2>9
<1>2. CASE ~HoldsLease(p)
  <2>1. JobQueue' = JobQueue
    BY <1>2, QueueKept
  <2>2. Hands' = [Hands EXCEPT ![p] = {}]
    BY DEF Hands, CoreInv, TypeOK
  <2> QED BY <1>2, <2>1, <2>2 DEF Leases!Drop
<1> QED BY <1>1, <1>2

\* A crash drops the job.
LEMMA CrashDrops ==
  ASSUME CoreInv, NEW p \in Procs, Crash(p)
  PROVE  Leases!Drop(p)
<1>1. JobQueue' = JobQueue
  BY QueueKept DEF Crash, jobVars
<1>2. Hands' = [Hands EXCEPT ![p] = {}]
  BY DEF Crash, Hands, CoreInv, TypeOK
<1> QED BY <1>1, <1>2 DEF Leases!Drop, Crash, jobVars

\* A lease expires.
LEMMA LeaseExpiresLate ==
  ASSUME CoreInv, NEW v \in Versions, LeaseExpires(v)
  PROVE  v \in DOMAIN JobQueue /\ Leases!Expire(v)
<1>1. JobQueue' = JobQueue /\ Hands' = Hands
  BY QueueKept DEF LeaseExpires, Hands, procVars
<1>2. v \in DOMAIN JobQueue /\ JobQueue[v].state = "leased"
  BY RowFields, JobShape DEF LeaseExpires
<1> QED BY <1>1, <1>2 DEF Leases!Expire, LeaseExpires

\* The other steps are invisible to the queue.
LEMMA QuietQueue ==
  ASSUME CoreInv,
         \/ \E p \in Procs : Load(p) \/ Reject(p) \/ PromoteRaises(p) \/ Break(p) \/ Restart(p)
         \/ \E v \in Versions : BecomesAvailable(v)
         \/ PurgeSelect \/ PurgeNothing \/ ConnectionChange
         \/ UNCHANGED vars
  PROVE  UNCHANGED Leases!vars
<1>1. UNCHANGED <<jobStatus, attemptCount, leaseOwner, lapsed, claimed>>
  BY DEF Load, Reject, PromoteRaises, Break, Restart, BecomesAvailable, PurgeSelect,
     PurgeNothing, ConnectionChange, vars, jobVars, procVars
<1>2. JobQueue' = JobQueue /\ Hands' = Hands
  BY <1>1, QueueKept DEF Hands
<1> QED BY <1>1, <1>2 DEF Leases!vars

\* Every step is a step of the abstract queue.
LEMMA NextQueue ==
  ASSUME CoreInv, FreshJobs, [Next]_vars
  PROVE  Leases!Next \/ UNCHANGED Leases!vars
<1>1. ASSUME NEW p \in Procs, RunOnce(p) \/ Break(p) \/ Crash(p) \/ Restart(p)
      PROVE  Leases!Next \/ UNCHANGED Leases!vars
  BY <1>1, ClaimTakes, ClaimNothingBuries, PromoteFinishes, FailGivesBack, CrashDrops,
     QuietQueue DEF RunOnce, Leases!Next
<1>2. CASE Clock
  BY <1>2, LeaseExpiresLate, QuietQueue DEF Clock, Leases!Next
<1>3. CASE Connector
  BY <1>3, EnqueuePuts, PurgeWithdraws, QuietQueue DEF Connector, Leases!Next
<1>4. CASE UNCHANGED vars
  BY <1>4, QuietQueue
<1> QED BY <1>1, <1>2, <1>3, <1>4 DEF Next

-----------------------------------------------------------------------------
(* The theorems. *)

\* The quota counter equals the number of shown sources for any number of them,
\* although a purge computes its delta from rows it selected before locking.
THEOREM CounterCorrect == Spec => []CountExact
  BY CountInvariant

\* The whole pipeline, with its leases, retries, crashes and late workers, shows
\* a searcher what the abstract index may show, one publication at a time.
THEOREM ImplementsSearchIndex == Spec => Implementation
<1>1. CoreInv /\ CountExact /\ SourceShape /\ [Next]_vars => [Index!Next]_(Index!vars)
  <2> SUFFICES ASSUME CoreInv, CountExact, SourceShape, [Next]_vars
               PROVE  Index!Next \/ UNCHANGED Index!vars
    OBVIOUS
  <2> QED
    BY EnqueueRefines, PurgeRefines, PromoteRefines, QuietRefines DEF Index!Next
<1> QED
  BY <1>1, InitRefines, CoreInvariant, CountInvariant, SourceShapeInvariant, PTL
     DEF Spec, Implementation, Index!Spec

\* Whoever crashes, comes late or withdraws a source, an index job is tried, ended
\* and given back as the abstract queue allows; nothing is assumed of worker ids.
THEOREM ImplementsLeaseQueue == Spec => QueueImplementation
<1>1. CoreInv /\ FreshJobs /\ [Next]_vars => [Leases!Next]_(Leases!vars)
  BY NextQueue
<1> QED
  BY <1>1, InitQueue, CoreInvariant, FreshInvariant, PTL
     DEF Spec, QueueImplementation, Leases!Spec

\* So a search never returns a source the provider no longer has.
THEOREM DeletedNeverShown == Spec => []Index!ShownIsWanted
<1>1. CoreInv /\ SourceShape => Index!ShownIsWanted
  BY DEF CoreInv, PointerIsReady, SourceShape, Index!ShownIsWanted, Index!Shown, Indexed, Wanted
<1> QED BY <1>1, CoreInvariant, SourceShapeInvariant, PTL

=============================================================================
