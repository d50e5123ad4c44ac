-------------------------- MODULE DriveSyncProofs ----------------------------
(***************************************************************************)
(* Machine-checked proofs about DriveSync, for any tree, however deep, any *)
(* page size and any number of workers, attempts, crashes and retries.     *)
(*                                                                         *)
(* First, about order, whatever lapses and whoever authorizes again: the   *)
(* reconciliation of a scan is queued only when every page of the scan has *)
(* been listed, and none of them is ever at work again.                    *)
(*                                                                         *)
(* Then, about coverage, as long as no lease lapses under a worker and     *)
(* nobody authorizes again: a file that stays where it is is never purged, *)
(* and once the scan is reconciled the index is what Drive holds. That     *)
(* argument is about the items the walk has not reached yet: each of them  *)
(* whose folder has a job lies ahead of some job of the walk that is not   *)
(* completed, or its folder has not been reached either.                   *)
(*                                                                         *)
(* Last, that the table of sync jobs implements LeaseQueue.                *)
(***************************************************************************)
EXTENDS DriveSyncProperties, SequenceTheorems, FiniteSetTheorems, WellFoundedInduction, TLAPS

\* Every job but the initial one belongs to one run, and a reconciliation to the
\* run it is named for.
JobsHaveRuns ==
  /\ Root \in DOMAIN jobs
  /\ \A j \in DOMAIN jobs :
       /\ jobs[j].run <= runs
       /\ jobs[j].run = NoRun <=> j = Root
       /\ IsReconcile(j) => j = ReconcileJob(jobs[j].run)

InHand(p) == work[p].stage \in {"writing", "marked"}
Beginning(p) == InHand(p) /\ work[p].job = Root

\* The run a worker writes for is that of its job; an attempt of the initial job
\* has a run of its own, of which nothing is queued yet.
RunsInHand ==
  /\ \A p \in Procs : InHand(p) =>
       /\ work[p].run \in 1 .. runs
       /\ ~IsReconcile(work[p].job)
       /\ work[p].job # Root => work[p].run = jobs[work[p].job].run
       /\ work[p].job = Root => OfRun(jobs, work[p].run) = {}
  /\ \A p, q \in Procs :
       Beginning(p) /\ Beginning(q) /\ work[p].run = work[q].run => p = q

IInv ==
  /\ TypeOK
  /\ JobsHaveRuns
  /\ RunsInHand
  /\ NoReconcileBeforeWalkEnds

-----------------------------------------------------------------------------
(* Pages. *)

\* A finite set of numbers that is not empty has a least and a greatest member.
LEMMA Extrema ==
  ASSUME NEW S \in SUBSET Nat, IsFiniteSet(S), S # {}
  PROVE  (\E m \in S : \A k \in S : k <= m) /\ (\E m \in S : \A k \in S : m <= k)
<1> DEFINE Good(T) == (\E m \in T : \A k \in T : k <= m) /\ (\E m \in T : \A k \in T : m <= k)
           bad == {T \in FiniteSubsetsOf(S) : T # {} /\ ~Good(T)}
<1>1. SUFFICES ASSUME bad # {} PROVE FALSE
  <2>1. S \in FiniteSubsetsOf(S)
    BY DEF FiniteSubsetsOf
  <2> QED BY <2>1
<1>2. PICK T \in bad : \A U \in bad : ~ (<<U, T>> \in StrictSubsetOrdering(S))
  <2>1. bad \subseteq FiniteSubsetsOf(S)
    OBVIOUS
  <2> HIDE DEF bad
  <2> QED BY <1>1, <2>1, WFMin, FS_StrictSubsetOrderingWellFounded
<1>3. T \subseteq Nat /\ T \subseteq S /\ IsFiniteSet(T) /\ T # {} /\ ~Good(T)
  BY DEF FiniteSubsetsOf
<1>4. PICK x \in T : TRUE
  BY <1>3
<1> DEFINE U == T \ {x}
<1>5. U \subseteq S /\ U # T /\ U \subseteq T /\ U \subseteq Nat /\ IsFiniteSet(U)
  BY <1>3, <1>4, FS_Subset
<1>6. U \notin bad
  <2>1. <<U, T>> \in StrictSubsetOrdering(S)
    BY <1>3, <1>5 DEF StrictSubsetOrdering
  <2> HIDE DEF bad, U
  <2> QED BY <1>2, <2>1
<1>7. CASE U = {}
  <2>1. \A k \in T : k = x
    BY <1>7
  <2> QED BY <1>3, <1>4, <2>1
<1>8. CASE U # {}
  <2>1. Good(U)
    BY <1>5, <1>6, <1>8 DEF FiniteSubsetsOf
  <2>2. PICK m \in U : \A k \in U : k <= m
    BY <2>1
  <2>3. PICK n \in U : \A k \in U : n <= k
    BY <2>1
  <2>4. \E z \in T : \A k \in T : k <= z
    <3>1. CASE x <= m
      BY <1>3, <1>4, <2>2, <3>1
    <3>2. CASE ~(x <= m)
      <4>1. \A k \in T : k <= x
        BY <1>3, <1>4, <2>2, <3>2
      <4> QED BY <1>4, <4>1
    <3> QED BY <3>1, <3>2
  <2>5. \E z \in T : \A k \in T : z <= k
    <3>1. CASE n <= x
      BY <1>3, <1>4, <2>3, <3>1
    <3>2. CASE ~(n <= x)
      <4>1. \A k \in T : x <= k
        BY <1>3, <1>4, <2>3, <3>2
      <4> QED BY <1>4, <4>1
    <3> QED BY <3>1, <3>2
  <2> QED BY <1>3, <2>4, <2>5
<1> QED BY <1>7, <1>8

\* A page is a part of the rest of the folder, with everything up to the token of
\* the next one, and if there is no next one it is all the rest.
LEMMA PageFacts ==
  ASSUME NEW rest \in SUBSET Items
  PROVE  LET page == {i \in rest : Cardinality({k \in rest : k <= i}) <= PageSize}
             next == IF page = rest THEN 0 ELSE CHOOSE i \in page : \A k \in page : k <= i
         IN /\ page \subseteq Items /\ next \in Nat
            /\ \A i \in rest : next = 0 \/ i <= next => i \in page
<1> DEFINE page == {i \in rest : Cardinality({k \in rest : k <= i}) <= PageSize}
           next == IF page = rest THEN 0 ELSE CHOOSE i \in page : \A k \in page : k <= i
<1>1. rest \in SUBSET (Nat \ {0}) /\ IsFiniteSet(rest) /\ page \subseteq rest
  BY DriveSyncAssumption, FS_Subset
<1>2. page \in SUBSET Nat /\ IsFiniteSet(page)
  BY <1>1, FS_Subset
<1>3. ASSUME page # rest
      PROVE  next \in page /\ \A k \in page : k <= next
  <2>1. rest # {}
    BY <1>1, <1>3
  <2>2. PICK m \in rest : \A k \in rest : m <= k
    BY <1>1, <2>1, Extrema
  <2>3. {k \in rest : k <= m} = {m}
    <3>1. \A k \in rest : k \in Nat /\ m \in Nat /\ m <= k
      BY <1>1, <2>2
    <3>2. \A k \in rest : k <= m => k = m
      BY <3>1
    <3> QED BY <3>1, <3>2
  <2>4. Cardinality({k \in rest : k <= m}) = 1
    BY <2>3, FS_Singleton
  <2>5. m \in page
    BY <2>4, DriveSyncAssumption
  <2> HIDE DEF page
  <2>6. \E i \in page : \A k \in page : k <= i
    BY <1>2, <2>5, Extrema
  <2> QED BY <1>3, <2>6
<1>4. ASSUME NEW i \in rest, page # rest, i <= next
      PROVE  i \in page
  <2>1. next \in page /\ next \in rest
    BY <1>1, <1>3, <1>4
  <2> DEFINE upTo(m) == {k \in rest : k <= m}
  <2>2. upTo(i) \subseteq upTo(next)
    <3>1. next \in Nat /\ i \in Nat /\ \A k \in rest : k \in Nat
      BY <1>1, <2>1
    <3> HIDE DEF next
    <3>2. \A k \in rest : k <= i => k <= next
      BY <1>4, <3>1
    <3> QED BY <3>2
  <2>3. IsFiniteSet(upTo(next)) /\ Cardinality(upTo(next)) <= PageSize
    BY <1>1, <2>1, FS_Subset
  <2>4. /\ IsFiniteSet(upTo(i)) /\ Cardinality(upTo(i)) <= Cardinality(upTo(next))
        /\ Cardinality(upTo(i)) \in Nat /\ Cardinality(upTo(next)) \in Nat
    <3> HIDE DEF upTo
    <3> QED BY <2>2, <2>3, FS_Subset, FS_CardinalityType
  <2>5. Cardinality(upTo(i)) <= PageSize
    <3> HIDE DEF upTo
    <3> QED BY <2>3, <2>4, DriveSyncAssumption
  <2> QED BY <2>5
<1>5. next \in Nat /\ (next = 0 => page = rest)
  BY <1>1, <1>2, <1>3
<1> HIDE DEF page, next
<1>6. \A i \in rest : next = 0 \/ i <= next => i \in page
  BY <1>4, <1>5
<1> QED BY <1>1, <1>5, <1>6 DEF page, next

-----------------------------------------------------------------------------
(* The names of jobs. *)

LEMMA JobNames ==
  ASSUME NEW j \in JobIds, NEW run \in Nat, NEW at \in Nat
  PROVE  /\ FolderJob(run, at) \in JobIds \ {Root}
         /\ ~IsReconcile(FolderJob(run, at))
         /\ FolderJob(run, at)[1].at = at
         /\ PageJob(j, at) \in JobIds \ {Root}
         /\ IsReconcile(PageJob(j, at)) => IsReconcile(j)
         /\ ReconcileJob(run) \in JobIds \ {Root}
         /\ IsReconcile(ReconcileJob(run))
         /\ \A other : ReconcileJob(run) = ReconcileJob(other) => run = other
<1> DEFINE folder == [kind |-> "folder", run |-> run, at |-> at]
           page == [kind |-> "page", run |-> NoRun, at |-> at]
           reconcile == [kind |-> "reconcile", run |-> run, at |-> Top]
<1>1. folder \in Steps /\ page \in Steps /\ reconcile \in Steps
  BY DEF Steps, NoRun, Top
<1>2. /\ FolderJob(run, at) \in JobIds \ {Root}
      /\ FolderJob(run, at)[1] = folder
  <2> HIDE DEF folder
  <2>1. FolderJob(run, at) = <<folder>>
    BY DEF FolderJob, folder
  <2> QED BY <1>1, <2>1 DEF JobIds, Root
<1>3. /\ ReconcileJob(run) \in JobIds \ {Root}
      /\ ReconcileJob(run)[1] = reconcile
  <2> HIDE DEF reconcile
  <2>1. ReconcileJob(run) = <<reconcile>>
    BY DEF ReconcileJob, reconcile
  <2> QED BY <1>1, <2>1 DEF JobIds, Root
<1>4. /\ PageJob(j, at) \in JobIds \ {Root}
      /\ j = Root => PageJob(j, at)[1] = page
      /\ j # Root => PageJob(j, at)[1] = j[1]
  <2> HIDE DEF page
  <2>1. PageJob(j, at) = Append(j, page)
    BY DEF PageJob, page
  <2>2. Len(j) \in Nat /\ Len(Append(j, page)) = Len(j) + 1 /\ Append(j, page) \in Seq(Steps)
    BY <1>1, AppendProperties, LenProperties DEF JobIds
  <2>3. j # Root => 1 \in 1 .. Len(j)
    BY <2>2, EmptySeq DEF JobIds, Root
  <2> QED BY <1>1, <2>1, <2>2, <2>3, AppendProperties DEF JobIds, Root
<1>5. \A other : ReconcileJob(run) = ReconcileJob(other) => run = other
  <2> SUFFICES ASSUME NEW other, ReconcileJob(run) = ReconcileJob(other) PROVE run = other
    OBVIOUS
  <2>1. ReconcileJob(run)[1].run = run /\ ReconcileJob(other)[1].run = other
    BY DEF ReconcileJob
  <2> QED BY <2>1
<1> QED BY <1>2, <1>3, <1>4, <1>5 DEF IsReconcile

-----------------------------------------------------------------------------
(* The rows of jobs. *)

LEMMA RowFacts ==
  ASSUME TypeOK
  PROVE  \A j \in DOMAIN jobs :
           /\ j \in JobIds
           /\ jobs[j] \in Jobs
           /\ jobs[j].attempts \in 0 .. MaxAttempts
           /\ j \in lapsed => jobs[j].status = "leased"
  BY DEF TypeOK, Jobs

LEMMA IdleIsTyped == Idle \in Locals /\ Idle.stage = "idle" /\ Idle.job = Root
<1>1. Root \in JobIds
  BY DEF Root, JobIds
<1> QED BY <1>1 DEF Idle, Locals, NoRun

LEMMA ReconcileRuns ==
  ASSUME TypeOK, JobsHaveRuns, NEW run \in Nat, ReconcileJob(run) \in DOMAIN jobs
  PROVE  jobs[ReconcileJob(run)].run = run
<1>1. Root \in JobIds /\ 0 \in Nat
  BY DEF Root, JobIds
<1>2. /\ IsReconcile(ReconcileJob(run))
      /\ \A other : ReconcileJob(run) = ReconcileJob(other) => run = other
  BY <1>1, JobNames
<1> QED BY <1>2 DEF JobsHaveRuns

LEMMA InitInv == Init => IInv
<1> SUFFICES ASSUME Init PROVE IInv
  OBVIOUS
<1> DEFINE row == NewJob(NoRun, Top, 0)
<1>1. /\ DOMAIN jobs = {Root} /\ jobs[Root] = row /\ runs = 0 /\ lapsed = {}
      /\ \A p \in Procs : work[p] = Idle
      /\ work \in [Procs -> {Idle}]
  BY DEF Init
<1>2. Root \in JobIds
  BY DEF Root, JobIds
<1>3. row \in Jobs /\ row.run = NoRun
  BY DriveSyncAssumption DEF NewJob, Jobs, NoRun, Top
<1> HIDE DEF row
<1>4. TypeOK
  <2>1. /\ parent \in [Items -> Places] /\ moved \subseteq Items
        /\ connection \in {"active", "reauthorization_required"}
        /\ sourceState \in [Files -> {"absent", "active", "deleted"}]
        /\ mark \in [Files -> Nat]
    BY DriveSyncAssumption DEF Init, NoRun
  <2>2. DOMAIN jobs \subseteq JobIds /\ \A j \in DOMAIN jobs : jobs[j] \in Jobs
    BY <1>1, <1>2, <1>3
  <2>3. work \in [Procs -> Locals] /\ \A p \in Procs : work[p].job \in DOMAIN jobs
    BY <1>1, IdleIsTyped
  <2>4. runs \in Nat /\ stalls \in 0 .. MaxStalls /\ grants \in 0 .. MaxGrants
    BY <1>1, DriveSyncAssumption DEF Init
  <2> QED BY <1>1, <2>1, <2>2, <2>3, <2>4 DEF TypeOK
<1>5. JobsHaveRuns
  BY <1>1, <1>3 DEF JobsHaveRuns, NoRun, IsReconcile
<1>6. RunsInHand
  BY <1>1, IdleIsTyped DEF RunsInHand, InHand, Beginning
<1>7. NoReconcileBeforeWalkEnds
  BY <1>1 DEF NoReconcileBeforeWalkEnds
<1> QED BY <1>4, <1>5, <1>6, <1>7 DEF IInv

\* A step that adds no job, revives no completed one and lets no worker begin to
\* write keeps the barrier.
LEMMA BarrierKept ==
  ASSUME IInv, UNCHANGED runs, DOMAIN jobs' = DOMAIN jobs,
         \A j \in DOMAIN jobs :
           /\ jobs'[j].run = jobs[j].run
           /\ j # Root /\ jobs[j].status = "completed" => jobs'[j].status = "completed",
         \A p \in Procs : InHand(p)' =>
           InHand(p) /\ work'[p].run = work[p].run /\ work'[p].job = work[p].job
  PROVE  JobsHaveRuns' /\ RunsInHand' /\ NoReconcileBeforeWalkEnds'
<1>1. JobsHaveRuns'
  BY DEF IInv, JobsHaveRuns
<1>2. \A run : OfRun(jobs, run)' = OfRun(jobs, run)
  BY DEF OfRun
<1>3. RunsInHand'
  <2>1. ASSUME NEW p \in Procs, InHand(p)'
        PROVE  /\ work'[p].run \in 1 .. runs'
               /\ ~IsReconcile(work'[p].job)
               /\ work'[p].job # Root => work'[p].run = jobs'[work'[p].job].run
               /\ work'[p].job = Root => OfRun(jobs', work'[p].run) = {}
    <3>1. InHand(p) /\ work'[p].run = work[p].run /\ work'[p].job = work[p].job
      BY <2>1
    <3>2. work[p].job \in DOMAIN jobs
      BY DEF IInv, TypeOK
    <3> QED BY <1>2, <3>1, <3>2 DEF IInv, RunsInHand
  <2>2. \A p, q \in Procs :
          Beginning(p)' /\ Beginning(q)' /\ work'[p].run = work'[q].run => p = q
    BY DEF IInv, RunsInHand, Beginning
  <2> QED BY <2>1, <2>2 DEF RunsInHand
<1>4. NoReconcileBeforeWalkEnds'
  <2> SUFFICES ASSUME NEW run \in 1 .. runs, ReconcileJob(run) \in DOMAIN jobs,
                      NEW j \in OfRun(jobs, run) \ {ReconcileJob(run)}
               PROVE  jobs'[j].status = "completed"
    BY <1>2 DEF NoReconcileBeforeWalkEnds
  <2>1. jobs[j].status = "completed"
    BY DEF IInv, NoReconcileBeforeWalkEnds
  <2>2. j \in DOMAIN jobs /\ j # Root
    BY DEF OfRun, IInv, JobsHaveRuns, NoRun
  <2> QED BY <2>1, <2>2
<1> QED BY <1>1, <1>3, <1>4

\* The sweep of a claim.
LEMMA SweptFacts ==
  ASSUME IInv
  PROVE  /\ DOMAIN Swept = DOMAIN jobs
         /\ \A j \in DOMAIN jobs :
              /\ Swept[j] \in Jobs
              /\ Swept[j].run = jobs[j].run
              /\ jobs[j].status = "completed" => Swept[j].status = "completed"
              /\ ~Exhausted(j) => Swept[j] = jobs[j]
<1> SUFFICES ASSUME NEW j \in DOMAIN jobs
             PROVE  /\ Swept[j] \in Jobs
                    /\ Swept[j].run = jobs[j].run
                    /\ jobs[j].status = "completed" => Swept[j].status = "completed"
                    /\ ~Exhausted(j) => Swept[j] = jobs[j]
  BY DEF Swept
<1>1. /\ jobs[j] \in Jobs
      /\ j \in lapsed => jobs[j].status = "leased"
  BY RowFacts DEF IInv
<1>2. CASE Exhausted(j)
  <2>1. Swept[j] = [jobs[j] EXCEPT !.status = "dead_letter", !.owner = NoWorker]
    BY <1>2 DEF Swept
  <2>2. jobs[j].status = "leased"
    BY <1>1, <1>2 DEF Exhausted
  <2>3. Swept[j] \in Jobs /\ Swept[j].run = jobs[j].run
    BY <1>1, <2>1 DEF Jobs
  <2> QED BY <1>2, <2>2, <2>3
<1>3. CASE ~Exhausted(j)
  BY <1>1, <1>3 DEF Swept
<1> QED BY <1>2, <1>3

\* A worker that has nothing in hand.
LEMMA WorkerPut ==
  ASSUME IInv, NEW p \in Procs, NEW locals \in Locals, locals.job \in DOMAIN jobs',
         DOMAIN jobs \subseteq DOMAIN jobs',
         work' = [work EXCEPT ![p] = locals]
  PROVE  /\ work' \in [Procs -> Locals]
         /\ \A q \in Procs : work'[q].job \in DOMAIN jobs'
         /\ work'[p] = locals
         /\ \A q \in Procs \ {p} : work'[q] = work[q]
<1>1. work \in [Procs -> Locals] /\ \A q \in Procs : work[q].job \in DOMAIN jobs
  BY DEF IInv, TypeOK
<1>2. /\ work' \in [Procs -> Locals]
      /\ work'[p] = locals
      /\ \A q \in Procs \ {p} : work'[q] = work[q]
  BY <1>1
<1> QED BY <1>1, <1>2

LEMMA ClaimInv ==
  ASSUME IInv, NEW p \in Procs, NEW j \in DOMAIN jobs, Claim(p, j)
  PROVE  IInv'
<1> DEFINE row == [jobs[j] EXCEPT !.status = "leased", !.owner = p, !.attempts = @ + 1]
           locals == [Idle EXCEPT !.stage = "claimed", !.job = j]
<1>1. /\ UNCHANGED <<parent, moved, connection, sourceState, mark, runs, stalls, grants>>
      /\ lapsed' = {i \in lapsed : ~Exhausted(i)} \ {j}
      /\ jobs' = [Swept EXCEPT ![j] = [Swept[j] EXCEPT !.status = "leased", !.owner = p, !.attempts = @ + 1]]
      /\ work' = [work EXCEPT ![p] = locals]
      /\ Runnable(j)
  BY DEF Claim, drive, index, counters
<1>2. /\ jobs[j] \in Jobs /\ j \in JobIds
      /\ jobs[j].attempts \in 0 .. MaxAttempts /\ jobs[j].attempts < MaxAttempts
      /\ jobs[j].status # "completed"
      /\ ~Exhausted(j)
  BY <1>1, RowFacts, DriveSyncAssumption DEF IInv, Runnable, Exhausted
<1>3. Swept[j] = jobs[j]
  BY <1>2, SweptFacts
<1>4. row \in Jobs /\ row.run = jobs[j].run /\ row.status = "leased"
  <2>1. jobs[j].attempts + 1 \in 0 .. MaxAttempts
    BY <1>2, DriveSyncAssumption
  <2> QED BY <1>2, <2>1 DEF Jobs
<1>5. /\ DOMAIN jobs' = DOMAIN jobs
      /\ jobs'[j] = row
      /\ \A i \in DOMAIN jobs : i # j => jobs'[i] = Swept[i]
  BY <1>1, <1>3, SweptFacts
<1>6. locals \in Locals /\ locals.job = j /\ locals.stage = "claimed"
  BY <1>2, IdleIsTyped DEF Locals
<1> HIDE DEF row, locals
<1>7. /\ work' \in [Procs -> Locals]
      /\ \A q \in Procs : work'[q].job \in DOMAIN jobs'
      /\ work'[p] = locals
      /\ \A q \in Procs \ {p} : work'[q] = work[q]
  BY <1>1, <1>5, <1>6, WorkerPut
<1>8. \A i \in DOMAIN jobs :
        /\ jobs'[i] \in Jobs
        /\ jobs'[i].run = jobs[i].run
        /\ jobs[i].status = "completed" => jobs'[i].status = "completed"
  BY <1>2, <1>4, <1>5, SweptFacts
<1>9. \A i \in lapsed' : i \in DOMAIN jobs' /\ jobs'[i].status = "leased"
  BY <1>1, <1>5, SweptFacts DEF IInv, TypeOK
<1>10. TypeOK'
  BY <1>1, <1>5, <1>7, <1>8, <1>9 DEF IInv, TypeOK
<1>11. \A q \in Procs : InHand(q)' =>
         InHand(q) /\ work'[q].run = work[q].run /\ work'[q].job = work[q].job
  BY <1>6, <1>7 DEF InHand
<1> QED BY <1>1, <1>5, <1>8, <1>10, <1>11, BarrierKept DEF IInv

LEMMA ClaimNothingInv ==
  ASSUME IInv, NEW p \in Procs, ClaimNothing(p)
  PROVE  IInv'
<1>1. /\ UNCHANGED <<parent, moved, connection, sourceState, mark, work, runs, stalls, grants>>
      /\ lapsed' = {i \in lapsed : ~Exhausted(i)}
      /\ jobs' = Swept
  BY DEF ClaimNothing, drive, index, counters
<1>2. /\ DOMAIN jobs' = DOMAIN jobs
      /\ \A i \in DOMAIN jobs :
           /\ jobs'[i] \in Jobs
           /\ jobs'[i].run = jobs[i].run
           /\ jobs[i].status = "completed" => jobs'[i].status = "completed"
  BY <1>1, SweptFacts
<1>3. \A i \in lapsed' : i \in DOMAIN jobs' /\ jobs'[i].status = "leased"
  BY <1>1, <1>2, SweptFacts DEF IInv, TypeOK
<1>4. TypeOK'
  BY <1>1, <1>2, <1>3 DEF IInv, TypeOK
<1> QED BY <1>1, <1>2, <1>4, BarrierKept DEF IInv, InHand

-----------------------------------------------------------------------------
(* Steps that write no job. *)

\* A worker goes on, without beginning to write.
LEMMA WorkerMoves ==
  ASSUME IInv, NEW p \in Procs, NEW locals \in Locals,
         UNCHANGED <<parent, moved, connection, jobs, lapsed, runs, stalls, grants>>,
         sourceState' \in [Files -> {"absent", "active", "deleted"}],
         mark' \in [Files -> Nat],
         work' = [work EXCEPT ![p] = locals],
         locals.job \in DOMAIN jobs,
         locals.stage \in {"writing", "marked"}
           => InHand(p) /\ locals.run = work[p].run /\ locals.job = work[p].job
  PROVE  IInv'
<1>1. /\ work' \in [Procs -> Locals]
      /\ \A q \in Procs : work'[q].job \in DOMAIN jobs'
      /\ work'[p] = locals
      /\ \A q \in Procs \ {p} : work'[q] = work[q]
  BY WorkerPut
<1>2. TypeOK'
  BY <1>1 DEF IInv, TypeOK
<1>3. \A q \in Procs : InHand(q)' =>
        InHand(q) /\ work'[q].run = work[q].run /\ work'[q].job = work[q].job
  BY <1>1 DEF InHand
<1> QED BY <1>2, <1>3, BarrierKept DEF IInv

LEMMA LocalsOf ==
  ASSUME IInv, NEW p \in Procs
  PROVE  work[p] \in Locals /\ work[p].job \in DOMAIN jobs
  BY DEF IInv, TypeOK

LEMMA LoadInv == ASSUME IInv, NEW p \in Procs, Load(p) PROVE IInv'
<1> DEFINE locals == [work[p] EXCEPT !.stage = "loaded"]
<1>1. /\ UNCHANGED <<parent, moved, connection, sourceState, mark, jobs, lapsed, runs, stalls, grants>>
      /\ work' = [work EXCEPT ![p] = locals]
  BY DEF Load, drive, index, counters
<1>2. locals \in Locals /\ locals.stage = "loaded" /\ locals.job \in DOMAIN jobs
  BY LocalsOf DEF Locals
<1>3. /\ sourceState' \in [Files -> {"absent", "active", "deleted"}]
      /\ mark' \in [Files -> Nat]
  BY <1>1 DEF IInv, TypeOK
<1> HIDE DEF locals
<1> QED BY <1>1, <1>2, <1>3, WorkerMoves

LEMMA EnqueueInv == ASSUME IInv, NEW p \in Procs, NEW f \in Files, Enqueue(p, f) PROVE IInv'
<1> DEFINE locals == [work[p] EXCEPT !.todo = @ \ {f}]
<1>1. /\ UNCHANGED <<parent, moved, connection, mark, jobs, lapsed, runs, stalls, grants>>
      /\ sourceState' = [sourceState EXCEPT ![f] = "active"]
      /\ work' = [work EXCEPT ![p] = locals]
  BY DEF Enqueue, drive, counters
<1>2. /\ locals \in Locals /\ locals.stage = work[p].stage
      /\ locals.job = work[p].job /\ locals.run = work[p].run
      /\ locals.job \in DOMAIN jobs
  BY LocalsOf DEF Locals
<1>3. /\ sourceState' \in [Files -> {"absent", "active", "deleted"}]
      /\ mark' \in [Files -> Nat]
  BY <1>1 DEF IInv, TypeOK
<1> HIDE DEF locals
<1> QED BY <1>1, <1>2, <1>3, WorkerMoves DEF InHand

LEMMA MarkSeenInv == ASSUME IInv, NEW p \in Procs, MarkSeen(p) PROVE IInv'
<1> DEFINE locals == [work[p] EXCEPT !.stage = "marked"]
<1>1. /\ UNCHANGED <<parent, moved, connection, sourceState, jobs, lapsed, runs, stalls, grants>>
      /\ mark' = [f \in Files |-> IF f \in Marked(p) THEN work[p].run ELSE mark[f]]
      /\ work' = [work EXCEPT ![p] = locals]
      /\ work[p].stage = "writing"
  BY DEF MarkSeen, drive, counters
<1>2. /\ locals \in Locals /\ locals.stage = "marked"
      /\ locals.job = work[p].job /\ locals.run = work[p].run
      /\ locals.job \in DOMAIN jobs
      /\ work[p].run \in Nat
  BY LocalsOf DEF Locals
<1>3. /\ sourceState' \in [Files -> {"absent", "active", "deleted"}]
      /\ mark' \in [Files -> Nat]
  BY <1>1, <1>2 DEF IInv, TypeOK
<1> HIDE DEF locals
<1> QED BY <1>1, <1>2, <1>3, WorkerMoves DEF InHand

LEMMA ReconcileInv == ASSUME IInv, NEW p \in Procs, Reconcile(p) PROVE IInv'
<1> DEFINE locals == [work[p] EXCEPT !.stage = "reconciled"]
<1>1. /\ UNCHANGED <<parent, moved, connection, jobs, lapsed, runs, stalls, grants>>
      /\ work' = [work EXCEPT ![p] = locals]
      /\ sourceState' \in [Files -> {"absent", "active", "deleted"}]
      /\ mark' \in [Files -> Nat]
  BY DEF Reconcile, drive, counters, IInv, TypeOK, NoRun
<1>2. locals \in Locals /\ locals.stage = "reconciled" /\ locals.job \in DOMAIN jobs
  BY LocalsOf DEF Locals
<1> HIDE DEF locals
<1> QED BY <1>1, <1>2, WorkerMoves

LEMMA CrashInv == ASSUME IInv, NEW p \in Procs, Crash(p) PROVE IInv'
<1>1. /\ UNCHANGED <<parent, moved, connection, sourceState, mark, jobs, lapsed, runs, stalls, grants>>
      /\ work' = [work EXCEPT ![p] = Idle]
  BY DEF Crash, drive, index, counters
<1>2. /\ sourceState' \in [Files -> {"absent", "active", "deleted"}]
      /\ mark' \in [Files -> Nat]
      /\ Root \in DOMAIN jobs
  BY <1>1 DEF IInv, TypeOK, JobsHaveRuns
<1> QED BY <1>1, <1>2, IdleIsTyped, WorkerMoves

LEMMA LeaseExpiresInv == ASSUME IInv, NEW j \in DOMAIN jobs, LeaseExpires(j) PROVE IInv'
<1>1. /\ UNCHANGED <<parent, moved, connection, sourceState, mark, jobs, work, runs, grants>>
      /\ lapsed' = lapsed \cup {j}
      /\ jobs[j].status = "leased"
      /\ stalls' = stalls \/ (stalls < MaxStalls /\ stalls' = stalls + 1)
  BY DEF LeaseExpires, drive, index
<1>2. stalls' \in 0 .. MaxStalls
  BY <1>1, DriveSyncAssumption DEF IInv, TypeOK
<1>3. TypeOK'
  BY <1>1, <1>2 DEF IInv, TypeOK
<1> QED BY <1>1, <1>3, BarrierKept DEF IInv, InHand

LEMMA TreeChangesInv == ASSUME IInv, TreeChanges PROVE IInv'
<1>1. /\ UNCHANGED <<connection, sourceState, mark, jobs, lapsed, work, runs, stalls, grants>>
      /\ parent' \in [Items -> Places] /\ moved' \subseteq Items
  <2>1. \A i \in Items : Subtree(i) \subseteq Items
    BY DEF Subtree
  <2> QED BY <2>1 DEF TreeChanges, index, counters, IInv, TypeOK
<1>2. TypeOK'
  BY <1>1 DEF IInv, TypeOK
<1> QED BY <1>1, <1>2, BarrierKept DEF IInv, InHand

LEMMA StutterInv == ASSUME IInv, UNCHANGED vars PROVE IInv'
<1>1. UNCHANGED <<parent, moved, connection, sourceState, mark, jobs, lapsed, work, runs, stalls, grants>>
  BY DEF vars, drive, index, counters
<1>2. TypeOK'
  BY <1>1 DEF IInv, TypeOK
<1> QED BY <1>1, <1>2, BarrierKept DEF IInv, InHand

-----------------------------------------------------------------------------
(* A run begins, or goes on, with a page. *)

LEMMA ListPageInv == ASSUME IInv, NEW p \in Procs, ListPage(p) PROVE IInv'
<1> DEFINE j == work[p].job
           rest == {i \in Items : parent[i] = jobs[j].folder /\ i > jobs[j].token}
           page == {i \in rest : Cardinality({k \in rest : k <= i}) <= PageSize}
           next == IF page = rest THEN 0 ELSE CHOOSE i \in page : \A k \in page : k <= i
           run == IF jobs[j].run = NoRun THEN runs + 1 ELSE jobs[j].run
           locals == [work[p] EXCEPT !.stage = "writing", !.run = run, !.todo = page \cap Files,
                        !.seen = page \cap Files, !.children = page \cap Folders, !.next = next]
<1>1. /\ UNCHANGED <<parent, moved, connection, sourceState, mark, jobs, lapsed, stalls, grants>>
      /\ runs' = IF jobs[j].run = NoRun THEN runs + 1 ELSE runs
      /\ work' = [work EXCEPT ![p] = locals]
      /\ work[p].stage = "loaded"
      /\ ~IsReconcile(j)
  <2>1. /\ UNCHANGED <<drive, connection, index, jobs, lapsed, stalls, grants>>
        /\ runs' = IF jobs[j].run = NoRun THEN runs + 1 ELSE runs
        /\ work' = [work EXCEPT ![p].stage = "writing", ![p].run = run,
                     ![p].todo = page \cap Files, ![p].seen = page \cap Files,
                     ![p].children = page \cap Folders, ![p].next = next]
        /\ work[p].stage = "loaded"
        /\ ~IsReconcile(j)
    BY Zenon DEF ListPage
  <2> HIDE DEF next, page, rest, run
  <2>2. work' = [work EXCEPT ![p] = locals]
    BY <2>1 DEF IInv, TypeOK
  <2> QED BY <2>1, <2>2 DEF drive, index
<1>2. page \subseteq Items /\ next \in Nat
  BY PageFacts
<1> HIDE DEF page, next
<1>3. /\ j \in DOMAIN jobs
      /\ jobs[j].run \in Nat /\ jobs[j].run <= runs
      /\ jobs[j].run = NoRun <=> j = Root
      /\ runs \in Nat
  BY LocalsOf, RowFacts DEF IInv, TypeOK, Jobs, JobsHaveRuns
<1>4. /\ run \in 1 .. runs' /\ run \in Nat
      /\ runs' \in Nat /\ runs <= runs'
      /\ j = Root => run = runs + 1 /\ runs' = runs + 1
      /\ j # Root => run = jobs[j].run /\ runs' = runs
  BY <1>1, <1>3 DEF NoRun
<1> HIDE DEF run
<1>5. /\ locals \in Locals /\ locals.stage = "writing"
      /\ locals.run = run /\ locals.job = j
  <2>1. page \cap Files \in SUBSET Files /\ page \cap Folders \in SUBSET Folders
    OBVIOUS
  <2> QED BY <1>2, <1>4, <2>1, LocalsOf DEF Locals
<1> HIDE DEF locals
<1>6. /\ work' \in [Procs -> Locals]
      /\ \A q \in Procs : work'[q].job \in DOMAIN jobs'
      /\ work'[p] = locals
      /\ \A q \in Procs \ {p} : work'[q] = work[q]
  BY <1>1, <1>3, <1>5, WorkerPut
<1>7. TypeOK'
  BY <1>1, <1>4, <1>6 DEF IInv, TypeOK
<1>8. JobsHaveRuns'
  <2>1. \A i \in DOMAIN jobs : jobs[i].run <= runs'
    <3>1. \A i \in DOMAIN jobs : jobs[i].run \in Nat /\ jobs[i].run <= runs
      BY RowFacts DEF IInv, JobsHaveRuns, Jobs
    <3> QED BY <1>3, <1>4, <3>1
  <2> QED BY <1>1, <2>1 DEF IInv, JobsHaveRuns
<1>9. OfRun(jobs, runs + 1) = {}
  <2>1. \A i \in DOMAIN jobs : jobs[i].run \in Nat /\ jobs[i].run <= runs
    BY RowFacts DEF IInv, JobsHaveRuns, Jobs
  <2> QED BY <1>3, <2>1 DEF OfRun
<1>10. RunsInHand'
  <2>1. ASSUME NEW q \in Procs, InHand(q)'
        PROVE  /\ work'[q].run \in 1 .. runs'
               /\ ~IsReconcile(work'[q].job)
               /\ work'[q].job # Root => work'[q].run = jobs'[work'[q].job].run
               /\ work'[q].job = Root => OfRun(jobs', work'[q].run) = {}
    <3>1. CASE q = p
      <4>1. OfRun(jobs', runs + 1) = {}
        BY <1>1, <1>9 DEF OfRun
      <4> QED BY <1>1, <1>4, <1>5, <1>6, <3>1, <4>1
    <3>2. CASE q # p
      <4>1. InHand(q) /\ work'[q] = work[q]
        BY <1>6, <2>1, <3>2 DEF InHand
      <4>2. work[q].run \in 1 .. runs'
        BY <1>3, <1>4, <4>1 DEF IInv, RunsInHand
      <4> QED BY <1>1, <4>1, <4>2 DEF IInv, RunsInHand, OfRun
    <3> QED BY <3>1, <3>2
  <2>2. ASSUME NEW q \in Procs, NEW r \in Procs, Beginning(q)', Beginning(r)', work'[q].run = work'[r].run
        PROVE  q = r
    <3>1. \A o \in Procs \ {p} : Beginning(o)' => Beginning(o) /\ work'[o] = work[o] /\ work[o].run \in 1 .. runs
      BY <1>6 DEF IInv, RunsInHand, Beginning, InHand
    <3>2. Beginning(p)' => work'[p].run = runs + 1
      BY <1>4, <1>5, <1>6 DEF Beginning
    <3>3. runs + 1 \notin 1 .. runs
      BY <1>3
    <3>4. CASE q = p /\ r # p
      BY <2>2, <3>1, <3>2, <3>3, <3>4
    <3>5. CASE q # p /\ r = p
      BY <2>2, <3>1, <3>2, <3>3, <3>5
    <3>6. CASE q # p /\ r # p
      BY <2>2, <3>1, <3>6 DEF IInv, RunsInHand
    <3> QED BY <3>4, <3>5, <3>6
  <2> QED BY <2>1, <2>2 DEF RunsInHand
<1>11. NoReconcileBeforeWalkEnds'
  <2> SUFFICES ASSUME NEW r \in 1 .. runs', ReconcileJob(r) \in DOMAIN jobs,
                      NEW i \in OfRun(jobs, r) \ {ReconcileJob(r)}
               PROVE  jobs[i].status = "completed"
    BY <1>1 DEF NoReconcileBeforeWalkEnds, OfRun
  <2>1. r \in Nat
    BY <1>4
  <2>2. jobs[ReconcileJob(r)].run = r
    BY <2>1, ReconcileRuns DEF IInv
  <2>3. r <= runs
    BY <2>2 DEF IInv, JobsHaveRuns
  <2>4. r \in 1 .. runs
    BY <1>3, <2>1, <2>3
  <2> QED BY <2>4 DEF IInv, NoReconcileBeforeWalkEnds
<1> QED BY <1>7, <1>8, <1>10, <1>11 DEF IInv

-----------------------------------------------------------------------------
(* A page ends. *)

\* The jobs a page asks for are new jobs of its run, and none is a reconciliation.
LEMMA ScheduledFacts ==
  ASSUME IInv, NEW p \in Procs, InHand(p), NEW i \in DOMAIN Scheduled(p)
  PROVE  /\ i \in JobIds \ {Root}
         /\ ~IsReconcile(i)
         /\ Scheduled(p)[i] \in Jobs
         /\ Scheduled(p)[i].run = work[p].run
         /\ Scheduled(p)[i].status = "pending"
<1> DEFINE run == work[p].run
           j == work[p].job
           folders == {FolderJob(run, d) : d \in work[p].children}
           pages == IF work[p].next = 0 THEN {} ELSE {PageJob(j, work[p].next)}
<1>1. /\ run \in Nat /\ work[p].next \in Nat /\ work[p].children \subseteq Folders
      /\ j \in DOMAIN jobs /\ j \in JobIds /\ jobs[j].folder \in Nat /\ ~IsReconcile(j)
  BY LocalsOf, RowFacts DEF IInv, RunsInHand, Locals, Jobs
<1>2. Folders \subseteq Nat
  BY DriveSyncAssumption DEF Items
<1>3. \A r, f, t \in Nat : /\ NewJob(r, f, t) \in Jobs
                           /\ NewJob(r, f, t).run = r
                           /\ NewJob(r, f, t).status = "pending"
  BY DriveSyncAssumption DEF NewJob, Jobs
<1>4. DOMAIN FolderRows(p) = folders /\ DOMAIN PageRows(p) = pages
  BY DEF FolderRows, PageRows
<1>5. i \in folders \cup pages
  BY <1>4 DEF Scheduled, Insert
<1>6. Scheduled(p)[i] = IF i \in folders THEN FolderRows(p)[i] ELSE PageRows(p)[i]
  BY <1>4, <1>5 DEF Scheduled, Insert
<1>7. CASE i \in folders
  <2>1. PICK d \in work[p].children : i = FolderJob(run, d)
    BY <1>7
  <2>2. d \in Nat
    BY <1>1, <1>2
  <2>3. i \in JobIds \ {Root} /\ ~IsReconcile(i) /\ i[1].at = d
    BY <1>1, <2>1, <2>2, JobNames
  <2>4. Scheduled(p)[i] = NewJob(run, d, 0)
    BY <1>6, <1>7, <2>3 DEF FolderRows
  <2> QED BY SMTT(60), <1>1, <1>3, <2>2, <2>3, <2>4
<1>8. CASE i \in pages /\ i \notin folders
  <2>1. i = PageJob(j, work[p].next)
    BY <1>8
  <2>2. i \in JobIds \ {Root} /\ ~IsReconcile(i)
    BY <1>1, <2>1, JobNames
  <2>3. Scheduled(p)[i] = NewJob(run, jobs[j].folder, work[p].next)
    BY <1>4, <1>6, <1>8 DEF PageRows
  <2> QED BY <1>1, <1>3, <2>2, <2>3
<1> QED BY <1>5, <1>7, <1>8

\* What the end of a page leaves of the rows: its own is completed, the others are
\* as they were, and the reconciliation comes only with the end of the walk.
LEMMA FinishedFacts ==
  ASSUME IInv, NEW p \in Procs, InHand(p)
  PROVE  LET js == FinishedRows(p)
             j == work[p].job
             run == work[p].run
         IN /\ DOMAIN jobs \subseteq DOMAIN js
            /\ js[j] \in Jobs /\ js[j].run = jobs[j].run /\ js[j].status = "completed"
            /\ \A i \in DOMAIN jobs \ {j} : js[i] = jobs[i]
            /\ \A i \in DOMAIN js \ DOMAIN jobs :
                 /\ i \in JobIds \ {Root}
                 /\ js[i] \in Jobs
                 /\ js[i].run = run
                 /\ IsReconcile(i) => i = ReconcileJob(run)
            /\ ReconcileJob(run) \in DOMAIN js \ DOMAIN jobs =>
                 \A i \in OfRun(js, run) \ {ReconcileJob(run)} : js[i].status = "completed"
<1> DEFINE j == work[p].job
           run == work[p].run
           inserted == Insert(jobs, Scheduled(p))
           ended == End(inserted, j, "completed")
           reconcile == [i \in {ReconcileJob(run)} |-> NewJob(run, Top, 0)]
           js == FinishedRows(p)
<1>1. run \in Nat /\ j \in DOMAIN jobs /\ j \in JobIds /\ jobs[j] \in Jobs
  BY LocalsOf, RowFacts DEF IInv, Locals
<1>2. /\ ReconcileJob(run) \in JobIds \ {Root}
      /\ NewJob(run, Top, 0) \in Jobs
      /\ NewJob(run, Top, 0).run = run
  <2>1. ReconcileJob(run) \in JobIds \ {Root}
    BY <1>1, JobNames
  <2>2. NewJob(run, Top, 0) \in Jobs /\ NewJob(run, Top, 0).run = run
    BY <1>1, DriveSyncAssumption DEF NewJob, Jobs, Top
  <2> QED BY <2>1, <2>2
<1>3. /\ DOMAIN inserted = DOMAIN jobs \cup DOMAIN Scheduled(p)
      /\ \A i \in DOMAIN jobs : inserted[i] = jobs[i]
      /\ \A i \in DOMAIN inserted \ DOMAIN jobs : inserted[i] = Scheduled(p)[i]
  BY DEF Insert
<1> HIDE DEF inserted
<1>4. /\ DOMAIN ended = DOMAIN inserted
      /\ ended[j] = [jobs[j] EXCEPT !.status = "completed", !.owner = NoWorker]
      /\ \A i \in DOMAIN inserted \ {j} : ended[i] = inserted[i]
  BY <1>1, <1>3 DEF End
<1>5. ended[j] \in Jobs /\ ended[j].run = jobs[j].run /\ ended[j].status = "completed"
  BY <1>1, <1>4 DEF Jobs
<1>6. \A i \in DOMAIN ended \ DOMAIN jobs :
        /\ i \in JobIds \ {Root} /\ ~IsReconcile(i)
        /\ ended[i] \in Jobs /\ ended[i].run = run
  BY <1>1, <1>3, <1>4, ScheduledFacts
<1>7. js = IF WalkEnded(ended, run) THEN Insert(ended, reconcile) ELSE ended
  BY DEF FinishedRows, inserted
<1> HIDE DEF ended
<1>8. DOMAIN reconcile = {ReconcileJob(run)} /\ reconcile[ReconcileJob(run)] = NewJob(run, Top, 0)
  OBVIOUS
<1> HIDE DEF reconcile, js
<1>9. CASE ~WalkEnded(ended, run)
  <2>1. js = ended
    BY <1>7, <1>9
  <2>2. ReconcileJob(run) \notin DOMAIN js \ DOMAIN jobs
    BY <1>1, <1>6, <2>1, JobNames
  <2> QED BY <1>1, <1>3, <1>4, <1>5, <1>6, <2>1, <2>2 DEF js
<1>10. CASE WalkEnded(ended, run)
  <2>1. /\ DOMAIN js = DOMAIN ended \cup {ReconcileJob(run)}
        /\ \A i \in DOMAIN ended : js[i] = ended[i]
        /\ \A i \in DOMAIN js \ DOMAIN ended : i = ReconcileJob(run) /\ js[i] = NewJob(run, Top, 0)
    BY <1>7, <1>8, <1>10 DEF Insert
  <2>2. \A i \in OfRun(js, run) \ {ReconcileJob(run)} : js[i].status = "completed"
    BY <1>10, <2>1 DEF WalkEnded, OfRun
  <2>3. \A i \in DOMAIN js \ DOMAIN jobs :
          /\ i \in JobIds \ {Root}
          /\ js[i] \in Jobs
          /\ js[i].run = run
          /\ IsReconcile(i) => i = ReconcileJob(run)
    BY <1>2, <1>6, <2>1
  <2> QED BY <1>1, <1>3, <1>4, <1>5, <2>1, <2>2, <2>3 DEF js
<1> QED BY <1>9, <1>10

LEMMA FinishPageInv == ASSUME IInv, NEW p \in Procs, FinishPage(p) PROVE IInv'
<1> DEFINE j == work[p].job
           run == work[p].run
<1>1. /\ UNCHANGED <<parent, moved, connection, sourceState, mark, lapsed, runs, stalls, grants>>
      /\ jobs' = FinishedRows(p)
      /\ work' = [work EXCEPT ![p] = Idle]
      /\ InHand(p)
      /\ jobs[j].status = "leased" /\ j \notin lapsed
  BY DEF FinishPage, drive, index, counters, InHand, HoldsLease, Owns
<1>2. /\ DOMAIN jobs \subseteq DOMAIN jobs'
      /\ jobs'[j] \in Jobs /\ jobs'[j].run = jobs[j].run /\ jobs'[j].status = "completed"
      /\ \A i \in DOMAIN jobs \ {j} : jobs'[i] = jobs[i]
      /\ \A i \in DOMAIN jobs' \ DOMAIN jobs :
           /\ i \in JobIds \ {Root}
           /\ jobs'[i] \in Jobs
           /\ jobs'[i].run = run
           /\ IsReconcile(i) => i = ReconcileJob(run)
      /\ ReconcileJob(run) \in DOMAIN jobs' \ DOMAIN jobs =>
           \A i \in OfRun(jobs', run) \ {ReconcileJob(run)} : jobs'[i].status = "completed"
  BY <1>1, FinishedFacts
<1>3. /\ run \in 1 .. runs /\ run \in Nat /\ runs \in Nat
      /\ j \in DOMAIN jobs
      /\ ~IsReconcile(j)
      /\ j # Root => run = jobs[j].run
      /\ j = Root => OfRun(jobs, run) = {}
  <2>1. /\ run \in 1 .. runs
        /\ ~IsReconcile(j)
        /\ j # Root => run = jobs[j].run
        /\ j = Root => OfRun(jobs, run) = {}
    BY <1>1 DEF IInv, RunsInHand
  <2>2. runs \in Nat /\ j \in DOMAIN jobs
    BY LocalsOf DEF IInv, TypeOK
  <2> QED BY <2>1, <2>2
<1> HIDE DEF j, run
<1>4. \A i \in DOMAIN jobs : jobs'[i].run = jobs[i].run
  BY <1>2
<1>5. /\ work' \in [Procs -> Locals]
      /\ \A q \in Procs : work'[q].job \in DOMAIN jobs'
      /\ work'[p] = Idle
      /\ \A q \in Procs \ {p} : work'[q] = work[q]
  <2>1. Idle \in Locals /\ Idle.job \in DOMAIN jobs'
    BY <1>2, IdleIsTyped DEF IInv, JobsHaveRuns
  <2> QED BY <1>1, <1>2, <2>1, WorkerPut
<1>6. TypeOK'
  <2>1. DOMAIN jobs' \subseteq JobIds /\ \A i \in DOMAIN jobs' : jobs'[i] \in Jobs
    BY <1>2, <1>3, RowFacts DEF IInv
  <2>2. \A i \in lapsed : i \in DOMAIN jobs' /\ jobs'[i].status = "leased"
    BY <1>1, <1>2 DEF IInv, TypeOK
  <2> QED BY <1>1, <1>5, <2>1, <2>2 DEF IInv, TypeOK
<1>7. JobsHaveRuns'
  <2>1. \A i \in DOMAIN jobs : /\ jobs'[i].run <= runs
                               /\ jobs'[i].run = NoRun <=> i = Root
                               /\ IsReconcile(i) => i = ReconcileJob(jobs'[i].run)
    BY <1>4 DEF IInv, JobsHaveRuns
  <2>2. \A i \in DOMAIN jobs' \ DOMAIN jobs :
          /\ jobs'[i].run <= runs
          /\ jobs'[i].run # NoRun /\ i # Root
          /\ IsReconcile(i) => i = ReconcileJob(jobs'[i].run)
    BY <1>2, <1>3 DEF NoRun
  <2> QED BY <1>1, <1>2, <2>1, <2>2 DEF IInv, JobsHaveRuns
\* No reconciliation of this page's run was queued before, and no other worker
\* begins that run.
<1>8. ReconcileJob(run) \notin DOMAIN jobs
  <2> SUFFICES ASSUME ReconcileJob(run) \in DOMAIN jobs PROVE FALSE
    OBVIOUS
  <2>1. jobs[ReconcileJob(run)].run = run
    BY <1>3, ReconcileRuns DEF IInv
  <2>2. j # Root
    BY <1>3, <2>1 DEF OfRun
  <2>3. j \in OfRun(jobs, run) /\ j # ReconcileJob(run)
    <3>1. IsReconcile(ReconcileJob(run))
      BY <1>3, RowFacts, JobNames DEF IInv
    <3> QED BY <1>3, <2>2, <3>1 DEF OfRun
  <2>4. jobs[j].status = "completed"
    BY <1>3, <2>3 DEF IInv, NoReconcileBeforeWalkEnds
  <2> QED BY <1>1, <2>4 DEF j
<1>9. RunsInHand'
  <2>1. ASSUME NEW q \in Procs, InHand(q)'
        PROVE  q # p /\ InHand(q) /\ work'[q] = work[q]
    BY <1>5, <2>1, IdleIsTyped DEF InHand
  <2>2. ASSUME NEW q \in Procs, InHand(q)'
        PROVE  /\ work'[q].run \in 1 .. runs'
               /\ ~IsReconcile(work'[q].job)
               /\ work'[q].job # Root => work'[q].run = jobs'[work'[q].job].run
    BY SMTT(60), <1>1, <1>4, <2>1, <2>2, LocalsOf DEF IInv, RunsInHand
  <2>3. ASSUME NEW q \in Procs, InHand(q)', work'[q].job = Root
        PROVE  OfRun(jobs', work'[q].run) = {}
    <3>1. Beginning(q) /\ q # p /\ work'[q].run = work[q].run /\ OfRun(jobs, work[q].run) = {}
      BY <2>1, <2>3 DEF IInv, RunsInHand, Beginning
    <3>2. work[q].run # run
      <4>1. CASE j = Root
        BY <1>1, <3>1, <4>1 DEF IInv, RunsInHand, Beginning, j, run
      <4>2. CASE j # Root
        BY <1>3, <3>1, <4>2 DEF OfRun
      <4> QED BY <4>1, <4>2
    <3> QED BY <1>2, <1>4, <3>1, <3>2 DEF OfRun
  <2>4. \A q, r \in Procs : Beginning(q)' /\ Beginning(r)' /\ work'[q].run = work'[r].run => q = r
    BY <2>1 DEF IInv, RunsInHand, Beginning
  <2> QED BY <2>2, <2>3, <2>4 DEF RunsInHand
<1>10. NoReconcileBeforeWalkEnds'
  <2> SUFFICES ASSUME NEW r \in 1 .. runs, ReconcileJob(r) \in DOMAIN jobs',
                      NEW i \in OfRun(jobs', r) \ {ReconcileJob(r)}
               PROVE  jobs'[i].status = "completed"
    BY <1>1 DEF NoReconcileBeforeWalkEnds
  <2>1. r \in Nat /\ i \in DOMAIN jobs' /\ jobs'[i].run = r
    BY <1>3 DEF OfRun
  <2>2. CASE r = run
    BY <1>2, <1>8, <2>2
  <2>3. CASE r # run
    <3>1. ReconcileJob(r) \in DOMAIN jobs
      <4>1. IsReconcile(ReconcileJob(r)) /\ (ReconcileJob(r) = ReconcileJob(run) => r = run)
        BY <1>3, <2>1, RowFacts, JobNames DEF IInv
      <4> QED BY <1>2, <2>3, <4>1
    <3>2. i \in DOMAIN jobs /\ jobs[i].run = r
      BY <1>2, <1>4, <2>1, <2>3
    <3>3. jobs[i].status = "completed"
      BY <3>1, <3>2 DEF OfRun, IInv, NoReconcileBeforeWalkEnds
    <3> QED BY <1>2, <3>2, <3>3
  <2> QED BY <2>2, <2>3
<1> QED BY <1>6, <1>7, <1>9, <1>10 DEF IInv

-----------------------------------------------------------------------------
(* A job ends otherwise. *)

\* A leased job gets another status, and its worker rests.
LEMMA JobEnded ==
  ASSUME IInv, NEW p \in Procs, NEW j \in DOMAIN jobs,
         NEW status \in {"pending", "leased", "retry_wait", "completed", "failed", "dead_letter"},
         jobs[j].status = "leased",
         UNCHANGED <<parent, moved, sourceState, mark, runs, stalls, grants>>,
         connection' \in {"active", "reauthorization_required"},
         jobs' = End(jobs, j, status),
         lapsed' \subseteq lapsed, j \notin lapsed',
         work' = [work EXCEPT ![p] = Idle]
  PROVE  IInv'
<1>1. jobs[j] \in Jobs
  BY RowFacts DEF IInv
<1>2. /\ DOMAIN jobs' = DOMAIN jobs
      /\ jobs'[j] = [jobs[j] EXCEPT !.status = status, !.owner = NoWorker]
      /\ \A i \in DOMAIN jobs \ {j} : jobs'[i] = jobs[i]
  BY DEF End
<1>3. jobs'[j] \in Jobs /\ jobs'[j].run = jobs[j].run
  BY <1>1, <1>2 DEF Jobs
<1>4. /\ work' \in [Procs -> Locals]
      /\ \A q \in Procs : work'[q].job \in DOMAIN jobs'
      /\ work'[p] = Idle
      /\ \A q \in Procs \ {p} : work'[q] = work[q]
  <2>1. Idle \in Locals /\ Idle.job \in DOMAIN jobs'
    BY <1>2, IdleIsTyped DEF IInv, JobsHaveRuns
  <2> QED BY <1>2, <2>1, WorkerPut
<1>5. TypeOK'
  <2>1. \A i \in DOMAIN jobs' : jobs'[i] \in Jobs
    BY <1>2, <1>3, RowFacts DEF IInv
  <2>2. \A i \in lapsed' : i \in DOMAIN jobs' /\ jobs'[i].status = "leased"
    BY <1>2 DEF IInv, TypeOK
  <2> QED BY <1>2, <1>4, <2>1, <2>2 DEF IInv, TypeOK
<1>6. \A q \in Procs : InHand(q)' =>
        InHand(q) /\ work'[q].run = work[q].run /\ work'[q].job = work[q].job
  BY <1>4, IdleIsTyped DEF InHand
<1> QED BY <1>2, <1>3, <1>5, <1>6, BarrierKept DEF IInv

LEMMA CompleteReconciliationInv ==
  ASSUME IInv, NEW p \in Procs, CompleteReconciliation(p)
  PROVE  IInv'
<1> DEFINE j == work[p].job
<1>1. /\ UNCHANGED <<parent, moved, connection, sourceState, mark, lapsed, runs, stalls, grants>>
      /\ work' = [work EXCEPT ![p] = Idle]
      /\ jobs[j].status = "leased" /\ j \notin lapsed
      /\ jobs' = jobs \/ jobs' = End(jobs, j, "completed")
  BY DEF CompleteReconciliation, drive, index, counters, HoldsLease, Owns
<1>2. j \in DOMAIN jobs /\ Root \in DOMAIN jobs
  BY LocalsOf DEF IInv, JobsHaveRuns
<1>3. /\ connection' \in {"active", "reauthorization_required"}
      /\ sourceState' \in [Files -> {"absent", "active", "deleted"}]
      /\ mark' \in [Files -> Nat]
  BY <1>1 DEF IInv, TypeOK
<1>4. CASE jobs' = jobs
  BY <1>1, <1>2, <1>3, <1>4, IdleIsTyped, WorkerMoves
<1>5. CASE jobs' = End(jobs, j, "completed")
  BY <1>1, <1>2, <1>3, <1>5, JobEnded
<1> QED BY <1>1, <1>4, <1>5

LEMMA FailInv ==
  ASSUME IInv, NEW p \in Procs, NEW retryable \in BOOLEAN, NEW reauthorization \in BOOLEAN,
         Fail(p, retryable, reauthorization)
  PROVE  IInv'
<1> DEFINE j == work[p].job
<1>1. /\ UNCHANGED <<parent, moved, sourceState, mark, runs, stalls, grants>>
      /\ work' = [work EXCEPT ![p] = Idle]
      /\ \/ /\ jobs[j].status = "leased"
            /\ jobs' = End(jobs, j, FailedStatus(j, retryable))
            /\ lapsed' = lapsed \ {j}
            /\ connection' \in {"reauthorization_required", connection}
         \/ UNCHANGED <<jobs, lapsed, connection>>
  BY DEF Fail, drive, index, counters, Owns
<1>2. j \in DOMAIN jobs /\ Root \in DOMAIN jobs
  BY LocalsOf DEF IInv, JobsHaveRuns
<1>3. /\ connection' \in {"active", "reauthorization_required"}
      /\ sourceState' \in [Files -> {"absent", "active", "deleted"}]
      /\ mark' \in [Files -> Nat]
  BY <1>1 DEF IInv, TypeOK
<1>4. FailedStatus(j, retryable) \in {"retry_wait", "failed", "dead_letter"}
  BY DEF FailedStatus
<1>5. CASE UNCHANGED <<jobs, lapsed, connection>>
  BY <1>1, <1>2, <1>3, <1>5, IdleIsTyped, WorkerMoves
<1>6. CASE /\ jobs[j].status = "leased"
           /\ jobs' = End(jobs, j, FailedStatus(j, retryable))
           /\ lapsed' = lapsed \ {j}
  <2> HIDE DEF j
  <2> QED BY <1>1, <1>2, <1>3, <1>4, <1>6, JobEnded
<1> QED BY <1>1, <1>5, <1>6

LEMMA ReauthorizeInv == ASSUME IInv, Reauthorize PROVE IInv'
<1> DEFINE row == NewJob(NoRun, Top, 0)
<1>1. /\ UNCHANGED <<parent, moved, sourceState, mark, work, runs, stalls>>
      /\ grants < MaxGrants /\ grants' = grants + 1
      /\ connection' = "active"
      /\ jobs' = [jobs EXCEPT ![Root] = row]
      /\ lapsed' = lapsed \ {Root}
  BY DEF Reauthorize, drive, index
<1>2. row \in Jobs /\ row.run = NoRun
  BY DriveSyncAssumption DEF NewJob, Jobs, NoRun, Top
<1> HIDE DEF row
<1>3. Root \in DOMAIN jobs /\ jobs[Root].run = NoRun
  BY DEF IInv, JobsHaveRuns
<1>4. /\ DOMAIN jobs' = DOMAIN jobs
      /\ jobs'[Root] = row
      /\ \A i \in DOMAIN jobs \ {Root} : jobs'[i] = jobs[i]
  BY <1>1, <1>3
<1>5. TypeOK'
  <2>1. \A i \in DOMAIN jobs' : jobs'[i] \in Jobs
    BY <1>2, <1>4, RowFacts DEF IInv
  <2>2. \A i \in lapsed' : i \in DOMAIN jobs' /\ jobs'[i].status = "leased"
    BY <1>1, <1>4 DEF IInv, TypeOK
  <2>3. grants' \in 0 .. MaxGrants
    BY <1>1, DriveSyncAssumption DEF IInv, TypeOK
  <2> QED BY <1>1, <1>4, <2>1, <2>2, <2>3 DEF IInv, TypeOK
<1> QED BY <1>1, <1>2, <1>3, <1>4, <1>5, BarrierKept DEF IInv, InHand

-----------------------------------------------------------------------------
(* The invariant is preserved. *)

LEMMA NextInv == IInv /\ [Next]_vars => IInv'
<1> SUFFICES ASSUME IInv, [Next]_vars PROVE IInv'
  OBVIOUS
<1>1. CASE TreeChanges
  BY <1>1, TreeChangesInv
<1>2. CASE Reauthorize
  BY <1>2, ReauthorizeInv
<1>3. ASSUME NEW j \in DOMAIN jobs, LeaseExpires(j) PROVE IInv'
  BY <1>3, LeaseExpiresInv
<1>4. ASSUME NEW p \in Procs, Progress(p) PROVE IInv'
  <2>1. ASSUME NEW j \in DOMAIN jobs, Claim(p, j) PROVE IInv'
    BY <2>1, ClaimInv
  <2>2. CASE Load(p)
    BY <2>2, LoadInv
  <2>3. CASE ListPage(p)
    BY <2>3, ListPageInv
  <2>4. ASSUME NEW f \in Files, Enqueue(p, f) PROVE IInv'
    BY <2>4, EnqueueInv
  <2>5. CASE MarkSeen(p)
    BY <2>5, MarkSeenInv
  <2>6. CASE FinishPage(p)
    BY <2>6, FinishPageInv
  <2>7. CASE Reconcile(p)
    BY <2>7, ReconcileInv
  <2>8. CASE CompleteReconciliation(p)
    BY <2>8, CompleteReconciliationInv
  <2>9. ASSUME NEW retryable \in BOOLEAN, NEW reauthorization \in BOOLEAN,
               Fail(p, retryable, reauthorization)
        PROVE  IInv'
    BY <2>9, FailInv
  <2> QED BY <1>4, <2>1, <2>2, <2>3, <2>4, <2>5, <2>6, <2>7, <2>8, <2>9 DEF Progress
<1>5. ASSUME NEW p \in Procs, ClaimNothing(p) PROVE IInv'
  BY <1>5, ClaimNothingInv
<1>6. ASSUME NEW p \in Procs, Crash(p) PROVE IInv'
  BY <1>6, CrashInv
<1>7. CASE UNCHANGED vars
  BY <1>7, StutterInv
<1> QED BY <1>1, <1>2, <1>3, <1>4, <1>5, <1>6, <1>7 DEF Next

THEOREM Invariant == Spec => []IInv
<1>1. Init => IInv
  BY InitInv
<1>2. IInv /\ [Next]_vars => IInv'
  BY NextInv
<1> QED BY <1>1, <1>2, PTL DEF Spec

\* The tree, the jobs with their names, runs and attempts, the sources and the
\* workers are well formed.
THEOREM TypeCorrect == Spec => []TypeOK
<1>1. IInv => TypeOK
  BY DEF IInv
<1> QED BY <1>1, Invariant, PTL

\* The deletion barrier holds for any tree, any number of workers, crashes, lapsed
\* leases, retries and authorizations.
THEOREM BarrierHolds == Spec => []NoReconcileBeforeWalkEnds
<1>1. IInv => NoReconcileBeforeWalkEnds
  BY DEF IInv
<1> QED BY <1>1, Invariant, PTL

-----------------------------------------------------------------------------
(* Coverage. *)

Calm == stalls = 0 /\ grants = 0

\* Items nobody moved, in Drive and not in Drive.
Present == {i \in Items \ moved : parent[i] # Gone}
Absent == {f \in Files \ moved : parent[f] = Gone}

\* An item that was not moved is where it was, a folder was moved only by being
\* removed, and no item is in a folder that is gone.
TreeKept ==
  /\ \A i \in Items \ moved : parent[i] = Tree[i]
  /\ \A d \in Folders \cap moved : parent[d] = Gone
  /\ \A i \in Items : parent[i] \in Folders => parent[parent[i]] # Gone

\* A worker at work holds the lease of its job.
LeasesHeld == \A p \in Procs : work[p].stage # "idle" => HoldsLease(p)

\* The job of a next page is queued in the transaction that completes its page.
ParentsDone ==
  \A i \in JobIds, t \in Nat :
    PageJob(i, t) \in DOMAIN jobs => i \in DOMAIN jobs /\ jobs[i].status = "completed"

\* Only one run has jobs: the initial job starts one and is then completed.
OneRun ==
  /\ jobs[Root].folder = Top
  /\ jobs[Root].token = 0
  /\ \A i \in DOMAIN jobs \ {Root} : jobs[Root].status = "completed"
  /\ \A i, j \in DOMAIN jobs \ {Root} : jobs[i].run = jobs[j].run

Reached(run, i) ==
  IF i \in Files THEN mark[i] = run /\ sourceState[i] = "active"
  ELSE FolderJob(run, i) \in DOMAIN jobs

Ahead(run, i) ==
  \E j \in OfRun(jobs, run) :
    /\ ~IsReconcile(j)
    /\ jobs[j].status # "completed"
    /\ jobs[j].folder = parent[i]
    /\ jobs[j].token < i

\* An item of a folder the walk knows of is reached, or a job that is still to be
\* done will list it.
WalkCovers ==
  \A run \in 1 .. runs, i \in Present :
    /\ OfRun(jobs, run) # {}
    /\ parent[i] = Top \/ FolderJob(run, parent[i]) \in DOMAIN jobs
    => Reached(run, i) \/ Ahead(run, i)

\* What a worker has in hand is what its job was to list, up to the next page.
PagesCover ==
  \A p \in Procs : InHand(p) =>
    \A i \in Present :
      parent[i] = jobs[work[p].job].folder /\ jobs[work[p].job].token < i =>
        \/ i \in work[p].seen \cup work[p].children
        \/ work[p].next # 0 /\ work[p].next < i

PagesMarked ==
  \A p \in Procs : work[p].stage = "marked" =>
    \A f \in work[p].seen \ moved : mark[f] = work[p].run /\ sourceState[f] = "active"

\* A file that is not in Drive is never listed, and purged by the reconciliation.
Purged == Reconciled \/ \E p \in Procs : work[p].stage = "reconciled"
AbsentUntouched ==
  \A f \in Absent :
    /\ mark[f] = NoRun
    /\ sourceState[f] \in {"active", "deleted"}
    /\ \A p \in Procs : f \notin work[p].todo \cup work[p].seen
    /\ Purged => sourceState[f] = "deleted"

PresentStay == \A f \in Present \cap Files : sourceState[f] # "deleted"

Walk ==
  /\ LeasesHeld
  /\ \A p \in Procs : work[p].stage = "reconciled" => IsReconcile(work[p].job)
  /\ ParentsDone
  /\ OneRun
  /\ WalkCovers
  /\ PagesCover
  /\ PagesMarked
  /\ AbsentUntouched
  /\ PresentStay

CoverInv == IInv /\ TreeKept /\ (Calm => Walk)

-----------------------------------------------------------------------------
(* The tree.                                                                *)

\* What is in a moved item moves along, and a file has nothing in it.
LEMMA SubtreeFacts ==
  ASSUME TypeOK, NEW i \in Items
  PROVE  /\ Subtree(i) \subseteq Items
         /\ i \in Subtree(i)
         /\ \A m \in Items : parent[m] \in Subtree(i) => m \in Subtree(i)
         /\ i \in Files => Subtree(i) = {i}
<1>1. Subtree(i) \subseteq Items /\ i \in Subtree(i)
  BY DEF Subtree
<1>2. ASSUME NEW m \in Items, parent[m] \in Subtree(i) PROVE m \in Subtree(i)
  <2> SUFFICES ASSUME NEW S \in SUBSET Items, i \in S, \A k \in Items : parent[k] \in S => k \in S
               PROVE  m \in S
    BY DEF Subtree
  <2>1. parent[m] \in S
    BY <1>2 DEF Subtree
  <2> QED BY <2>1
<1>3. ASSUME i \in Files PROVE Subtree(i) = {i}
  <2>1. \A m \in Items : parent[m] # i
    <3>1. i \notin Folders /\ i # Top /\ i # Gone
      BY <1>3, DriveSyncAssumption DEF Top, Items
    <3> QED BY <3>1 DEF TypeOK, Places
  <2>2. {i} \in SUBSET Items /\ \A m \in Items : parent[m] \in {i} => m \in {i}
    BY <2>1
  <2>3. \A k \in Subtree(i) : k \in {i}
    BY <2>2 DEF Subtree
  <2> QED BY <1>1, <2>3
<1> QED BY <1>1, <1>2, <1>3

\* A move takes items out of those that were not moved, and changes nothing about
\* the others.
LEMMA MoveFacts ==
  ASSUME IInv, TreeChanges
  PROVE  /\ \A i \in Items \ moved' : i \notin moved /\ parent'[i] = parent[i]
         /\ TreeKept => TreeKept'
<1>1. PICK i \in Items, to \in Places :
        /\ parent[i] # Gone
        /\ to # parent[i]
        /\ i \in Folders => to = Gone
        /\ to \in Folders => parent[to] # Gone
        /\ parent' = [k \in Items |-> IF k \in Subtree(i) THEN to ELSE parent[k]]
        /\ moved' = moved \cup Subtree(i)
  BY DEF TreeChanges
<1>2. /\ Subtree(i) \subseteq Items
      /\ i \in Subtree(i)
      /\ \A m \in Items : parent[m] \in Subtree(i) => m \in Subtree(i)
      /\ i \in Files => Subtree(i) = {i}
  BY SubtreeFacts DEF IInv
<1>3. \A k \in Items \ moved' : k \notin moved /\ parent'[k] = parent[k]
  BY <1>1
<1>4. ASSUME TreeKept PROVE TreeKept'
  <2>1. \A k \in Items \ moved' : parent'[k] = Tree[k]
    BY <1>3, <1>4 DEF TreeKept
  <2>2. \A d \in Folders \cap moved' : parent'[d] = Gone
    <3> SUFFICES ASSUME NEW d \in Folders \cap moved' PROVE parent'[d] = Gone
      OBVIOUS
    <3>1. CASE d \in Subtree(i)
      <4>1. i \notin Files
        BY <1>2, <3>1, DriveSyncAssumption
      <4> QED BY <1>1, <3>1, <4>1 DEF Items
    <3>2. CASE d \notin Subtree(i)
      BY <1>1, <1>4, <3>2 DEF TreeKept, Items
    <3> QED BY <3>1, <3>2
  <2>3. ASSUME NEW k \in Items, parent'[k] \in Folders PROVE parent'[parent'[k]] # Gone
    <3>1. CASE k \in Subtree(i)
      <4>1. parent'[k] = to /\ to \in Folders /\ parent[to] # Gone
        BY <1>1, <2>3, <3>1
      <4>2. i \notin Folders
        BY <1>1, <4>1, DriveSyncAssumption DEF Items
      <4>3. to \notin Subtree(i)
        BY <1>2, <4>1, <4>2 DEF Items
      <4> QED BY <1>1, <4>1, <4>3 DEF Items
    <3>2. CASE k \notin Subtree(i)
      <4>1. parent'[k] = parent[k] /\ parent[k] \in Folders /\ parent[parent[k]] # Gone
        BY <1>1, <1>4, <2>3, <3>2 DEF TreeKept
      <4>2. parent[k] \notin Subtree(i)
        BY <1>2, <3>2
      <4> QED BY <1>1, <4>1, <4>2 DEF Items
    <3> QED BY <3>1, <3>2
  <2> QED BY <2>1, <2>2, <2>3 DEF TreeKept
<1> QED BY <1>3, <1>4

-----------------------------------------------------------------------------
(* One run.                                                                 *)

\* A leased job has one worker at work on it.
LEMMA OneWorker ==
  ASSUME LeasesHeld, NEW p \in Procs, NEW q \in Procs,
         work[p].stage # "idle", work[q].stage # "idle", work[p].job = work[q].job
  PROVE  p = q
  BY DEF LeasesHeld, HoldsLease, Owns

\* Every worker with a page in hand writes for the run all the jobs belong to.
LEMMA SameRun ==
  ASSUME IInv, LeasesHeld, OneRun, NEW p \in Procs, InHand(p)
  PROVE  /\ \A q \in Procs : InHand(q) => work[q].run = work[p].run
         /\ \A run \in Nat \ {NoRun} : OfRun(jobs, run) # {} => run = work[p].run
<1>1. work[p].stage # "idle" /\ work[p].job \in DOMAIN jobs
  BY LocalsOf DEF InHand
<1>2. jobs[work[p].job].status = "leased"
  BY <1>1 DEF LeasesHeld, HoldsLease, Owns
<1>3. CASE work[p].job = Root
  <2>1. DOMAIN jobs = {Root}
    BY <1>2, <1>3 DEF OneRun, IInv, JobsHaveRuns
  <2>2. \A q \in Procs : InHand(q) => work[q].job = Root /\ q = p
    BY <1>1, <1>3, <2>1, LocalsOf, OneWorker DEF InHand
  <2>3. \A run \in Nat \ {NoRun} : OfRun(jobs, run) = {}
    BY <2>1 DEF OfRun, IInv, JobsHaveRuns
  <2> QED BY <2>2, <2>3
<1>4. CASE work[p].job # Root
  <2>1. work[p].run = jobs[work[p].job].run
    BY <1>4 DEF IInv, RunsInHand
  <2>2. jobs[Root].status = "completed"
    BY <1>1, <1>4 DEF OneRun
  <2>3. ASSUME NEW q \in Procs, InHand(q) PROVE work[q].run = work[p].run
    <3>1. work[q].job \in DOMAIN jobs /\ jobs[work[q].job].status = "leased"
      BY <2>3, LocalsOf DEF LeasesHeld, HoldsLease, Owns, InHand
    <3>2. work[q].job # Root
      BY <2>2, <3>1
    <3>3. work[q].run = jobs[work[q].job].run
      BY <2>3, <3>2 DEF IInv, RunsInHand
    <3> QED BY <1>1, <1>4, <2>1, <3>1, <3>2, <3>3 DEF OneRun
  <2>4. ASSUME NEW run \in Nat \ {NoRun}, NEW i \in OfRun(jobs, run) PROVE run = work[p].run
    <3>1. i \in DOMAIN jobs \ {Root} /\ jobs[i].run = run
      BY DEF OfRun, IInv, JobsHaveRuns
    <3> QED BY <1>1, <1>4, <2>1, <3>1 DEF OneRun
  <2> QED BY <2>3, <2>4
<1> QED BY <1>3, <1>4

\* Nobody is at work beside the reconciliation.
LEMMA ReconcilesAlone ==
  ASSUME IInv, LeasesHeld, OneRun, NEW p \in Procs, work[p].stage # "idle", IsReconcile(work[p].job)
  PROVE  LET run == jobs[work[p].job].run
         IN /\ run \in 1 .. runs
            /\ work[p].job = ReconcileJob(run)
            /\ \A r \in Nat \ {NoRun} : OfRun(jobs, r) # {} => r = run
            /\ \A q \in Procs \ {p} : work[q].stage = "idle"
<1> DEFINE j == work[p].job
           run == jobs[j].run
<1>1. j \in DOMAIN jobs /\ jobs[j] \in Jobs /\ j # Root
  BY LocalsOf, RowFacts DEF IInv, IsReconcile
<1>2. run \in 1 .. runs /\ j = ReconcileJob(run) /\ j \in OfRun(jobs, run)
  BY <1>1 DEF IInv, TypeOK, JobsHaveRuns, Jobs, NoRun, OfRun
<1>3. ASSUME NEW r \in Nat \ {NoRun}, NEW i \in OfRun(jobs, r) PROVE r = run
  <2>1. i \in DOMAIN jobs \ {Root} /\ jobs[i].run = r
    BY DEF OfRun, IInv, JobsHaveRuns
  <2> QED BY <1>1, <2>1 DEF OneRun
<1>4. ASSUME NEW q \in Procs \ {p}, work[q].stage # "idle" PROVE FALSE
  <2>1. work[q].job \in DOMAIN jobs /\ jobs[work[q].job].status = "leased"
    BY <1>4, LocalsOf DEF LeasesHeld, HoldsLease, Owns
  <2>2. work[q].job # j
    BY <1>4, OneWorker
  <2>3. work[q].job # Root
    BY <1>1, <2>1 DEF OneRun
  <2>4. work[q].job \in OfRun(jobs, run) \ {ReconcileJob(run)}
    BY <1>1, <1>2, <2>1, <2>2, <2>3 DEF OneRun, OfRun
  <2> QED BY <1>1, <1>2, <2>1, <2>4 DEF IInv, NoReconcileBeforeWalkEnds
<1> QED BY <1>2, <1>3, <1>4

\* When the reconciliation is queued the walk has reached every item: the folder of
\* one it had not reached would not have been reached either, up to the top.
LEMMA AllReached ==
  ASSUME IInv, TreeKept, WalkCovers, NEW run \in 1 .. runs, ReconcileJob(run) \in DOMAIN jobs
  PROVE  \A i \in Present : Reached(run, i)
<1> DEFINE S == {i \in Present : ~Reached(run, i)}
<1>1. SUFFICES ASSUME S # {} PROVE FALSE
  OBVIOUS
<1>2. S \in SUBSET Items
  BY DEF Present
<1>3. PICK i \in S : Tree[i] \notin S
  BY <1>1, <1>2, DriveSyncAssumption
<1>4. i \in Items /\ i \notin moved /\ parent[i] # Gone /\ parent[i] = Tree[i]
  BY DEF Present, TreeKept
<1>5. run \in Nat /\ OfRun(jobs, run) # {}
  <2>1. run \in Nat
    BY DEF IInv, TypeOK
  <2> QED BY <2>1, ReconcileRuns DEF OfRun, IInv
<1>6. parent[i] = Top \/ FolderJob(run, parent[i]) \in DOMAIN jobs
  <2> SUFFICES ASSUME parent[i] # Top PROVE FolderJob(run, parent[i]) \in DOMAIN jobs
    OBVIOUS
  <2>1. parent[i] \in Folders
    BY <1>4 DEF IInv, TypeOK, Places
  <2>2. parent[i] \in Present
    BY <1>4, <2>1 DEF TreeKept, Present, Items
  <2>3. Reached(run, parent[i])
    BY <1>3, <1>4, <2>2
  <2> QED BY <2>1, <2>3, DriveSyncAssumption DEF Reached
<1>7. Ahead(run, i)
  BY <1>5, <1>6 DEF WalkCovers
<1>8. PICK j \in OfRun(jobs, run) : ~IsReconcile(j) /\ jobs[j].status # "completed"
  BY <1>7 DEF Ahead
<1>9. j # ReconcileJob(run)
  BY <1>5, <1>8, RowFacts, JobNames DEF IInv, OfRun
<1> QED BY <1>8, <1>9 DEF IInv, NoReconcileBeforeWalkEnds

-----------------------------------------------------------------------------
(* What steps leave alone.                                                  *)

Unmoved == \A i \in Items \ moved' : i \notin moved /\ parent'[i] = parent[i]

SameRows ==
  /\ DOMAIN jobs' = DOMAIN jobs
  /\ \A j \in DOMAIN jobs :
       /\ jobs'[j].run = jobs[j].run
       /\ jobs'[j].folder = jobs[j].folder
       /\ jobs'[j].token = jobs[j].token
       /\ jobs[j].status = "completed" => jobs'[j].status = "completed"
       /\ ~IsReconcile(j) /\ jobs'[j].status = "completed" => jobs[j].status = "completed"

LEMMA ItemsKept ==
  ASSUME Unmoved
  PROVE  /\ \A i \in Present' : i \in Present /\ parent'[i] = parent[i]
         /\ Absent' \subseteq Absent
  BY DEF Unmoved, Present, Absent, Items

LEMMA RowsKept ==
  ASSUME IInv, SameRows, ParentsDone, OneRun
  PROVE  ParentsDone' /\ OneRun'
<1>1. ParentsDone'
  BY DEF ParentsDone, SameRows
<1>2. OneRun'
  BY DEF OneRun, SameRows, IInv, JobsHaveRuns
<1> QED BY <1>1, <1>2

\* The items of a run keep being covered while its marks last.
LEMMA WalkCoversKept ==
  ASSUME IInv, SameRows, Unmoved, WalkCovers,
         \A run \in 1 .. runs' : run \in 1 .. runs \/ OfRun(jobs, run) = {},
         \A run \in 1 .. runs, f \in Files :
           OfRun(jobs, run) # {} /\ mark[f] = run /\ sourceState[f] = "active" =>
             mark'[f] = run /\ sourceState'[f] = "active"
  PROVE  WalkCovers'
<1> SUFFICES ASSUME NEW run \in 1 .. runs', NEW i \in Present', OfRun(jobs', run) # {},
                    parent'[i] = Top \/ FolderJob(run, parent'[i]) \in DOMAIN jobs'
             PROVE  Reached(run, i)' \/ Ahead(run, i)'
  BY DEF WalkCovers
<1>1. i \in Present /\ parent'[i] = parent[i]
  BY ItemsKept
<1>2. OfRun(jobs', run) = OfRun(jobs, run)
  BY DEF OfRun, SameRows
<1>3. run \in 1 .. runs
  BY <1>2
<1>4. Reached(run, i) \/ Ahead(run, i)
  BY <1>1, <1>2, <1>3 DEF WalkCovers, SameRows
<1>5. CASE Reached(run, i)
  BY <1>2, <1>3, <1>5 DEF Reached, SameRows
<1>6. CASE Ahead(run, i)
  <2>1. PICK j \in OfRun(jobs, run) : /\ ~IsReconcile(j)
                                      /\ jobs[j].status # "completed"
                                      /\ jobs[j].folder = parent[i]
                                      /\ jobs[j].token < i
    BY <1>6 DEF Ahead
  <2>2. j \in OfRun(jobs', run) /\ jobs'[j].status # "completed"
        /\ jobs'[j].folder = parent'[i] /\ jobs'[j].token < i
    BY <1>1, <1>2, <2>1 DEF SameRows, OfRun
  <2> QED BY <2>1, <2>2 DEF Ahead
<1> QED BY <1>4, <1>5, <1>6

\* What a worker has in hand does not change while it has it.
SameLocals(q) ==
  /\ InHand(q)
  /\ work'[q].job = work[q].job
  /\ work'[q].run = work[q].run
  /\ work'[q].seen = work[q].seen
  /\ work'[q].children = work[q].children
  /\ work'[q].next = work[q].next

LEMMA PageKept ==
  ASSUME IInv, SameRows, Unmoved, PagesCover, NEW q \in Procs, SameLocals(q),
         NEW i \in Present',
         parent'[i] = jobs'[work'[q].job].folder, jobs'[work'[q].job].token < i
  PROVE  \/ i \in work'[q].seen \cup work'[q].children
         \/ work'[q].next # 0 /\ work'[q].next < i
<1>1. i \in Present /\ parent'[i] = parent[i]
  BY ItemsKept
<1>2. work[q].job \in DOMAIN jobs
  BY LocalsOf
<1> QED BY <1>1, <1>2 DEF SameRows, SameLocals, PagesCover

\* A step that lists no page, writes no source and ends none but a reconciliation.
LEMMA QuietStep ==
  ASSUME IInv, Walk, SameRows, Unmoved, LeasesHeld', UNCHANGED <<sourceState, mark, runs>>,
         \A p \in Procs :
           \/ work'[p] = work[p]
           \/ /\ work'[p].stage \in {"idle", "claimed", "loaded"}
              /\ work'[p].todo \subseteq work[p].todo
              /\ work'[p].seen \subseteq work[p].seen,
         Reconciled' => Purged
  PROVE  Walk'
<1>1. ParentsDone' /\ OneRun'
  BY RowsKept DEF Walk
<1>2. WalkCovers'
  <2>1. \A run \in 1 .. runs' : run \in 1 .. runs
    OBVIOUS
  <2> QED BY <2>1, WalkCoversKept DEF Walk
<1>3. \A q \in Procs : InHand(q)' => work'[q] = work[q] /\ SameLocals(q)
  BY DEF InHand, SameLocals
<1>4. PagesCover'
  BY <1>3, PageKept DEF Walk, PagesCover
<1>5. PagesMarked'
  <2> SUFFICES ASSUME NEW q \in Procs, work'[q].stage = "marked", NEW f \in work'[q].seen \ moved'
               PROVE  mark[f] = work'[q].run /\ sourceState[f] = "active"
    BY DEF PagesMarked
  <2>1. work'[q] = work[q]
    OBVIOUS
  <2>2. f \in Items
    BY <2>1, LocalsOf DEF Locals, Items
  <2> QED BY <2>1, <2>2 DEF Unmoved, Walk, PagesMarked
<1>6. AbsentUntouched'
  <2>1. Purged' => Purged
    BY DEF Purged
  <2> SUFFICES ASSUME NEW f \in Absent'
               PROVE  /\ mark[f] = NoRun
                      /\ sourceState[f] \in {"active", "deleted"}
                      /\ \A p \in Procs : f \notin work'[p].todo \cup work'[p].seen
                      /\ Purged' => sourceState[f] = "deleted"
    BY DEF AbsentUntouched
  <2>2. f \in Absent
    BY ItemsKept
  <2> QED BY <2>1, <2>2 DEF Walk, AbsentUntouched
<1>7. PresentStay'
  BY ItemsKept DEF Walk, PresentStay
<1>8. \A p \in Procs : work'[p].stage = "reconciled" => IsReconcile(work'[p].job)
  BY DEF Walk
<1> QED BY <1>1, <1>2, <1>4, <1>5, <1>6, <1>7, <1>8 DEF Walk

-----------------------------------------------------------------------------
(* Quiet steps.                                                             *)

LEMMA SweptRows ==
  ASSUME IInv
  PROVE  /\ DOMAIN Swept = DOMAIN jobs
         /\ \A j \in DOMAIN jobs :
              /\ Swept[j].run = jobs[j].run
              /\ Swept[j].folder = jobs[j].folder
              /\ Swept[j].token = jobs[j].token
              /\ Swept[j].status = "completed" <=> jobs[j].status = "completed"
              /\ j \notin lapsed => Swept[j] = jobs[j]
<1> SUFFICES ASSUME NEW j \in DOMAIN jobs
             PROVE  /\ Swept[j].run = jobs[j].run
                    /\ Swept[j].folder = jobs[j].folder
                    /\ Swept[j].token = jobs[j].token
                    /\ Swept[j].status = "completed" <=> jobs[j].status = "completed"
                    /\ j \notin lapsed => Swept[j] = jobs[j]
  BY DEF Swept
<1>1. jobs[j] \in Jobs /\ (j \in lapsed => jobs[j].status = "leased")
  BY RowFacts DEF IInv
<1>2. CASE Exhausted(j)
  <2>1. Swept[j] = [jobs[j] EXCEPT !.status = "dead_letter", !.owner = NoWorker]
    BY <1>2 DEF Swept
  <2>2. j \in lapsed
    BY <1>2 DEF Exhausted
  <2> QED BY <1>1, <2>1, <2>2 DEF Jobs
<1>3. CASE ~Exhausted(j)
  BY <1>3 DEF Swept
<1> QED BY <1>2, <1>3

LEMMA ClaimWalk ==
  ASSUME IInv, Walk, NEW p \in Procs, NEW j \in DOMAIN jobs, Claim(p, j)
  PROVE  Walk'
<1> DEFINE row == [jobs[j] EXCEPT !.status = "leased", !.owner = p, !.attempts = @ + 1]
           locals == [Idle EXCEPT !.stage = "claimed", !.job = j]
<1>1. /\ UNCHANGED <<parent, moved, sourceState, mark, runs>>
      /\ lapsed' \subseteq lapsed /\ j \notin lapsed'
      /\ jobs' = [Swept EXCEPT ![j] = [Swept[j] EXCEPT !.status = "leased", !.owner = p, !.attempts = @ + 1]]
      /\ work' = [work EXCEPT ![p] = locals]
      /\ work[p].stage = "idle"
      /\ Runnable(j)
  BY DEF Claim, drive, index, counters
<1>2. /\ jobs[j] \in Jobs
      /\ jobs[j].status \in {"pending", "retry_wait"} \/ j \in lapsed
      /\ jobs[j].status # "completed"
      /\ ~Exhausted(j)
  BY <1>1, RowFacts, DriveSyncAssumption DEF IInv, Runnable, Exhausted
<1>3. /\ DOMAIN jobs' = DOMAIN jobs
      /\ jobs'[j] = row
      /\ \A i \in DOMAIN jobs \ {j} : jobs'[i] = Swept[i]
  <2>1. Swept[j] = jobs[j]
    BY <1>2, SweptFacts
  <2> QED BY <1>1, <2>1, SweptRows
<1>4. /\ row.run = jobs[j].run /\ row.folder = jobs[j].folder /\ row.token = jobs[j].token
      /\ row.status = "leased" /\ row.owner = p
  BY <1>2 DEF Jobs
<1>5. /\ work'[p] = locals
      /\ \A q \in Procs \ {p} : work'[q] = work[q]
  BY <1>1 DEF IInv, TypeOK
<1>6. locals.stage = "claimed" /\ locals.job = j /\ locals.todo = {} /\ locals.seen = {}
  BY DEF Idle
<1> HIDE DEF row, locals
<1>7. SameRows
  BY <1>2, <1>3, <1>4, SweptRows DEF SameRows
<1>8. LeasesHeld'
  <2> SUFFICES ASSUME NEW q \in Procs, work'[q].stage # "idle"
               PROVE  HoldsLease(q)'
    BY DEF LeasesHeld
  <2>1. CASE q = p
    BY <1>1, <1>3, <1>4, <1>5, <1>6, <2>1 DEF HoldsLease, Owns
  <2>2. CASE q # p
    <3>1. work'[q] = work[q] /\ HoldsLease(q)
      BY <1>5, <2>2 DEF Walk, LeasesHeld
    <3>2. work[q].job \in DOMAIN jobs \ {j}
      BY <1>2, <3>1, LocalsOf DEF HoldsLease, Owns
    <3>3. jobs'[work[q].job] = jobs[work[q].job]
      BY <1>3, <3>1, <3>2, SweptRows DEF HoldsLease
    <3> QED BY <1>1, <3>1, <3>3 DEF HoldsLease, Owns
  <2> QED BY <2>1, <2>2
<1>9. Reconciled' => Purged
  BY <1>3, <1>4, SweptRows DEF Reconciled, Purged
<1> QED BY <1>1, <1>5, <1>6, <1>7, <1>8, <1>9, QuietStep DEF Unmoved

LEMMA ClaimNothingWalk ==
  ASSUME IInv, Walk, NEW p \in Procs, ClaimNothing(p)
  PROVE  Walk'
<1>1. /\ UNCHANGED <<parent, moved, sourceState, mark, work, runs>>
      /\ lapsed' \subseteq lapsed
      /\ jobs' = Swept
  BY DEF ClaimNothing, drive, index, counters
<1>2. SameRows
  BY <1>1, SweptRows DEF SameRows
<1>3. LeasesHeld'
  <2> SUFFICES ASSUME NEW q \in Procs, work[q].stage # "idle"
               PROVE  HoldsLease(q)'
    BY <1>1 DEF LeasesHeld
  <2>1. HoldsLease(q) /\ work[q].job \in DOMAIN jobs
    BY LocalsOf DEF Walk, LeasesHeld
  <2> QED BY <1>1, <2>1, SweptRows DEF HoldsLease, Owns
<1>4. Reconciled' => Purged
  BY <1>1, SweptRows DEF Reconciled, Purged
<1> QED BY <1>1, <1>2, <1>3, <1>4, QuietStep DEF Unmoved

\* Steps that leave the jobs alone, and take no job from a worker.
LEMMA JobsAlone ==
  ASSUME IInv, Walk, Unmoved, UNCHANGED <<sourceState, mark, runs, jobs>>,
         \A p \in Procs : work[p].stage # "idle" /\ work[p].job \notin lapsed => work[p].job \notin lapsed',
         \A p \in Procs :
           \/ work'[p] = work[p]
           \/ work'[p] = Idle
           \/ /\ work'[p].stage \in {"claimed", "loaded"} /\ work[p].stage # "idle"
              /\ work'[p].job = work[p].job
              /\ work'[p].todo = work[p].todo
              /\ work'[p].seen = work[p].seen
  PROVE  Walk'
<1>1. SameRows
  BY DEF SameRows
<1>2. Idle.stage = "idle" /\ Idle.todo = {} /\ Idle.seen = {}
  BY DEF Idle
<1>3. LeasesHeld'
  BY <1>2 DEF Walk, LeasesHeld, HoldsLease, Owns
<1>4. Reconciled' => Purged
  BY DEF Reconciled, Purged
<1>5. \A p \in Procs :
        \/ work'[p] = work[p]
        \/ /\ work'[p].stage \in {"idle", "claimed", "loaded"}
           /\ work'[p].todo \subseteq work[p].todo
           /\ work'[p].seen \subseteq work[p].seen
  BY <1>2
<1> QED BY <1>1, <1>3, <1>4, <1>5, QuietStep

LEMMA LoadWalk == ASSUME IInv, Walk, NEW p \in Procs, Load(p) PROVE Walk'
<1> DEFINE locals == [work[p] EXCEPT !.stage = "loaded"]
<1>1. /\ UNCHANGED <<parent, moved, sourceState, mark, jobs, lapsed, runs>>
      /\ work' = [work EXCEPT ![p] = locals]
      /\ work[p].stage = "claimed"
  BY DEF Load, drive, index, counters
<1>2. /\ locals.stage = "loaded" /\ locals.job = work[p].job
      /\ locals.todo = work[p].todo /\ locals.seen = work[p].seen
  BY LocalsOf DEF Locals
<1>3. work'[p] = locals /\ \A q \in Procs \ {p} : work'[q] = work[q]
  BY <1>1 DEF IInv, TypeOK
<1> HIDE DEF locals
<1> QED BY <1>1, <1>2, <1>3, JobsAlone DEF Unmoved

LEMMA CrashWalk == ASSUME IInv, Walk, NEW p \in Procs, Crash(p) PROVE Walk'
<1>1. /\ UNCHANGED <<parent, moved, sourceState, mark, jobs, lapsed, runs>>
      /\ work' = [work EXCEPT ![p] = Idle]
  BY DEF Crash, drive, index, counters
<1>2. work'[p] = Idle /\ \A q \in Procs \ {p} : work'[q] = work[q]
  BY <1>1 DEF IInv, TypeOK
<1> QED BY <1>1, <1>2, JobsAlone DEF Unmoved

\* A calm lease lapses only when nobody is at work on its job.
LEMMA LeaseExpiresWalk ==
  ASSUME IInv, Walk, NEW j \in DOMAIN jobs, LeaseExpires(j), stalls = 0, stalls' = 0
  PROVE  Walk'
<1>1. /\ UNCHANGED <<parent, moved, sourceState, mark, jobs, work, runs>>
      /\ lapsed' = lapsed \cup {j}
      /\ ~Working(j)
  BY DEF LeaseExpires, drive, index
<1>2. \A p \in Procs : work[p].stage # "idle" => work[p].job # j
  BY <1>1 DEF Walk, LeasesHeld, HoldsLease, Working
<1> QED BY <1>1, <1>2, JobsAlone DEF Unmoved

LEMMA TreeChangesWalk == ASSUME IInv, Walk, TreeChanges PROVE Walk'
<1>1. UNCHANGED <<sourceState, mark, jobs, lapsed, work, runs>>
  BY DEF TreeChanges, index, counters
<1> QED BY <1>1, MoveFacts, JobsAlone DEF Unmoved

LEMMA StutterWalk == ASSUME IInv, Walk, UNCHANGED vars PROVE Walk'
<1>1. UNCHANGED <<parent, moved, sourceState, mark, jobs, lapsed, work, runs>>
  BY DEF vars, drive, index, counters
<1> QED BY <1>1, JobsAlone DEF Unmoved

\* A worker ends its job, in a status other than "completed" unless it is the
\* reconciliation.
LEMMA JobEndedWalk ==
  ASSUME IInv, Walk, NEW p \in Procs, NEW status, UNCHANGED <<parent, moved, sourceState, mark, runs>>,
         work[p].stage # "idle",
         jobs' = End(jobs, work[p].job, status),
         status = "completed" => IsReconcile(work[p].job) /\ work[p].stage = "reconciled",
         lapsed' \subseteq lapsed,
         work' = [work EXCEPT ![p] = Idle]
  PROVE  Walk'
<1> DEFINE j == work[p].job
<1>1. j \in DOMAIN jobs /\ jobs[j] \in Jobs /\ jobs[j].status = "leased"
  BY LocalsOf, RowFacts DEF IInv, Walk, LeasesHeld, HoldsLease, Owns
<1>2. /\ DOMAIN jobs' = DOMAIN jobs
      /\ jobs'[j] = [jobs[j] EXCEPT !.status = status, !.owner = NoWorker]
      /\ \A i \in DOMAIN jobs \ {j} : jobs'[i] = jobs[i]
  BY <1>1 DEF End
<1>3. /\ jobs'[j].run = jobs[j].run /\ jobs'[j].folder = jobs[j].folder
      /\ jobs'[j].token = jobs[j].token /\ jobs'[j].status = status
  BY <1>1, <1>2 DEF Jobs
<1>4. SameRows
  BY <1>1, <1>2, <1>3 DEF SameRows
<1>5. work'[p] = Idle /\ \A q \in Procs \ {p} : work'[q] = work[q]
  BY DEF IInv, TypeOK
<1>6. Idle.stage = "idle" /\ Idle.todo = {} /\ Idle.seen = {}
  BY DEF Idle
<1>7. LeasesHeld'
  <2> SUFFICES ASSUME NEW q \in Procs, work'[q].stage # "idle" PROVE HoldsLease(q)'
    BY DEF LeasesHeld
  <2>1. q # p /\ work'[q] = work[q] /\ HoldsLease(q)
    BY <1>5, <1>6 DEF Walk, LeasesHeld
  <2>2. work[q].job \in DOMAIN jobs \ {j}
    BY <2>1, LocalsOf, OneWorker DEF Walk
  <2> QED BY <1>2, <2>1, <2>2 DEF HoldsLease, Owns
<1>8. Reconciled' => Purged
  BY <1>2, <1>3 DEF Reconciled, Purged
<1> QED BY <1>4, <1>5, <1>6, <1>7, <1>8, QuietStep DEF Unmoved

LEMMA CompleteReconciliationWalk ==
  ASSUME IInv, Walk, NEW p \in Procs, CompleteReconciliation(p)
  PROVE  Walk'
<1>1. /\ UNCHANGED <<parent, moved, sourceState, mark, lapsed, runs>>
      /\ work' = [work EXCEPT ![p] = Idle]
      /\ work[p].stage = "reconciled"
      /\ jobs' = jobs \/ jobs' = End(jobs, work[p].job, "completed")
  BY DEF CompleteReconciliation, drive, index, counters
<1>2. CASE jobs' = jobs
  <2>1. work'[p] = Idle /\ \A q \in Procs \ {p} : work'[q] = work[q]
    BY <1>1 DEF IInv, TypeOK
  <2> QED BY <1>1, <1>2, <2>1, JobsAlone DEF Unmoved
<1>3. CASE jobs' = End(jobs, work[p].job, "completed")
  BY <1>1, <1>3, JobEndedWalk DEF Walk
<1> QED BY <1>1, <1>2, <1>3

LEMMA FailWalk ==
  ASSUME IInv, Walk, NEW p \in Procs, NEW retryable \in BOOLEAN, NEW reauthorization \in BOOLEAN,
         Fail(p, retryable, reauthorization)
  PROVE  Walk'
<1>1. /\ UNCHANGED <<parent, moved, sourceState, mark, runs>>
      /\ work' = [work EXCEPT ![p] = Idle]
      /\ work[p].stage # "idle"
      /\ jobs' = End(jobs, work[p].job, FailedStatus(work[p].job, retryable))
      /\ lapsed' \subseteq lapsed
  BY DEF Fail, drive, index, counters, Walk, LeasesHeld, HoldsLease
<1>2. FailedStatus(work[p].job, retryable) # "completed"
  BY DEF FailedStatus
<1> QED BY <1>1, <1>2, JobEndedWalk

-----------------------------------------------------------------------------
(* Reading and writing a page.                                              *)

\* Steps of a worker that leave the jobs alone keep the lease.
LEMMA HoldsOn ==
  ASSUME LeasesHeld, UNCHANGED <<jobs, lapsed>>,
         \A p \in Procs : work'[p].stage # "idle" => work[p].stage # "idle" /\ work'[p].job = work[p].job
  PROVE  LeasesHeld'
  BY DEF LeasesHeld, HoldsLease, Owns

LEMMA ListPageWalk ==
  ASSUME IInv, Walk, NEW p \in Procs, ListPage(p)
  PROVE  Walk'
<1> DEFINE j == work[p].job
           rest == {i \in Items : parent[i] = jobs[j].folder /\ i > jobs[j].token}
           page == {i \in rest : Cardinality({k \in rest : k <= i}) <= PageSize}
           next == IF page = rest THEN 0 ELSE CHOOSE i \in page : \A k \in page : k <= i
           run == IF jobs[j].run = NoRun THEN runs + 1 ELSE jobs[j].run
           locals == [work[p] EXCEPT !.stage = "writing", !.run = run, !.todo = page \cap Files,
                        !.seen = page \cap Files, !.children = page \cap Folders, !.next = next]
<1>1. /\ UNCHANGED <<parent, moved, sourceState, mark, jobs, lapsed>>
      /\ runs' = IF jobs[j].run = NoRun THEN runs + 1 ELSE runs
      /\ work' = [work EXCEPT ![p] = locals]
      /\ work[p].stage = "loaded"
  <2>1. /\ UNCHANGED <<drive, connection, index, jobs, lapsed, stalls, grants>>
        /\ runs' = IF jobs[j].run = NoRun THEN runs + 1 ELSE runs
        /\ work' = [work EXCEPT ![p].stage = "writing", ![p].run = run,
                     ![p].todo = page \cap Files, ![p].seen = page \cap Files,
                     ![p].children = page \cap Folders, ![p].next = next]
        /\ work[p].stage = "loaded"
    BY Zenon DEF ListPage
  <2> HIDE DEF next, page, rest, run
  <2>2. work' = [work EXCEPT ![p] = locals]
    BY <2>1 DEF IInv, TypeOK
  <2> QED BY <2>1, <2>2 DEF drive, index
<1>2. /\ page \subseteq rest /\ next \in Nat
      /\ \A i \in rest : next = 0 \/ i <= next => i \in page
  BY PageFacts
<1>3. /\ j \in DOMAIN jobs /\ jobs[j].folder \in Nat /\ jobs[j].token \in Nat
      /\ rest \subseteq Items /\ Items \subseteq Nat
      /\ \A i \in rest : parent[i] = jobs[j].folder /\ parent[i] # Gone
  BY LocalsOf, RowFacts, DriveSyncAssumption DEF IInv, Jobs
<1>4. \A i \in Items : parent[i] = jobs[j].folder /\ jobs[j].token < i => i \in rest
  BY <1>3
<1> HIDE DEF page, next, rest, run
<1>5. /\ locals.stage = "writing" /\ locals.job = j
      /\ locals.todo = page \cap Files /\ locals.seen = page \cap Files
      /\ locals.children = page \cap Folders /\ locals.next = next
  BY LocalsOf DEF Locals
<1>6. work'[p] = locals /\ \A q \in Procs \ {p} : work'[q] = work[q]
  BY <1>1 DEF IInv, TypeOK
<1> HIDE DEF locals
<1>7. SameRows /\ Unmoved
  BY <1>1 DEF SameRows, Unmoved
<1>8. LeasesHeld'
  BY <1>1, <1>5, <1>6, HoldsOn DEF Walk
<1>9. ParentsDone' /\ OneRun'
  BY <1>7, RowsKept DEF Walk
<1>10. WalkCovers'
  <2>1. \A i \in DOMAIN jobs : jobs[i].run \in Nat /\ jobs[i].run <= runs
    BY RowFacts DEF IInv, JobsHaveRuns, Jobs
  <2>2. runs \in Nat
    BY DEF IInv, TypeOK
  <2>3. OfRun(jobs, runs + 1) = {}
    BY <2>1, <2>2 DEF OfRun
  <2>4. \A r \in 1 .. runs' : r \in 1 .. runs \/ OfRun(jobs, r) = {}
    BY <1>1, <2>2, <2>3
  <2> QED BY <1>1, <1>7, <2>4, WalkCoversKept DEF Walk
<1>11. PagesCover'
  <2> SUFFICES ASSUME NEW q \in Procs, InHand(q)', NEW i \in Present',
                      parent'[i] = jobs'[work'[q].job].folder, jobs'[work'[q].job].token < i
               PROVE  \/ i \in work'[q].seen \cup work'[q].children
                      \/ work'[q].next # 0 /\ work'[q].next < i
    BY DEF PagesCover
  <2>1. CASE q = p
    <3>1. i \in rest /\ i \in Items
      BY <1>1, <1>4, <1>5, <1>6, <2>1 DEF Present
    <3>2. CASE i \in page
      BY <1>5, <1>6, <2>1, <3>1, <3>2 DEF Items
    <3>3. CASE i \notin page
      BY <1>2, <1>3, <1>5, <1>6, <2>1, <3>1, <3>3
    <3> QED BY <3>2, <3>3
  <2>2. CASE q # p
    <3>1. SameLocals(q)
      BY <1>6, <2>2 DEF SameLocals, InHand
    <3> QED BY <1>7, <3>1, PageKept DEF Walk
  <2> QED BY <2>1, <2>2
<1>12. PagesMarked'
  BY <1>1, <1>5, <1>6 DEF Walk, PagesMarked
<1>13. AbsentUntouched'
  <2>1. Purged' => Purged
    BY <1>1, <1>5, <1>6 DEF Purged, Reconciled
  <2>2. Absent' = Absent
    BY <1>1 DEF Absent
  <2>3. \A f \in Absent : f \notin page
    BY <1>2, <1>3 DEF Absent
  <2>4. \A f \in Absent, q \in Procs : f \notin work'[q].todo \cup work'[q].seen
    BY <1>5, <1>6, <2>3 DEF Walk, AbsentUntouched
  <2> QED BY <1>1, <2>1, <2>2, <2>4 DEF Walk, AbsentUntouched
<1>14. PresentStay'
  BY <1>1 DEF Walk, PresentStay, Present
<1>15. \A q \in Procs : work'[q].stage = "reconciled" => IsReconcile(work'[q].job)
  BY <1>5, <1>6 DEF Walk
<1> QED BY <1>8, <1>9, <1>10, <1>11, <1>12, <1>13, <1>14, <1>15 DEF Walk

LEMMA EnqueueWalk ==
  ASSUME IInv, Walk, NEW p \in Procs, NEW f \in Files, Enqueue(p, f)
  PROVE  Walk'
<1> DEFINE locals == [work[p] EXCEPT !.todo = @ \ {f}]
<1>1. /\ UNCHANGED <<parent, moved, mark, jobs, lapsed, runs>>
      /\ sourceState' = [sourceState EXCEPT ![f] = "active"]
      /\ work' = [work EXCEPT ![p] = locals]
      /\ f \in work[p].todo
  BY DEF Enqueue, drive, counters
<1>2. /\ locals.stage = work[p].stage /\ locals.job = work[p].job /\ locals.run = work[p].run
      /\ locals.todo \subseteq work[p].todo /\ locals.seen = work[p].seen
      /\ locals.children = work[p].children /\ locals.next = work[p].next
  BY LocalsOf DEF Locals
<1>3. work'[p] = locals /\ \A q \in Procs \ {p} : work'[q] = work[q]
  BY <1>1 DEF IInv, TypeOK
<1> HIDE DEF locals
<1>4. \A q \in Procs :
        /\ work'[q].stage = work[q].stage /\ work'[q].job = work[q].job
        /\ work'[q].run = work[q].run /\ work'[q].seen = work[q].seen
        /\ work'[q].todo \subseteq work[q].todo
        /\ InHand(q)' => SameLocals(q)
  BY <1>2, <1>3 DEF SameLocals, InHand
<1>5. \A g \in Files : sourceState'[g] = IF g = f THEN "active" ELSE sourceState[g]
  BY <1>1 DEF IInv, TypeOK
<1>6. SameRows /\ Unmoved /\ Present' = Present /\ Absent' = Absent
  BY <1>1 DEF SameRows, Unmoved, Present, Absent
<1>7. LeasesHeld'
  BY <1>1, <1>4, HoldsOn DEF Walk
<1>8. ParentsDone' /\ OneRun'
  BY <1>6, RowsKept DEF Walk
<1>9. WalkCovers'
  BY <1>1, <1>5, <1>6, WalkCoversKept DEF Walk
<1>10. PagesCover'
  BY <1>4, <1>6, PageKept DEF Walk, PagesCover
<1>11. PagesMarked'
  <2> SUFFICES ASSUME NEW q \in Procs, work'[q].stage = "marked", NEW g \in work'[q].seen \ moved'
               PROVE  mark'[g] = work'[q].run /\ sourceState'[g] = "active"
    BY DEF PagesMarked
  <2>1. g \in Files
    BY <1>4, LocalsOf DEF Locals
  <2> QED BY <1>1, <1>4, <1>5, <2>1 DEF Walk, PagesMarked
<1>12. AbsentUntouched'
  <2>1. Purged' => Purged
    BY <1>1, <1>4 DEF Purged, Reconciled
  <2>2. f \notin Absent
    BY <1>1 DEF Walk, AbsentUntouched
  <2>3. \A g \in Absent : sourceState'[g] = sourceState[g]
    BY <1>5, <2>2 DEF Absent
  <2>4. \A g \in Absent, q \in Procs : g \notin work'[q].todo \cup work'[q].seen
    BY <1>4 DEF Walk, AbsentUntouched
  <2> QED BY <1>1, <1>6, <2>1, <2>3, <2>4 DEF Walk, AbsentUntouched
<1>13. PresentStay'
  BY <1>5, <1>6 DEF Walk, PresentStay
<1>14. \A q \in Procs : work'[q].stage = "reconciled" => IsReconcile(work'[q].job)
  BY <1>4 DEF Walk
<1> QED BY <1>7, <1>8, <1>9, <1>10, <1>11, <1>12, <1>13, <1>14 DEF Walk

LEMMA MarkSeenWalk ==
  ASSUME IInv, Walk, NEW p \in Procs, MarkSeen(p)
  PROVE  Walk'
<1> DEFINE locals == [work[p] EXCEPT !.stage = "marked"]
<1>1. /\ UNCHANGED <<parent, moved, sourceState, jobs, lapsed, runs>>
      /\ mark' = [f \in Files |-> IF f \in work[p].seen THEN work[p].run ELSE mark[f]]
      /\ work' = [work EXCEPT ![p] = locals]
      /\ work[p].stage = "writing"
      /\ \A f \in work[p].seen : sourceState[f] = "active"
  BY DEF MarkSeen, drive, counters, Marked
<1>2. /\ locals.stage = "marked" /\ locals.job = work[p].job /\ locals.run = work[p].run
      /\ locals.todo = work[p].todo /\ locals.seen = work[p].seen
      /\ locals.children = work[p].children /\ locals.next = work[p].next
  BY LocalsOf DEF Locals
<1>3. work'[p] = locals /\ \A q \in Procs \ {p} : work'[q] = work[q]
  BY <1>1 DEF IInv, TypeOK
<1> HIDE DEF locals
<1>4. \A q \in Procs :
        /\ work'[q].stage = "marked" => q = p \/ work[q].stage = "marked"
        /\ work'[q].stage = "reconciled" => work[q].stage = "reconciled"
        /\ work'[q].stage # "idle" => work[q].stage # "idle"
        /\ work'[q].job = work[q].job
        /\ work'[q].run = work[q].run /\ work'[q].seen = work[q].seen
        /\ work'[q].todo = work[q].todo
        /\ InHand(q)' => SameLocals(q)
  BY <1>1, <1>2, <1>3 DEF SameLocals, InHand
<1>5. SameRows /\ Unmoved /\ Present' = Present /\ Absent' = Absent
  BY <1>1 DEF SameRows, Unmoved, Present, Absent
<1>6. InHand(p)
  BY <1>1 DEF InHand
<1>7. LeasesHeld'
  BY <1>1, <1>4, HoldsOn DEF Walk
<1>8. ParentsDone' /\ OneRun'
  BY <1>5, RowsKept DEF Walk
<1>9. WalkCovers'
  <2>1. \A run \in 1 .. runs : OfRun(jobs, run) # {} => run = work[p].run
    BY <1>6, SameRun DEF Walk, NoRun, IInv, TypeOK
  <2> QED BY <1>1, <1>5, <2>1, WalkCoversKept DEF Walk
<1>10. PagesCover'
  BY <1>4, <1>5, PageKept DEF Walk, PagesCover
<1>11. PagesMarked'
  <2> SUFFICES ASSUME NEW q \in Procs, work'[q].stage = "marked", NEW f \in work'[q].seen \ moved'
               PROVE  mark'[f] = work'[q].run /\ sourceState'[f] = "active"
    BY DEF PagesMarked
  <2>1. f \in Files /\ f \in work[q].seen \ moved /\ work'[q].run = work[q].run
    BY <1>1, <1>4, LocalsOf DEF Locals
  <2>2. CASE q = p
    BY <1>1, <2>1, <2>2
  <2>3. CASE q # p
    <3>1. work[q].stage = "marked"
      BY <1>4, <2>3
    <3>2. work[q].run = work[p].run
      BY <1>6, <3>1, SameRun DEF Walk, InHand
    <3>3. mark[f] = work[q].run /\ sourceState[f] = "active"
      BY <2>1, <3>1 DEF Walk, PagesMarked
    <3> QED BY <1>1, <2>1, <3>2, <3>3
  <2> QED BY <2>2, <2>3
<1>12. AbsentUntouched'
  <2>1. Purged' => Purged
    BY <1>1, <1>4 DEF Purged, Reconciled
  <2>2. \A f \in Absent : mark'[f] = mark[f]
    BY <1>1 DEF Walk, AbsentUntouched, Absent
  <2> QED BY <1>1, <1>4, <1>5, <2>1, <2>2 DEF Walk, AbsentUntouched
<1>13. PresentStay'
  BY <1>1, <1>5 DEF Walk, PresentStay
<1>14. \A q \in Procs : work'[q].stage = "reconciled" => IsReconcile(work'[q].job)
  BY <1>4 DEF Walk
<1> QED BY <1>7, <1>8, <1>9, <1>10, <1>11, <1>12, <1>13, <1>14 DEF Walk

LEMMA ReconcileWalk ==
  ASSUME IInv, TreeKept, Walk, NEW p \in Procs, Reconcile(p)
  PROVE  Walk'
<1> DEFINE run == jobs[work[p].job].run
           unseen == {f \in Files : sourceState[f] = "active" /\ mark[f] # run}
           locals == [work[p] EXCEPT !.stage = "reconciled"]
<1>1. /\ UNCHANGED <<parent, moved, jobs, lapsed, runs>>
      /\ sourceState' = [f \in Files |-> IF f \in unseen THEN "deleted" ELSE sourceState[f]]
      /\ mark' = [f \in Files |-> IF f \in unseen THEN NoRun ELSE mark[f]]
      /\ work' = [work EXCEPT ![p] = locals]
      /\ work[p].stage = "loaded"
      /\ IsReconcile(work[p].job)
  BY DEF Reconcile, drive, counters
<1>2. /\ locals.stage = "reconciled" /\ locals.job = work[p].job
      /\ locals.todo = work[p].todo /\ locals.seen = work[p].seen
  BY LocalsOf DEF Locals
<1>3. work'[p] = locals /\ \A q \in Procs \ {p} : work'[q] = work[q]
  BY <1>1 DEF IInv, TypeOK
<1> HIDE DEF locals
<1>4. /\ run \in 1 .. runs /\ run # NoRun
      /\ work[p].job = ReconcileJob(run)
      /\ \A r \in Nat \ {NoRun} : OfRun(jobs, r) # {} => r = run
      /\ \A q \in Procs \ {p} : work[q].stage = "idle"
  BY <1>1, ReconcilesAlone DEF Walk, NoRun, IInv, TypeOK
<1>5. \A i \in Present : Reached(run, i)
  BY <1>4, LocalsOf, AllReached DEF Walk
<1> HIDE DEF run
<1>6. SameRows /\ Unmoved /\ Present' = Present /\ Absent' = Absent
  BY <1>1 DEF SameRows, Unmoved, Present, Absent
<1>7. LeasesHeld'
  BY <1>1, <1>2, <1>3, HoldsOn DEF Walk
<1>8. ParentsDone' /\ OneRun'
  BY <1>6, RowsKept DEF Walk
<1>9. WalkCovers'
  <2>1. \A r \in 1 .. runs : OfRun(jobs, r) # {} => r = run
    BY <1>4 DEF NoRun, IInv, TypeOK
  <2>2. \A r \in 1 .. runs, f \in Files :
          OfRun(jobs, r) # {} /\ mark[f] = r /\ sourceState[f] = "active" => f \notin unseen
    BY <2>1
  <2> QED BY <1>1, <1>6, <2>2, WalkCoversKept DEF Walk
<1>10. \A q \in Procs : ~InHand(q)'
  BY <1>2, <1>3, <1>4 DEF InHand
<1>11. PagesCover' /\ PagesMarked'
  BY <1>10 DEF PagesCover, PagesMarked, InHand
<1>12. AbsentUntouched'
  <2> SUFFICES ASSUME NEW f \in Absent
               PROVE  /\ mark'[f] = NoRun
                      /\ sourceState'[f] = "deleted"
                      /\ \A q \in Procs : f \notin work'[q].todo \cup work'[q].seen
    BY <1>6 DEF AbsentUntouched
  <2>1. /\ f \in Files /\ mark[f] = NoRun /\ sourceState[f] \in {"active", "deleted"}
        /\ \A q \in Procs : f \notin work[q].todo \cup work[q].seen
    BY DEF Walk, AbsentUntouched, Absent
  <2> QED BY <1>1, <1>2, <1>3, <1>4, <2>1
<1>13. PresentStay'
  <2>1. \A f \in Present \cap Files : f \notin unseen
    BY <1>5 DEF Reached
  <2> QED BY <1>1, <1>6, <2>1 DEF Walk, PresentStay
<1>14. \A q \in Procs : work'[q].stage = "reconciled" => IsReconcile(work'[q].job)
  BY <1>1, <1>2, <1>3 DEF Walk
<1> QED BY <1>7, <1>8, <1>9, <1>11, <1>12, <1>13, <1>14 DEF Walk

-----------------------------------------------------------------------------
(* The end of a page.                                                       *)

\* The name of a next page tells whose page it is.
LEMMA PageNames ==
  ASSUME NEW i \in JobIds, NEW t \in Nat
  PROVE  /\ \A j \in JobIds, u \in Nat : PageJob(i, t) = PageJob(j, u) => i = j /\ t = u
         /\ \A run \in Nat, d \in Nat : PageJob(i, t) # FolderJob(run, d)
         /\ \A run \in Nat : PageJob(i, t) # ReconcileJob(run)
<1> DEFINE page(u) == [kind |-> "page", run |-> NoRun, at |-> u]
<1>1. \A u \in Nat : page(u) \in Steps /\ page(u).at = u /\ page(u).kind = "page"
  BY DEF Steps, NoRun
<1>2. \A j \in JobIds, u \in Nat : PageJob(j, u) = Append(j, page(u))
  BY DEF PageJob
<1> HIDE DEF page
<1>4. ASSUME NEW s \in Steps, s.kind # "page" PROVE PageJob(i, t) # <<s>>
  <2> SUFFICES ASSUME NEW x \in Steps, Append(i, x) = <<s>> PROVE x = s
    BY <1>1, <1>2, <1>4
  <2>1. Len(Append(i, x)) = Len(i) + 1 /\ Append(i, x)[Len(i) + 1] = x /\ Len(i) \in Nat
    BY AppendProperties, LenProperties DEF JobIds
  <2>2. Len(<<s>>) = 1 /\ <<s>>[1] = s
    OBVIOUS
  <2>3. Len(i) + 1 = 1
    BY <2>1, <2>2
  <2> QED BY <2>1, <2>2, <2>3
<1>5. \A j \in JobIds, u \in Nat : PageJob(i, t) = PageJob(j, u) => i = j /\ t = u
  <2> SUFFICES ASSUME NEW j \in JobIds, NEW u \in Nat, PageJob(i, t) = PageJob(j, u)
               PROVE  i = j /\ t = u
    OBVIOUS
  <2>1. \A x, y \in Steps : Append(i, x) = Append(j, y) => i = j /\ x = y
    <3> SUFFICES ASSUME NEW x \in Steps, NEW y \in Steps, Append(i, x) = Append(j, y)
                 PROVE  i = j /\ x = y
      OBVIOUS
    <3> HIDE DEF Steps
    <3> QED BY AppendInjective DEF JobIds
  <2>2. Append(i, page(t)) = Append(j, page(u))
    BY <1>2
  <2>3. i = j /\ page(t) = page(u)
    BY Zenon, <1>1, <2>1, <2>2
  <2> QED BY <1>1, <2>3
<1>6. \A run \in Nat, d \in Nat : PageJob(i, t) # FolderJob(run, d)
  <2> SUFFICES ASSUME NEW run \in Nat, NEW d \in Nat PROVE PageJob(i, t) # FolderJob(run, d)
    OBVIOUS
  <2> DEFINE s == [kind |-> "folder", run |-> run, at |-> d]
  <2>1. s \in Steps /\ s.kind = "folder" /\ FolderJob(run, d) = <<s>>
    BY DEF Steps, FolderJob
  <2> HIDE DEF s
  <2> QED BY <1>4, <2>1
<1>7. \A run \in Nat : PageJob(i, t) # ReconcileJob(run)
  <2> SUFFICES ASSUME NEW run \in Nat PROVE PageJob(i, t) # ReconcileJob(run)
    OBVIOUS
  <2> DEFINE s == [kind |-> "reconcile", run |-> run, at |-> Top]
  <2>1. s \in Steps /\ s.kind = "reconcile" /\ ReconcileJob(run) = <<s>>
    BY DEF Steps, ReconcileJob, Top
  <2> HIDE DEF s
  <2> QED BY <1>4, <2>1
<1> QED BY <1>5, <1>6, <1>7

\* The rows the end of a page adds: one for each folder on it, one for the next
\* page, and the reconciliation; its own row stays where it was.
LEMMA FinishedAdds ==
  ASSUME IInv, NEW p \in Procs, InHand(p)
  PROVE  LET js == FinishedRows(p)
             j == work[p].job
             run == work[p].run
             next == work[p].next
         IN /\ js[j].folder = jobs[j].folder /\ js[j].token = jobs[j].token
            /\ js[j].attempts = jobs[j].attempts
            /\ \A d \in work[p].children : FolderJob(run, d) \in DOMAIN js
            /\ next # 0 => PageJob(j, next) \in DOMAIN js
            /\ \A i \in DOMAIN js \ DOMAIN jobs :
                 \/ \E d \in work[p].children : i = FolderJob(run, d) /\ js[i] = NewJob(run, d, 0)
                 \/ next # 0 /\ i = PageJob(j, next) /\ js[i] = NewJob(run, jobs[j].folder, next)
                 \/ i = ReconcileJob(run) /\ js[i] = NewJob(run, Top, 0)
<1> DEFINE j == work[p].job
           run == work[p].run
           next == work[p].next
           children == work[p].children
           folders == {FolderJob(run, d) : d \in children}
           pages == IF next = 0 THEN {} ELSE {PageJob(j, next)}
           inserted == Insert(jobs, Scheduled(p))
           ended == End(inserted, j, "completed")
           reconcile == [i \in {ReconcileJob(run)} |-> NewJob(run, Top, 0)]
           js == FinishedRows(p)
<1>1. run \in Nat /\ j \in DOMAIN jobs /\ j \in JobIds /\ jobs[j] \in Jobs /\ children \subseteq Nat
  BY LocalsOf, RowFacts, DriveSyncAssumption DEF IInv, Locals, Items
<1>2. /\ DOMAIN FolderRows(p) = folders /\ DOMAIN PageRows(p) = pages
      /\ DOMAIN Scheduled(p) = folders \cup pages
      /\ \A i \in folders : Scheduled(p)[i] = FolderRows(p)[i]
      /\ \A i \in pages \ folders : Scheduled(p)[i] = PageRows(p)[i]
  BY DEF FolderRows, PageRows, Scheduled, Insert
<1>3. \A d \in children : Scheduled(p)[FolderJob(run, d)] = NewJob(run, d, 0)
  <2> SUFFICES ASSUME NEW d \in children
               PROVE  Scheduled(p)[FolderJob(run, d)] = NewJob(run, d, 0)
    OBVIOUS
  <2>1. FolderJob(run, d)[1].at = d
    BY <1>1, JobNames
  <2>2. FolderJob(run, d) \in folders
    OBVIOUS
  <2>3. FolderRows(p)[FolderJob(run, d)] = NewJob(run, d, 0)
    BY <2>1, <2>2 DEF FolderRows
  <2> QED BY <1>2, <2>2, <2>3
<1>4. \A i \in pages \ folders : Scheduled(p)[i] = NewJob(run, jobs[j].folder, next)
  BY <1>2 DEF PageRows
<1>5. /\ DOMAIN inserted = DOMAIN jobs \cup folders \cup pages
      /\ \A i \in DOMAIN jobs : inserted[i] = jobs[i]
      /\ \A i \in DOMAIN inserted \ DOMAIN jobs : inserted[i] = Scheduled(p)[i]
  BY <1>2 DEF Insert
<1> HIDE DEF inserted
<1>6. /\ DOMAIN ended = DOMAIN inserted
      /\ ended[j] = [jobs[j] EXCEPT !.status = "completed", !.owner = NoWorker]
      /\ \A i \in DOMAIN inserted \ {j} : ended[i] = inserted[i]
  BY <1>1, <1>5 DEF End
<1>7. /\ ended[j].folder = jobs[j].folder /\ ended[j].token = jobs[j].token
      /\ ended[j].attempts = jobs[j].attempts
  BY <1>1, <1>6 DEF Jobs
<1>8. js = IF WalkEnded(ended, run) THEN Insert(ended, reconcile) ELSE ended
  BY DEF FinishedRows, inserted
<1> HIDE DEF ended
<1>9. DOMAIN reconcile = {ReconcileJob(run)} /\ reconcile[ReconcileJob(run)] = NewJob(run, Top, 0)
  OBVIOUS
<1> HIDE DEF reconcile, js
<1>10. /\ DOMAIN ended \subseteq DOMAIN js
       /\ \A i \in DOMAIN ended : js[i] = ended[i]
       /\ \A i \in DOMAIN js \ DOMAIN ended : i = ReconcileJob(run) /\ js[i] = NewJob(run, Top, 0)
  BY <1>8, <1>9 DEF Insert
<1>11. ASSUME NEW i \in DOMAIN ended \ DOMAIN jobs
       PROVE  \/ \E d \in children : i = FolderJob(run, d) /\ js[i] = NewJob(run, d, 0)
              \/ next # 0 /\ i = PageJob(j, next) /\ js[i] = NewJob(run, jobs[j].folder, next)
  <2>1. js[i] = Scheduled(p)[i]
    BY <1>1, <1>5, <1>6, <1>10
  <2>2. CASE i \in folders
    <3>1. PICK d \in children : i = FolderJob(run, d)
      BY <2>2
    <3> QED BY <1>3, <2>1, <3>1
  <2>3. CASE i \in pages \ folders
    BY <1>4, <2>1, <2>3
  <2> QED BY <1>5, <1>6, <2>2, <2>3
<1> HIDE DEF folders, pages
<1>12. /\ \A d \in children : FolderJob(run, d) \in DOMAIN js
       /\ next # 0 => PageJob(j, next) \in DOMAIN js
  BY <1>5, <1>6, <1>10 DEF folders, pages
<1>13. /\ js[j].folder = jobs[j].folder /\ js[j].token = jobs[j].token
       /\ js[j].attempts = jobs[j].attempts
  BY <1>1, <1>5, <1>6, <1>7, <1>10
<1>14. \A i \in DOMAIN js \ DOMAIN jobs :
         \/ \E d \in children : i = FolderJob(run, d) /\ js[i] = NewJob(run, d, 0)
         \/ next # 0 /\ i = PageJob(j, next) /\ js[i] = NewJob(run, jobs[j].folder, next)
         \/ i = ReconcileJob(run) /\ js[i] = NewJob(run, Top, 0)
  BY <1>10, <1>11
<1> QED BY <1>12, <1>13, <1>14 DEF js

LEMMA FinishPageWalk ==
  ASSUME IInv, IInv', Walk, NEW p \in Procs, FinishPage(p)
  PROVE  Walk'
<1> DEFINE j == work[p].job
           run == work[p].run
           next == work[p].next
           children == work[p].children
<1>1. /\ UNCHANGED <<parent, moved, sourceState, mark, lapsed, runs>>
      /\ jobs' = FinishedRows(p)
      /\ work' = [work EXCEPT ![p] = Idle]
      /\ work[p].stage = "marked"
      /\ InHand(p)
      /\ jobs[j].status = "leased"
  BY DEF FinishPage, drive, index, counters, InHand, HoldsLease, Owns
<1>2. /\ DOMAIN jobs \subseteq DOMAIN jobs'
      /\ jobs'[j].run = jobs[j].run /\ jobs'[j].status = "completed"
      /\ \A i \in DOMAIN jobs \ {j} : jobs'[i] = jobs[i]
      /\ \A i \in DOMAIN jobs' \ DOMAIN jobs : i # Root /\ jobs'[i].run = run
  BY <1>1, FinishedFacts
<1>3. /\ jobs'[j].folder = jobs[j].folder /\ jobs'[j].token = jobs[j].token
      /\ \A d \in children : FolderJob(run, d) \in DOMAIN jobs'
      /\ next # 0 => PageJob(j, next) \in DOMAIN jobs'
      /\ \A i \in DOMAIN jobs' \ DOMAIN jobs :
           \/ \E d \in children : i = FolderJob(run, d) /\ jobs'[i] = NewJob(run, d, 0)
           \/ next # 0 /\ i = PageJob(j, next) /\ jobs'[i] = NewJob(run, jobs[j].folder, next)
           \/ i = ReconcileJob(run) /\ jobs'[i] = NewJob(run, Top, 0)
  BY <1>1, FinishedAdds
<1>4. /\ j \in DOMAIN jobs /\ j \in JobIds
      /\ run \in Nat /\ run # NoRun /\ run \in 1 .. runs /\ next \in Nat
      /\ children \subseteq Folders /\ Folders \subseteq Nat \ {0}
      /\ ~IsReconcile(j)
      /\ j # Root => run = jobs[j].run
  <2>1. run \in 1 .. runs /\ runs \in Nat
    BY <1>1 DEF IInv, RunsInHand, TypeOK
  <2> QED BY <1>1, <2>1, LocalsOf, RowFacts, DriveSyncAssumption
          DEF IInv, RunsInHand, Locals, NoRun, Items
<1>5. work'[p] = Idle /\ \A q \in Procs \ {p} : work'[q] = work[q]
  BY <1>1 DEF IInv, TypeOK
<1>6. Idle.stage = "idle" /\ Idle.todo = {} /\ Idle.seen = {}
  BY DEF Idle
<1> HIDE DEF j, run, next, children
<1>7. \A q \in Procs : work'[q].stage # "idle" =>
        q # p /\ work'[q] = work[q] /\ work[q].job \in DOMAIN jobs \ {j}
  BY <1>1, <1>5, <1>6, LocalsOf, OneWorker DEF Walk, j
<1>8. Present' = Present /\ Absent' = Absent
  BY <1>1 DEF Present, Absent
<1>9. j = Root => DOMAIN jobs = {Root}
  <2>1. Root \in DOMAIN jobs /\ \A i \in DOMAIN jobs \ {Root} : jobs[Root].status = "completed"
    BY DEF Walk, OneRun, IInv, JobsHaveRuns
  <2>2. jobs[j].status # "completed"
    BY <1>1 DEF j
  <2> QED BY <2>1, <2>2
\* Every job but the initial one is of this run now.
<1>10. \A i \in DOMAIN jobs' \ {Root} : jobs'[i].run = run
  <2>1. \A i \in DOMAIN jobs \ {Root} : jobs[i].run = run
    <3>1. CASE j = Root
      BY <1>9, <3>1
    <3>2. CASE j # Root
      BY <1>4, <3>2 DEF Walk, OneRun
    <3> QED BY <3>1, <3>2
  <2> QED BY <1>2, <2>1
<1>11. LeasesHeld'
  <2> SUFFICES ASSUME NEW q \in Procs, work'[q].stage # "idle" PROVE HoldsLease(q)'
    BY DEF LeasesHeld
  <2>1. work'[q] = work[q] /\ HoldsLease(q) /\ jobs'[work[q].job] = jobs[work[q].job]
    BY <1>2, <1>7 DEF Walk, LeasesHeld
  <2> QED BY <1>1, <2>1 DEF HoldsLease, Owns
<1>12. ParentsDone'
  <2> SUFFICES ASSUME NEW i \in JobIds, NEW t \in Nat, PageJob(i, t) \in DOMAIN jobs'
               PROVE  i \in DOMAIN jobs' /\ jobs'[i].status = "completed"
    BY DEF ParentsDone
  <2>1. CASE PageJob(i, t) \in DOMAIN jobs
    BY <1>2, <2>1 DEF Walk, ParentsDone
  <2>2. CASE PageJob(i, t) \notin DOMAIN jobs
    <3>1. PageJob(i, t) = PageJob(j, next)
      <4>1. \A d \in children : PageJob(i, t) # FolderJob(run, d)
        BY <1>4, PageNames
      <4>2. PageJob(i, t) # ReconcileJob(run)
        BY <1>4, PageNames
      <4> QED BY <1>3, <2>2, <4>1, <4>2
    <3>2. i = j
      BY <1>4, <3>1, PageNames
    <3> QED BY <1>2, <1>4, <3>2
  <2> QED BY <2>1, <2>2
<1>13. OneRun'
  <2>1. Root \in DOMAIN jobs
    BY DEF IInv, JobsHaveRuns
  <2>2. jobs'[Root].folder = Top /\ jobs'[Root].token = 0
    BY <1>2, <1>3, <1>4, <2>1 DEF Walk, OneRun
  <2>3. jobs'[Root].status = "completed"
    <3>1. CASE j = Root
      BY <1>2, <3>1
    <3>2. CASE j # Root
      BY <1>2, <1>4, <2>1, <3>2 DEF Walk, OneRun
    <3> QED BY <3>1, <3>2
  <2> QED BY <1>10, <2>2, <2>3 DEF OneRun
<1>14. WalkCovers'
  <2> SUFFICES ASSUME NEW r \in 1 .. runs', NEW i \in Present', OfRun(jobs', r) # {},
                      parent'[i] = Top \/ FolderJob(r, parent'[i]) \in DOMAIN jobs'
               PROVE  Reached(r, i)' \/ Ahead(r, i)'
    BY DEF WalkCovers
  <2>1. i \in Present /\ i \in Items /\ i \in Nat \ {0} /\ i \notin moved /\ parent'[i] = parent[i]
    BY <1>1, <1>8, DriveSyncAssumption DEF Present
  <2>2. r = run
    <3>1. PICK k \in OfRun(jobs', r) : TRUE
      OBVIOUS
    <3>2. k \in DOMAIN jobs' /\ jobs'[k].run = r
      BY DEF OfRun
    <3>3. r \in Nat \ {NoRun}
      BY <1>1 DEF IInv, TypeOK, NoRun
    <3>4. k # Root
      BY <3>2, <3>3 DEF IInv, JobsHaveRuns
    <3> QED BY <1>10, <3>2, <3>4
\* A job that is queued now is one whose items are ahead.
  <2>3. ASSUME NEW k \in DOMAIN jobs' \ {Root}, ~IsReconcile(k), jobs'[k].status # "completed",
               jobs'[k].folder = parent[i], jobs'[k].token < i
        PROVE  Ahead(r, i)'
    <3>1. k \in OfRun(jobs', run)
      BY <1>10 DEF OfRun
    <3>2. k \in OfRun(jobs', r)
      BY <2>2, <3>1
    <3> QED BY <1>1, <2>3, <3>2 DEF Ahead
\* An item that relied on this page is on it, or beyond it.
  <2>4. ASSUME parent[i] = jobs[j].folder, jobs[j].token < i
        PROVE  Reached(r, i)' \/ Ahead(r, i)'
    <3>1. \/ i \in work[p].seen
          \/ i \in children
          \/ next # 0 /\ next < i
      BY <1>1, <2>1, <2>4 DEF Walk, PagesCover, j, next, children
    <3>2. CASE i \in work[p].seen
      <4>1. mark[i] = run /\ sourceState[i] = "active" /\ i \in Files
        BY <1>1, <2>1, <3>2, LocalsOf DEF Walk, PagesMarked, Locals, run
      <4> QED BY <1>1, <2>2, <4>1 DEF Reached
    <3>3. CASE i \in children
      <4>1. i \notin Files
        BY <1>4, <3>3, DriveSyncAssumption
      <4> QED BY <1>3, <2>2, <3>3, <4>1 DEF Reached
    <3>4. CASE next # 0 /\ next < i
      <4> DEFINE k == PageJob(j, next)
      <4>1. k \in DOMAIN jobs' \ DOMAIN jobs
        BY <1>1, <1>3, <1>4, <3>4 DEF Walk, ParentsDone, j
      <4>2. k # Root /\ ~IsReconcile(k)
        BY <1>4, JobNames
      <4>3. /\ \A d \in children : k # FolderJob(run, d)
            /\ k # ReconcileJob(run)
        BY <1>4, PageNames
      <4>4. jobs'[k] = NewJob(run, jobs[j].folder, next)
        BY <1>3, <4>1, <4>3
      <4>5. jobs'[k].folder = jobs[j].folder /\ jobs'[k].token = next /\ jobs'[k].status = "pending"
        BY <4>4 DEF NewJob
      <4> HIDE DEF k
      <4> QED BY <2>3, <2>4, <3>4, <4>1, <4>2, <4>5
    <3> QED BY <3>1, <3>2, <3>3, <3>4
\* A folder that is queued now is listed from its first page.
  <2>5. CASE \E d \in Folders : parent[i] = d /\ FolderJob(run, d) \in DOMAIN jobs' \ DOMAIN jobs
    <3>1. PICK d \in Folders : parent[i] = d /\ FolderJob(run, d) \in DOMAIN jobs' \ DOMAIN jobs
      BY <2>5
    <3> DEFINE k == FolderJob(run, d)
    <3>2. d \in Nat /\ k # Root /\ ~IsReconcile(k) /\ k[1].at = d
      BY <1>4, JobNames
    <3>3. k # PageJob(j, next) /\ k # ReconcileJob(run)
      <4>1. IsReconcile(ReconcileJob(run))
        BY <1>4, <3>2, JobNames
      <4>2. k # PageJob(j, next)
        BY <1>4, <3>2, PageNames
      <4> QED BY <3>2, <4>1, <4>2
    <3>4. PICK e \in children : k = FolderJob(run, e) /\ jobs'[k] = NewJob(run, e, 0)
      BY <1>3, <3>1, <3>3
    <3>5. e = d
      BY <1>4, <3>2, <3>4, JobNames
    <3>6. jobs'[k].folder = d /\ jobs'[k].token = 0 /\ jobs'[k].status = "pending"
      BY <3>4, <3>5 DEF NewJob
    <3>7. 0 < i
      BY <2>1
    <3> HIDE DEF k
    <3> QED BY <2>2, <2>3, <3>1, <3>2, <3>6, <3>7 DEF k
  <2>6. CASE parent[i] = Top \/ FolderJob(run, parent[i]) \in DOMAIN jobs
    <3>1. CASE j = Root
      <4>1. FolderJob(run, parent[i]) \notin DOMAIN jobs
        <5>1. parent[i] \in Nat
          <6>1. parent[i] \in Folders \/ parent[i] = Top
            BY <2>1 DEF Present, IInv, TypeOK, Places
          <6>2. Folders \subseteq Nat /\ Top \in Nat
            BY <1>4 DEF Top
          <6> QED BY <6>1, <6>2
        <5>2. FolderJob(run, parent[i]) # Root
          BY <1>4, <5>1, JobNames
        <5> QED BY <1>9, <3>1, <5>2
      <4>2. parent[i] = jobs[j].folder /\ jobs[j].token = 0
        BY <2>6, <3>1, <4>1 DEF Walk, OneRun
      <4>3. jobs[j].token < i
        BY <2>1, <4>2
      <4> QED BY <2>2, <2>4, <4>2, <4>3
    <3>2. CASE j # Root
      <4>1. OfRun(jobs, run) # {}
        BY <1>4, <3>2 DEF OfRun
      <4>2. Reached(run, i) \/ Ahead(run, i)
        BY <1>4, <2>1, <2>6, <4>1 DEF Walk, WalkCovers
      <4>3. Reached(run, i) => Reached(r, i)'
        BY <1>1, <1>2, <2>2 DEF Reached
      <4>4. ASSUME Ahead(run, i) PROVE Reached(r, i)' \/ Ahead(r, i)'
        <5>1. PICK k \in OfRun(jobs, run) :
                /\ ~IsReconcile(k) /\ jobs[k].status # "completed"
                /\ jobs[k].folder = parent[i] /\ jobs[k].token < i
          BY <4>4 DEF Ahead
        <5>2. CASE k = j
          BY <2>4, <5>1, <5>2
        <5>3. CASE k # j
          <6>1. k \in DOMAIN jobs' \ {Root} /\ jobs'[k] = jobs[k]
            BY <1>2, <1>4, <5>3 DEF OfRun, IInv, JobsHaveRuns
          <6> QED BY <2>3, <5>1, <6>1
        <5> QED BY <5>2, <5>3
      <4> QED BY <2>2, <4>2, <4>3, <4>4
    <3> QED BY <3>1, <3>2
  <2>7. parent[i] = Top \/ parent[i] \in Folders
    BY <2>1 DEF Present, IInv, TypeOK, Places
  <2> QED BY <2>1, <2>2, <2>5, <2>6, <2>7
<1>15. PagesCover'
  <2> SUFFICES ASSUME NEW q \in Procs, InHand(q)', NEW i \in Present',
                      parent'[i] = jobs'[work'[q].job].folder, jobs'[work'[q].job].token < i
               PROVE  \/ i \in work'[q].seen \cup work'[q].children
                      \/ work'[q].next # 0 /\ work'[q].next < i
    BY DEF PagesCover
  <2>1. work'[q] = work[q] /\ InHand(q) /\ jobs'[work[q].job] = jobs[work[q].job]
    BY <1>2, <1>7 DEF InHand
  <2> QED BY <1>1, <1>8, <2>1 DEF Walk, PagesCover
<1>16. PagesMarked'
  BY <1>1, <1>7 DEF Walk, PagesMarked
<1>17. AbsentUntouched'
  <2>1. Reconciled' => Reconciled
    <3> SUFFICES ASSUME NEW i \in DOMAIN jobs', IsReconcile(i), jobs'[i].status = "completed"
                 PROVE  Reconciled
      BY DEF Reconciled
    <3>1. i # j
      BY <1>4
    <3>2. CASE i \in DOMAIN jobs
      BY <1>2, <3>1, <3>2 DEF Reconciled
    <3>3. CASE i \notin DOMAIN jobs
      <4>1. \A r, f, t : NewJob(r, f, t).status = "pending"
        BY DEF NewJob
      <4> QED BY <1>3, <3>3, <4>1
    <3> QED BY <3>2, <3>3
  <2>2. Purged' => Purged
    BY <1>7, <2>1 DEF Purged
  <2>3. \A f \in Absent, q \in Procs : f \notin work'[q].todo \cup work'[q].seen
    BY <1>5, <1>6 DEF Walk, AbsentUntouched
  <2> QED BY <1>1, <1>8, <2>2, <2>3 DEF Walk, AbsentUntouched
<1>18. PresentStay'
  BY <1>1, <1>8 DEF Walk, PresentStay
<1>19. \A q \in Procs : work'[q].stage = "reconciled" => IsReconcile(work'[q].job)
  BY <1>7 DEF Walk
<1> QED BY <1>11, <1>12, <1>13, <1>14, <1>15, <1>16, <1>17, <1>18, <1>19 DEF Walk

-----------------------------------------------------------------------------
(* The invariant holds.                                                     *)

LEMMA InitCover == Init => CoverInv
<1> SUFFICES ASSUME Init PROVE CoverInv
  OBVIOUS
<1> DEFINE row == NewJob(NoRun, Top, 0)
<1>1. /\ parent = Tree /\ moved = {} /\ runs = 0
      /\ sourceState = [f \in Files |-> IF Tree[f] = Gone THEN "active" ELSE "absent"]
      /\ mark = [f \in Files |-> NoRun]
      /\ DOMAIN jobs = {Root} /\ jobs[Root] = row
      /\ \A p \in Procs : work[p] = Idle
  BY DEF Init
<1>2. row.folder = Top /\ row.token = 0 /\ row.status = "pending"
  BY DEF NewJob
<1> HIDE DEF row
<1>3. TreeKept
  BY <1>1, DriveSyncAssumption DEF TreeKept
<1>4. /\ \A p \in Procs : work[p].stage = "idle" /\ work[p].todo = {} /\ work[p].seen = {}
      /\ \A p \in Procs : ~InHand(p)
  BY <1>1 DEF Idle, InHand
<1>5. ParentsDone
  <2>1. \A i \in JobIds, t \in Nat : PageJob(i, t) # Root
    BY JobNames
  <2> QED BY <1>1, <2>1 DEF ParentsDone
<1>6. OneRun
  BY <1>1, <1>2 DEF OneRun
<1>7. WalkCovers
  BY <1>1 DEF WalkCovers
<1>8. AbsentUntouched
  <2>1. ~Purged
    BY <1>1, <1>2, <1>4 DEF Purged, Reconciled, IsReconcile
  <2> QED BY <1>1, <1>4, <2>1 DEF AbsentUntouched, Absent
<1>9. PresentStay
  BY <1>1 DEF PresentStay, Present
<1>10. LeasesHeld /\ PagesCover /\ PagesMarked
  BY <1>4 DEF LeasesHeld, PagesCover, PagesMarked, InHand
<1>11. \A p \in Procs : work[p].stage = "reconciled" => IsReconcile(work[p].job)
  BY <1>4
<1>12. Walk
  BY <1>5, <1>6, <1>7, <1>8, <1>9, <1>10, <1>11 DEF Walk
<1> QED BY <1>3, <1>12, InitInv DEF CoverInv

\* A step that leaves the scan calm found it calm.
LEMMA CalmBefore ==
  ASSUME IInv, [Next]_vars, Calm'
  PROVE  Calm /\ ~Reauthorize
<1>1. stalls \in Nat /\ grants \in Nat
  BY DriveSyncAssumption DEF IInv, TypeOK
<1>2. /\ stalls' = stalls \/ stalls' = stalls + 1
      /\ grants' = grants \/ (Reauthorize /\ grants' = grants + 1)
  <2>1. CASE TreeChanges
    BY <2>1 DEF TreeChanges, counters
  <2>2. CASE Reauthorize
    BY <2>2 DEF Reauthorize
  <2>3. ASSUME NEW j \in DOMAIN jobs, LeaseExpires(j)
        PROVE  (stalls' = stalls \/ stalls' = stalls + 1) /\ grants' = grants
    BY <2>3 DEF LeaseExpires
  <2>4. ASSUME NEW p \in Procs, Progress(p) \/ ClaimNothing(p) \/ Crash(p)
        PROVE  stalls' = stalls /\ grants' = grants
    BY <2>4 DEF Progress, Claim, Load, ListPage, Enqueue, MarkSeen, FinishPage, Reconcile,
                CompleteReconciliation, Fail, ClaimNothing, Crash, counters
  <2>5. CASE UNCHANGED vars
    BY <2>5 DEF vars, counters
  <2> QED BY <2>1, <2>2, <2>3, <2>4, <2>5 DEF Next
<1>3. ASSUME Reauthorize PROVE FALSE
  <2>1. grants' = grants + 1
    BY <1>3 DEF Reauthorize
  <2> QED BY <1>1, <2>1 DEF Calm
<1> QED BY <1>1, <1>2, <1>3 DEF Calm

LEMMA TreeKeptNext == ASSUME IInv, TreeKept, [Next]_vars PROVE TreeKept'
<1>1. CASE TreeChanges
  BY <1>1, MoveFacts
<1>2. ASSUME ~TreeChanges PROVE UNCHANGED <<parent, moved>>
  <2>1. CASE Reauthorize
    BY <2>1 DEF Reauthorize, drive
  <2>2. ASSUME NEW j \in DOMAIN jobs, LeaseExpires(j) PROVE UNCHANGED <<parent, moved>>
    BY <2>2 DEF LeaseExpires, drive
  <2>3. ASSUME NEW p \in Procs, Progress(p) \/ ClaimNothing(p) \/ Crash(p)
        PROVE  UNCHANGED <<parent, moved>>
    BY <2>3 DEF Progress, Claim, Load, ListPage, Enqueue, MarkSeen, FinishPage, Reconcile,
                CompleteReconciliation, Fail, ClaimNothing, Crash, drive
  <2>4. CASE UNCHANGED vars
    BY <2>4 DEF vars, drive
  <2> QED BY <1>2, <2>1, <2>2, <2>3, <2>4 DEF Next
<1> QED BY <1>1, <1>2 DEF TreeKept

LEMMA NextCover == CoverInv /\ [Next]_vars => CoverInv'
<1> SUFFICES ASSUME CoverInv, [Next]_vars PROVE CoverInv'
  OBVIOUS
<1>1. IInv /\ TreeKept /\ IInv' /\ TreeKept'
  BY NextInv, TreeKeptNext DEF CoverInv
<1>2. ASSUME Calm' PROVE Walk'
  <2>1. Walk /\ ~Reauthorize /\ stalls = 0 /\ stalls' = 0
    BY <1>1, <1>2, CalmBefore DEF CoverInv, Calm
  <2>2. CASE TreeChanges
    BY <1>1, <2>1, <2>2, TreeChangesWalk
  <2>3. ASSUME NEW j \in DOMAIN jobs, LeaseExpires(j) PROVE Walk'
    BY <1>1, <2>1, <2>3, LeaseExpiresWalk
  <2>4. ASSUME NEW p \in Procs, Progress(p) PROVE Walk'
    <3>1. ASSUME NEW j \in DOMAIN jobs, Claim(p, j) PROVE Walk'
      BY <1>1, <2>1, <3>1, ClaimWalk
    <3>2. CASE Load(p)
      BY <1>1, <2>1, <3>2, LoadWalk
    <3>3. CASE ListPage(p)
      BY <1>1, <2>1, <3>3, ListPageWalk
    <3>4. ASSUME NEW f \in Files, Enqueue(p, f) PROVE Walk'
      BY <1>1, <2>1, <3>4, EnqueueWalk
    <3>5. CASE MarkSeen(p)
      BY <1>1, <2>1, <3>5, MarkSeenWalk
    <3>6. CASE FinishPage(p)
      BY <1>1, <2>1, <3>6, FinishPageWalk
    <3>7. CASE Reconcile(p)
      BY <1>1, <2>1, <3>7, ReconcileWalk
    <3>8. CASE CompleteReconciliation(p)
      BY <1>1, <2>1, <3>8, CompleteReconciliationWalk
    <3>9. ASSUME NEW retryable \in BOOLEAN, NEW reauthorization \in BOOLEAN,
                 Fail(p, retryable, reauthorization)
          PROVE  Walk'
      BY <1>1, <2>1, <3>9, FailWalk
    <3> QED BY <2>4, <3>1, <3>2, <3>3, <3>4, <3>5, <3>6, <3>7, <3>8, <3>9 DEF Progress
  <2>5. ASSUME NEW p \in Procs, ClaimNothing(p) PROVE Walk'
    BY <1>1, <2>1, <2>5, ClaimNothingWalk
  <2>6. ASSUME NEW p \in Procs, Crash(p) PROVE Walk'
    BY <1>1, <2>1, <2>6, CrashWalk
  <2>7. CASE UNCHANGED vars
    BY <1>1, <2>1, <2>7, StutterWalk
  <2> QED BY <2>1, <2>2, <2>3, <2>4, <2>5, <2>6, <2>7 DEF Next
<1> QED BY <1>1, <1>2 DEF CoverInv

\* The walk covers the tree: in a calm scan every item of a folder the walk knows of
\* is reached or ahead of a job that is still to be done.
THEOREM WalkCoversTheTree == Spec => []CoverInv
<1>1. Init => CoverInv
  BY InitCover
<1>2. CoverInv /\ [Next]_vars => CoverInv'
  BY NextCover
<1> QED BY <1>1, <1>2, PTL DEF Spec

\* A file that stays where it is is never purged, for any tree, page size, number of
\* workers, crashes and retries (no lease that lapses under a worker at work).
THEOREM NoUnmovedFilePurged == Spec => []UnmovedFilesStay
<1>1. CoverInv => UnmovedFilesStay
  BY DEF CoverInv, UnmovedFilesStay, Calm, Walk, PresentStay, Present, Items
<1> QED BY <1>1, WalkCoversTheTree, PTL

\* Once a scan is reconciled the index is what Drive holds: every unmoved file that is
\* there is active and every one that is gone is deleted.
THEOREM IndexIsDrive == Spec => []ReconciledIndexIsDrive
<1>1. CoverInv => ReconciledIndexIsDrive
  <2> SUFFICES ASSUME CoverInv, stalls = 0, grants = 0, Reconciled, NEW f \in Files \ moved
               PROVE  sourceState[f] = IF parent[f] = Gone THEN "deleted" ELSE "active"
    BY DEF ReconciledIndexIsDrive
  <2>1. IInv /\ TreeKept /\ Walk
    BY DEF CoverInv, Calm
  <2>2. CASE parent[f] = Gone
    BY <2>1, <2>2 DEF Walk, AbsentUntouched, Absent, Purged
  <2>3. CASE parent[f] # Gone
    <3>1. PICK j \in DOMAIN jobs : IsReconcile(j)
      BY DEF Reconciled
    <3> DEFINE run == jobs[j].run
    <3>2. j = ReconcileJob(run) /\ run \in 1 .. runs
      <4>1. jobs[j] \in Jobs /\ j # Root
        BY <2>1, <3>1, RowFacts DEF IInv, IsReconcile
      <4> QED BY <2>1, <3>1, <4>1 DEF IInv, TypeOK, JobsHaveRuns, Jobs, NoRun
    <3>3. \A i \in Present : Reached(run, i)
      BY <2>1, <3>2, AllReached DEF Walk
    <3> QED BY <2>3, <3>3 DEF Reached, Present, Items
  <2> QED BY <2>2, <2>3
<1> QED BY <1>1, WalkCoversTheTree, PTL

-----------------------------------------------------------------------------
(* DriveSync implements LeaseQueue. *)

\* What a row of app.jobs is in the abstract queue.
LEMMA RowShape ==
  ASSUME NEW job
  PROVE  /\ job.status = "leased" =>
              Row(job) = [state |-> "leased", tries |-> job.attempts, holder |-> {job.owner}]
         /\ job.status \in {"pending", "retry_wait"} => Row(job) = Leases!Waiting(job.attempts)
         /\ job.status \in {"completed", "failed", "dead_letter"}
              => Row(job) = Leases!Ended(job.attempts)
         /\ Row(job).tries = job.attempts
         /\ Row(job).state = "leased" <=> job.status = "leased"
         /\ Row(job).state = "waiting" <=> job.status \in {"pending", "retry_wait"}
<1>1. CASE job.status = "leased"
  BY <1>1 DEF Row
<1>2. CASE job.status \in {"pending", "retry_wait"}
  BY <1>2 DEF Row, Leases!Waiting
<1>3. CASE job.status \notin {"leased", "pending", "retry_wait"}
  BY <1>3 DEF Row, Leases!Ended
<1> QED BY <1>1, <1>2, <1>3

\* The rows of the queue.
LEMMA QueueRows ==
  /\ DOMAIN JobQueue = DOMAIN jobs /\ DOMAIN JobQueue' = DOMAIN jobs'
  /\ \A j \in DOMAIN jobs : JobQueue[j] = Row(jobs[j])
  /\ \A j \in DOMAIN jobs' : JobQueue'[j] = Row(jobs'[j])
  /\ JobQueue = [j \in DOMAIN jobs |-> JobQueue[j]]
  /\ JobQueue' = [j \in DOMAIN jobs' |-> JobQueue'[j]]
  BY DEF JobQueue

\* A swept row is a buried job.
LEMMA SweptIsBuried ==
  ASSUME TypeOK
  PROVE  /\ \A j \in DOMAIN jobs : Leases!Spent(j) <=> Exhausted(j)
         /\ \A j \in DOMAIN jobs : Row(Swept[j]) = Leases!Buried[j]
         /\ DOMAIN Leases!Buried = DOMAIN jobs
         /\ DOMAIN Swept = DOMAIN jobs
         /\ Leases!Buried = [j \in DOMAIN jobs |-> Leases!Buried[j]]
<1>1. ASSUME NEW j \in DOMAIN jobs PROVE Leases!Spent(j) <=> Exhausted(j)
  BY QueueRows, RowShape DEF Leases!Spent, Exhausted
<1>2. ASSUME NEW j \in DOMAIN jobs PROVE Row(Swept[j]) = Leases!Buried[j]
  <2>1. Leases!Buried[j] = IF Exhausted(j) THEN Leases!Ended(jobs[j].attempts)
                           ELSE Row(jobs[j])
    BY <1>1, QueueRows, RowShape DEF Leases!Buried
  <2>2. CASE Exhausted(j)
    <3>1. jobs[j] \in Jobs
      BY RowFacts DEF IInv
    <3>2. Swept[j] = [jobs[j] EXCEPT !.status = "dead_letter", !.owner = NoWorker]
      BY <2>2 DEF Swept
    <3>3. Swept[j].status = "dead_letter" /\ Swept[j].attempts = jobs[j].attempts
      BY <3>1, <3>2 DEF Jobs
    <3> QED BY <2>1, <2>2, <3>3, RowShape
  <2>3. CASE ~Exhausted(j)
    BY <2>1, <2>3 DEF Swept
  <2> QED BY <2>2, <2>3
<1>3. DOMAIN Leases!Buried = DOMAIN jobs /\ DOMAIN Swept = DOMAIN jobs
      /\ Leases!Buried = [j \in DOMAIN jobs |-> Leases!Buried[j]]
  BY QueueRows DEF Leases!Buried, Swept
<1> QED BY <1>1, <1>2, <1>3

\* A row that ends or is given back keeps its tries.
LEMMA EndedRow ==
  ASSUME NEW js, NEW j \in DOMAIN js, js[j] \in Jobs,
         NEW status \in {"completed", "failed", "retry_wait", "dead_letter"}
  PROVE  /\ DOMAIN End(js, j, status) = DOMAIN js
         /\ \A i \in DOMAIN js \ {j} : End(js, j, status)[i] = js[i]
         /\ Row(End(js, j, status)[j]) = IF status = "retry_wait"
                                           THEN Leases!Waiting(js[j].attempts)
                                           ELSE Leases!Ended(js[j].attempts)
<1>1. /\ DOMAIN End(js, j, status) = DOMAIN js
      /\ End(js, j, status)[j] = [js[j] EXCEPT !.status = status, !.owner = NoWorker]
      /\ \A i \in DOMAIN js \ {j} : End(js, j, status)[i] = js[i]
  BY DEF End
<1>2. End(js, j, status)[j].status = status
      /\ End(js, j, status)[j].attempts = js[j].attempts
  BY <1>1 DEF Jobs
<1> QED BY <1>1, <1>2, RowShape

\* A worker that rests lets go of its job.
LEMMA HandsRest ==
  ASSUME TypeOK, NEW p \in Procs, work[p].stage # "idle", work' = [work EXCEPT ![p] = Idle]
  PROVE  Hands[p] = {work[p].job} /\ Hands' = [Hands EXCEPT ![p] = {}]
<1>1. work' \in [Procs -> {work'[q] : q \in Procs}] /\ work'[p].stage = "idle"
      /\ \A q \in Procs \ {p} : work'[q] = work[q]
  BY DEF TypeOK, Idle
<1> QED BY <1>1 DEF Hands

\* Workers that go on with their jobs keep them.
LEMMA HandsKept ==
  ASSUME \A q \in Procs : work'[q].job = work[q].job
                          /\ (work'[q].stage = "idle" <=> work[q].stage = "idle")
  PROVE  Hands' = Hands
  BY DEF Hands

\* The first job waits.
LEMMA InitQueue == Init => Leases!Init
<1> SUFFICES ASSUME Init PROVE Leases!Init
  OBVIOUS
<1>1. DOMAIN jobs = {Root} /\ jobs[Root].status = "pending" /\ jobs[Root].attempts = 0
  BY DEF Init, NewJob
<1>2. JobQueue = [j \in DOMAIN JobQueue |-> Leases!Waiting(0)]
  <2>1. JobQueue[Root] = Leases!Waiting(0)
    BY <1>1, QueueRows, RowShape
  <2> QED BY <1>1, <2>1, QueueRows
<1>3. Hands = [p \in Procs |-> {}]
  BY DEF Init, Hands, Idle
<1> QED BY <1>2, <1>3 DEF Leases!Init, Init

\* A claim takes a job that is free and buries what is spent.
LEMMA ClaimTakes ==
  ASSUME IInv, NEW p \in Procs, NEW j \in DOMAIN jobs, Claim(p, j)
  PROVE  Leases!Take(p, j)
<1> DEFINE n == jobs[j].attempts + 1
<1>1. /\ work[p].stage = "idle" /\ Runnable(j)
      /\ jobs' = [Swept EXCEPT ![j].status = "leased", ![j].owner = p, ![j].attempts = @ + 1]
      /\ lapsed' = {i \in lapsed : ~Exhausted(i)} \ {j}
      /\ work' = [work EXCEPT ![p] = [Idle EXCEPT !.stage = "claimed", !.job = j]]
  BY DEF Claim
<1>2. jobs[j] \in Jobs /\ jobs[j].attempts \in 0 .. MaxAttempts /\ ~Exhausted(j)
  BY <1>1, RowFacts, DriveSyncAssumption DEF IInv, Runnable, Exhausted
<1>3. Leases!Free(j)
  BY <1>1, QueueRows, RowShape DEF Leases!Free, Runnable
<1>4. Hands[p] = {} /\ Hands' = [Hands EXCEPT ![p] = {j}]
  <2>1. work'[p].stage = "claimed" /\ work'[p].job = j
        /\ \A q \in Procs \ {p} : work'[q] = work[q]
    BY <1>1 DEF IInv, TypeOK, Idle
  <2> QED BY <1>1, <2>1 DEF Hands
<1>5. lapsed' = {i \in lapsed : i # j /\ ~Leases!Spent(i)}
  BY <1>1, SweptIsBuried DEF IInv, TypeOK
<1>6. jobs'[j] = [jobs[j] EXCEPT !.status = "leased", !.owner = p, !.attempts = @ + 1]
      /\ DOMAIN jobs' = DOMAIN jobs
      /\ \A i \in DOMAIN jobs \ {j} : jobs'[i] = Swept[i]
  BY <1>1, <1>2, SweptFacts DEF IInv
<1>7. Row(jobs'[j]) = Leases!LeasedTo(p, n)
  <2>1. jobs'[j].status = "leased" /\ jobs'[j].owner = p /\ jobs'[j].attempts = n
    BY <1>2, <1>6 DEF Jobs
  <2> QED BY <2>1, RowShape DEF Leases!LeasedTo
<1>8. JobQueue' = [Leases!Buried EXCEPT ![j] = Leases!LeasedTo(p, JobQueue[j].tries + 1)]
  <2>1. JobQueue[j].tries + 1 = n
    BY QueueRows, RowShape
  <2>2. JobQueue'[j] = Leases!LeasedTo(p, n)
    BY <1>6, <1>7, QueueRows
  <2>3. \A i \in DOMAIN jobs \ {j} : JobQueue'[i] = Leases!Buried[i]
    BY <1>6, QueueRows, SweptIsBuried DEF IInv
  <2> HIDE DEF n
  <2> QED BY <1>6, <2>1, <2>2, <2>3, QueueRows, SweptIsBuried DEF IInv
<1> QED BY <1>3, <1>4, <1>5, <1>8 DEF Leases!Take

\* A claim that finds nothing buries what is spent.
LEMMA ClaimNothingBuries ==
  ASSUME IInv, NEW p \in Procs, ClaimNothing(p)
  PROVE  Leases!Bury
<1>1. jobs' = Swept /\ lapsed' = {i \in lapsed : ~Exhausted(i)} /\ work' = work
  BY DEF ClaimNothing
<1>2. JobQueue' = Leases!Buried
  BY <1>1, QueueRows, SweptIsBuried DEF IInv
<1>3. lapsed' = {i \in lapsed : ~Leases!Spent(i)}
  BY <1>1, SweptIsBuried DEF IInv, TypeOK
<1> QED BY <1>1, <1>2, <1>3 DEF Leases!Bury, Hands

\* A lease expires.
LEMMA LeaseExpiresLate ==
  ASSUME NEW j \in DOMAIN jobs, LeaseExpires(j)
  PROVE  Leases!Expire(j)
<1>1. JobQueue' = JobQueue /\ Hands' = Hands /\ lapsed' = lapsed \cup {j}
  BY DEF LeaseExpires, JobQueue, Hands
<1>2. JobQueue[j].state = "leased"
  BY QueueRows, RowShape DEF LeaseExpires
<1> QED BY <1>1, <1>2 DEF Leases!Expire

\* A worker that owns the lease of its job is its holder.
LEMMA OwnerHolds ==
  ASSUME TypeOK, NEW p \in Procs, Owns(p), work[p].stage # "idle"
  PROVE  Leases!Holds(p, work[p].job)
<1>1. /\ work[p].job \in DOMAIN jobs
      /\ jobs[work[p].job].status = "leased" /\ jobs[work[p].job].owner = p
  BY DEF Owns, TypeOK
<1>2. JobQueue[work[p].job].holder = {p}
  BY <1>1, QueueRows, RowShape
<1> QED BY <1>2 DEF Leases!Holds, Hands

\* A step that writes no job of a worker at rest or at work drops it.
LEMMA RestDrops ==
  ASSUME TypeOK, NEW p \in Procs, work[p].stage # "idle", work' = [work EXCEPT ![p] = Idle],
         UNCHANGED <<jobs, lapsed>>
  PROVE  Leases!Drop(p)
<1>1. JobQueue' = JobQueue
  BY DEF JobQueue
<1> QED BY <1>1, HandsRest DEF Leases!Drop

\* A failure gives the job back, or finds that the lease is lost.
LEMMA FailGivesBack ==
  ASSUME IInv, NEW p \in Procs, NEW retryable \in BOOLEAN, NEW reauthorization \in BOOLEAN,
         Fail(p, retryable, reauthorization)
  PROVE  Leases!Drop(p) \/ \E j \in DOMAIN jobs : Leases!GiveBack(p, j)
<1>1. work[p].stage # "idle" /\ work' = [work EXCEPT ![p] = Idle]
  BY DEF Fail
<1>2. CASE ~Owns(p)
  BY <1>1, <1>2, RestDrops DEF Fail, IInv
<1>3. CASE Owns(p)
  <2>1. PICK j \in DOMAIN jobs : j = work[p].job
    BY DEF IInv, TypeOK
  <2> DEFINE status == FailedStatus(j, retryable)
  <2>2. jobs' = End(jobs, j, status) /\ lapsed' = lapsed \ {j}
    BY <1>3, <2>1 DEF Fail
  <2>3. /\ status \in {"completed", "failed", "retry_wait", "dead_letter"}
        /\ status = "retry_wait" => jobs[j].attempts < MaxAttempts
    BY DEF FailedStatus
  <2> HIDE DEF status
  <2>4. jobs[j] \in Jobs
    BY RowFacts DEF IInv
  <2>5. /\ DOMAIN jobs' = DOMAIN jobs
        /\ \A i \in DOMAIN jobs \ {j} : jobs'[i] = jobs[i]
        /\ Row(jobs'[j]) = IF status = "retry_wait" THEN Leases!Waiting(jobs[j].attempts)
                                                   ELSE Leases!Ended(jobs[j].attempts)
    BY <2>2, <2>3, <2>4, EndedRow
  <2>6. JobQueue[j].tries = jobs[j].attempts
    BY QueueRows, RowShape
  <2>7. JobQueue' = [JobQueue EXCEPT ![j] = Row(jobs'[j])]
    BY <2>5, QueueRows
  <2>8. Leases!Holds(p, j) /\ Hands' = [Hands EXCEPT ![p] = {}]
    BY <1>1, <1>3, <2>1, OwnerHolds, HandsRest DEF IInv
  <2>9. Leases!GiveBack(p, j)
    BY <2>2, <2>3, <2>5, <2>6, <2>7, <2>8 DEF Leases!GiveBack
  <2> QED BY <2>9
<1> QED BY <1>2, <1>3

\* A crash drops the job.
LEMMA CrashDrops ==
  ASSUME IInv, NEW p \in Procs, Crash(p)
  PROVE  Leases!Drop(p)
  BY RestDrops DEF Crash, IInv

\* An authorization renews the initial job, whatever it was.
LEMMA ReauthorizeRenews ==
  ASSUME IInv, Reauthorize
  PROVE  Leases!Renew(Root)
<1>1. PICK row : /\ row.status = "pending" /\ row.attempts = 0
                 /\ jobs' = [jobs EXCEPT ![Root] = row]
                 /\ lapsed' = lapsed \ {Root} /\ work' = work
  BY DEF Reauthorize, NewJob
<1>2. Root \in DOMAIN jobs
  BY DEF IInv, JobsHaveRuns
<1>3. JobQueue' = [JobQueue EXCEPT ![Root] = Leases!Waiting(0)]
  <2>1. Row(row) = Leases!Waiting(0)
    BY <1>1, RowShape
  <2>2. DOMAIN jobs' = DOMAIN jobs /\ jobs'[Root] = row
        /\ \A i \in DOMAIN jobs \ {Root} : jobs'[i] = jobs[i]
    BY <1>1, <1>2
  <2> QED BY <1>2, <2>1, <2>2, QueueRows
<1> QED BY <1>1, <1>3 DEF Leases!Renew, Hands

\* A job that ends, with the rows its worker adds.
LEMMA HolderFinishes ==
  ASSUME IInv, NEW p \in Procs, HoldsLease(p), work[p].stage # "idle",
         NEW j \in DOMAIN jobs, j = work[p].job,
         DOMAIN jobs \subseteq DOMAIN jobs',
         \A i \in DOMAIN jobs \ {j} : jobs'[i] = jobs[i],
         Row(jobs'[j]) = Leases!Ended(jobs[j].attempts),
         \A i \in DOMAIN jobs' \ DOMAIN jobs : Row(jobs'[i]) = Leases!Waiting(0),
         lapsed' = lapsed, work' = [work EXCEPT ![p] = Idle]
  PROVE  Leases!Finish(p, j)
<1>1. Leases!Holds(p, j) /\ Hands' = [Hands EXCEPT ![p] = {}] /\ j \notin lapsed
  BY OwnerHolds, HandsRest DEF IInv, HoldsLease
<1>2. Leases!Become([JobQueue EXCEPT ![j] = Leases!Ended(JobQueue[j].tries)])
  <2>1. JobQueue[j].tries = jobs[j].attempts
    BY QueueRows, RowShape
  <2> DEFINE rows == [JobQueue EXCEPT ![j] = Leases!Ended(JobQueue[j].tries)]
  <2>2. \A i \in DOMAIN jobs : rows[i] = JobQueue'[i]
    BY <2>1, QueueRows
  <2> HIDE DEF rows
  <2>3. \A i \in DOMAIN jobs' \ DOMAIN jobs : JobQueue'[i] = Leases!Waiting(0)
    BY QueueRows
  <2> QED BY <2>2, <2>3, QueueRows DEF Leases!Become, rows
<1> QED BY <1>1, <1>2 DEF Leases!Finish

\* The end of a page finishes its job and puts the jobs it asks for.
LEMMA FinishPageFinishes ==
  ASSUME IInv, NEW p \in Procs, FinishPage(p)
  PROVE  \E j \in DOMAIN jobs : Leases!Finish(p, j)
<1>1. /\ InHand(p) /\ HoldsLease(p) /\ work[p].stage # "idle"
      /\ jobs' = FinishedRows(p) /\ lapsed' = lapsed
      /\ work' = [work EXCEPT ![p] = Idle]
  BY DEF FinishPage, InHand
<1>2. PICK j \in DOMAIN jobs : j = work[p].job
  BY DEF IInv, TypeOK
<1>3. /\ DOMAIN jobs \subseteq DOMAIN jobs'
      /\ jobs'[j].status = "completed" /\ jobs'[j].attempts = jobs[j].attempts
      /\ \A i \in DOMAIN jobs \ {j} : jobs'[i] = jobs[i]
  BY <1>1, <1>2, FinishedFacts, FinishedAdds
<1>4. Row(jobs'[j]) = Leases!Ended(jobs[j].attempts)
  BY <1>3, RowShape
<1>5. ASSUME NEW i \in DOMAIN jobs' \ DOMAIN jobs
      PROVE  Row(jobs'[i]) = Leases!Waiting(0)
  <2>1. \E run, folder, token : jobs'[i] = NewJob(run, folder, token)
    BY <1>1, FinishedAdds
  <2>2. jobs'[i].status = "pending" /\ jobs'[i].attempts = 0
    BY <2>1 DEF NewJob
  <2> QED BY <2>2, RowShape
<1>6. Leases!Finish(p, j)
  BY <1>1, <1>2, <1>3, <1>4, <1>5, HolderFinishes
<1> QED BY <1>6

\* A reconciliation is finished, or let go of when the connection is not active.
LEMMA CompleteReconciliationEnds ==
  ASSUME IInv, NEW p \in Procs, CompleteReconciliation(p)
  PROVE  Leases!Drop(p) \/ \E j \in DOMAIN jobs : Leases!Finish(p, j)
<1>1. /\ HoldsLease(p) /\ work[p].stage # "idle" /\ lapsed' = lapsed
      /\ work' = [work EXCEPT ![p] = Idle]
      /\ jobs' = jobs \/ jobs' = End(jobs, work[p].job, "completed")
  BY DEF CompleteReconciliation
<1>2. CASE jobs' = jobs
  BY <1>1, <1>2, RestDrops DEF IInv
<1>3. CASE jobs' = End(jobs, work[p].job, "completed")
  <2>1. PICK j \in DOMAIN jobs : j = work[p].job
    BY DEF IInv, TypeOK
  <2>2. jobs[j] \in Jobs
    BY RowFacts DEF IInv
  <2>3. /\ DOMAIN jobs' = DOMAIN jobs
        /\ \A i \in DOMAIN jobs \ {j} : jobs'[i] = jobs[i]
        /\ Row(jobs'[j]) = Leases!Ended(jobs[j].attempts)
    BY <1>3, <2>1, <2>2, EndedRow
  <2>4. Leases!Finish(p, j)
    BY <1>1, <2>1, <2>3, HolderFinishes
  <2> QED BY <2>4
<1> QED BY <1>1, <1>2, <1>3

\* Reading and writing a page, and the reconciliation itself, are invisible to the
\* queue.
LEMMA QuietWork ==
  ASSUME IInv, NEW p \in Procs,
         \/ Load(p) \/ ListPage(p) \/ MarkSeen(p) \/ Reconcile(p)
         \/ \E f \in Files : Enqueue(p, f)
  PROVE  UNCHANGED Leases!vars
<1>1. UNCHANGED <<jobs, lapsed>>
  BY DEF Load, ListPage, Enqueue, MarkSeen, Reconcile
<1>2. ASSUME NEW q \in Procs
      PROVE  /\ work'[q].job = work[q].job
             /\ work'[q].stage = "idle" <=> work[q].stage = "idle"
  <2> USE LocalsOf DEF IInv, TypeOK, Locals
  <2>1. CASE Load(p) \/ Reconcile(p)
    BY <2>1 DEF Load, Reconcile
  <2>2. CASE ListPage(p)
    <3>1. PICK run, todo, seen, children, next :
            work' = [work EXCEPT ![p].stage = "writing", ![p].run = run, ![p].todo = todo,
                                 ![p].seen = seen, ![p].children = children, ![p].next = next]
      BY <2>2 DEF ListPage
    <3>2. work[p].stage # "idle"
      BY <2>2 DEF ListPage
    <3> QED BY <3>1, <3>2
  <2>3. CASE \E f \in Files : Enqueue(p, f)
    BY <2>3 DEF Enqueue
  <2>4. CASE MarkSeen(p)
    BY <2>4 DEF MarkSeen
  <2> QED BY <2>1, <2>2, <2>3, <2>4
<1>3. Hands' = Hands
  BY <1>2, HandsKept
<1>4. JobQueue' = JobQueue
  BY <1>1 DEF JobQueue
<1> QED BY <1>1, <1>3, <1>4 DEF Leases!vars

\* So is what happens in Drive.
LEMMA QuietDrive ==
  ASSUME TreeChanges \/ UNCHANGED vars
  PROVE  UNCHANGED Leases!vars
<1>1. UNCHANGED <<jobs, lapsed, work>>
  BY DEF TreeChanges, vars
<1> QED BY <1>1 DEF Leases!vars, JobQueue, Hands

\* Every step is a step of the abstract queue.
LEMMA NextQueue ==
  ASSUME IInv, [Next]_vars
  PROVE  Leases!Next \/ UNCHANGED Leases!vars
<1>1. CASE TreeChanges \/ UNCHANGED vars
  BY <1>1, QuietDrive
<1>2. CASE Reauthorize
  BY <1>2, ReauthorizeRenews DEF Leases!Next
<1>3. ASSUME NEW j \in DOMAIN jobs, LeaseExpires(j)
      PROVE  Leases!Next
  BY <1>3, LeaseExpiresLate, QueueRows DEF Leases!Next
<1>4. ASSUME NEW p \in Procs, NEW j \in DOMAIN jobs, Claim(p, j)
      PROVE  Leases!Next
  BY <1>4, ClaimTakes, QueueRows DEF Leases!Next
<1>5. ASSUME NEW p \in Procs, ClaimNothing(p)
      PROVE  Leases!Next
  BY <1>5, ClaimNothingBuries DEF Leases!Next
<1>6. ASSUME NEW p \in Procs,
             \/ Load(p) \/ ListPage(p) \/ MarkSeen(p) \/ Reconcile(p)
             \/ \E f \in Files : Enqueue(p, f)
      PROVE  UNCHANGED Leases!vars
  BY <1>6, QuietWork
<1>7. ASSUME NEW p \in Procs, FinishPage(p) \/ CompleteReconciliation(p)
      PROVE  Leases!Next
  BY <1>7, FinishPageFinishes, CompleteReconciliationEnds, QueueRows DEF Leases!Next
<1>8. ASSUME NEW p \in Procs,
             \E retryable, reauthorization \in BOOLEAN : Fail(p, retryable, reauthorization)
      PROVE  Leases!Next
  BY <1>8, FailGivesBack, QueueRows DEF Leases!Next
<1>9. ASSUME NEW p \in Procs, Crash(p)
      PROVE  Leases!Next
  BY <1>9, CrashDrops DEF Leases!Next
<1>10. ASSUME NEW p \in Procs, Progress(p)
       PROVE  Leases!Next \/ UNCHANGED Leases!vars
  BY <1>4, <1>6, <1>7, <1>8, <1>10 DEF Progress
<1> QED BY <1>1, <1>2, <1>3, <1>5, <1>9, <1>10 DEF Next

\* A page of the walk is decided by the worker whose lease names it, the pages it asks
\* for appear in the transaction that ends it, and only the initial job starts again.
THEOREM ImplementsLeaseQueue == Spec => QueueImplementation
<1>1. IInv /\ [Next]_vars => [Leases!Next]_(Leases!vars)
  BY NextQueue
<1> QED
  BY <1>1, InitQueue, Invariant, PTL DEF Spec, QueueImplementation, Leases!Spec

==============================================================================
