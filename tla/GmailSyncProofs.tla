-------------------------- MODULE GmailSyncProofs ----------------------------
(***************************************************************************)
(* Machine-checked proofs about GmailSync, for any mailbox and any number  *)
(* of workers, attempts and lapsed leases.                                 *)
(*                                                                         *)
(* First, about the chain: there is one chain of syncs until the user      *)
(* authorizes again, and the cursor only moves forward on it.              *)
(*                                                                         *)
(* Then, about coverage: mail is neither skipped nor lost. What a scan or  *)
(* a poll has behind it was enqueued once, whoever crashed, lapsed or was  *)
(* repeated on the way to the cursor; and as long as leases hold and       *)
(* nobody authorizes again, it is still in the index.                      *)
(*                                                                         *)
(* Last, that the table of sync jobs implements LeaseQueue.                *)
(***************************************************************************)
EXTENDS GmailSyncProperties, SequenceTheorems, FiniteSetTheorems, WellFoundedInduction, TLAPS

\* Jobs a sync of which is due, and the jobs at which the chain has ended.
Live == Queued \cup Ended

\* The initial job, which a second authorization resets, is a scan from the start.
RootIsScan ==
  /\ Root \in DOMAIN jobs
  /\ jobs[Root].mode = "full"
  /\ jobs[Root].progress = NoProgress

\* No job was scheduled but by its parent.
ParentsExist ==
  \A j \in JobIds, s \in Steps : Append(j, s) \in DOMAIN jobs => j \in DOMAIN jobs

\* Until the user authorizes again the live job is one, and has scheduled nothing.
OneLeaf ==
  grants = 0 =>
    \E j \in DOMAIN jobs :
      /\ Live = {j}
      /\ \A s \in Steps : Append(j, s) \notin DOMAIN jobs

Writing == {"writing", "marked", "reconciled"}

\* A history id that was noted is one Gmail has given, and a page is listed only
\* with one.
IdsAreKnown ==
  /\ cursor \in Nat => cursor <= Len(history)
  /\ \A j \in DOMAIN jobs :
       jobs[j].progress.history \in Nat => jobs[j].progress.history <= Len(history)
  /\ \A p \in Procs :
       /\ work[p].since \in Nat => work[p].since <= Len(history)
       /\ work[p].stage \in Writing => work[p].since \in Nat

\* What a holder of the live job would write to the cursor is not behind it.
CursorBehind ==
  (grants = 0 /\ cursor \in Nat) =>
    /\ \A j \in Queued :
         jobs[j].progress.history \in Nat => cursor <= jobs[j].progress.history
    /\ \A p \in Procs : Owns(p) /\ work[p].since \in Nat => cursor <= work[p].since

IInv ==
  /\ TypeOK
  /\ RootIsScan
  /\ ParentsExist
  /\ OneLeaf
  /\ IdsAreKnown
  /\ CursorBehind

-----------------------------------------------------------------------------
(* The rows of jobs.                                                        *)

LEMMA RowFacts ==
  ASSUME TypeOK
  PROVE  \A j \in DOMAIN jobs :
           /\ j \in JobIds
           /\ jobs[j] \in Jobs
           /\ jobs[j].attempts \in 0 .. MaxAttempts
           /\ j \in lapsed => jobs[j].status = "leased"
  BY DEF TypeOK, Jobs

LEMMA LocalsOf ==
  ASSUME TypeOK, NEW p \in Procs
  PROVE  work[p] \in Locals /\ work[p].job \in DOMAIN jobs
  BY DEF TypeOK

LEMMA IdleIsTyped ==
  /\ Idle \in Locals
  /\ Idle.stage = "idle" /\ Idle.job = Root /\ Idle.since = NoHistory
  /\ Idle.todo = {} /\ Idle.next = 0
<1>1. Root \in JobIds
  BY DEF Root, JobIds
<1> QED BY <1>1 DEF Idle, Locals

LEMMA NewRowIsTyped ==
  ASSUME NEW mode \in {"full", "incremental"}, NEW h \in Nat \cup {NoHistory}, NEW t \in Nat,
         NEW m \in JobIds \cup {NoMarker}
  PROVE  LET row == NewJob(mode, [history |-> h, token |-> t, marker |-> m])
         IN /\ row \in Jobs
            /\ row.mode = mode /\ row.status = "pending"
            /\ row.progress.history = h /\ row.progress.token = t
            /\ row.progress.marker = m
  BY GmailSyncAssumption DEF NewJob, Jobs

\* The name of a child tells its parent.
LEMMA ChildNames ==
  ASSUME NEW j \in JobIds, NEW s \in Steps
  PROVE  /\ Append(j, s) \in JobIds \ {Root, j}
         /\ \A i \in JobIds, r \in Steps : Append(i, r) = Append(j, s) => i = j
<1>1. /\ Append(j, s) \in Seq(Steps) /\ Len(Append(j, s)) = Len(j) + 1 /\ Len(j) \in Nat
  BY AppendProperties, LenProperties DEF JobIds
<1>2. Append(j, s) # Root /\ Append(j, s) # j
  <2>1. Len(Root) = 0
    BY DEF Root
  <2> QED BY <1>1, <2>1
<1>3. ASSUME NEW i \in JobIds, NEW r \in Steps, Append(i, r) = Append(j, s)
      PROVE  i = j
  <2>1. /\ i \in Seq(Steps) /\ j \in Seq(Steps)
        /\ Len(i) \in Nat /\ Len(Append(i, r)) = Len(i) + 1
    BY AppendProperties, LenProperties DEF JobIds
  <2>2. Len(i) = Len(j)
    BY <1>1, <1>3, <2>1
  <2>3. \A n \in 1 .. Len(j) : i[n] = j[n]
    BY <1>3, <2>1, <2>2, AppendProperties
  <2> QED BY <2>1, <2>2, <2>3, SeqEqual
<1> QED BY <1>1, <1>2, <1>3 DEF JobIds

LEMMA LiveOne ==
  ASSUME IInv, grants = 0, NEW j \in Live
  PROVE  Live = {j} /\ \A s \in Steps : Append(j, s) \notin DOMAIN jobs
  BY DEF IInv, OneLeaf

-----------------------------------------------------------------------------
(* Steps that schedule nothing.                                             *)

Waiting == {"pending", "leased", "retry_wait"}

\* No job is added, none changes what it is to do, and a job that has ended is left
\* alone.
Quiet ==
  /\ DOMAIN jobs' = DOMAIN jobs
  /\ \A j \in DOMAIN jobs :
       /\ jobs'[j].mode = jobs[j].mode
       /\ jobs'[j].progress = jobs[j].progress
       /\ \/ jobs'[j].status = jobs[j].status
          \/ /\ jobs[j].status \in Waiting
             /\ jobs'[j].status \in Waiting \cup {"dead_letter", "failed"}

LEMMA ChainKept ==
  ASSUME IInv, Quiet, UNCHANGED grants
  PROVE  RootIsScan' /\ ParentsExist' /\ OneLeaf' /\ Queued' \subseteq Queued
<1>1. RootIsScan' /\ ParentsExist'
  BY DEF IInv, RootIsScan, ParentsExist, Quiet
<1>2. Queued' \subseteq Queued
  BY DEF Quiet, Queued, Waiting
<1>3. OneLeaf'
  <2> SUFFICES ASSUME grants = 0
               PROVE  \E j \in DOMAIN jobs' :
                        Live' = {j} /\ \A s \in Steps : Append(j, s) \notin DOMAIN jobs'
    BY DEF OneLeaf
  <2>1. PICK l \in DOMAIN jobs : Live = {l} /\ \A s \in Steps : Append(l, s) \notin DOMAIN jobs
    BY DEF IInv, OneLeaf
  <2>2. Recovery(l) \notin DOMAIN jobs
    BY <2>1 DEF Recovery, Steps
  <2>3. \A j \in DOMAIN jobs :
          j \in Live <=> \/ jobs[j].status \in Waiting \cup {"dead_letter"}
                         \/ jobs[j].status = "failed" /\ Recovery(j) \notin DOMAIN jobs
    BY DEF Live, Queued, Ended, Waiting
  <2>4. \A j \in DOMAIN jobs :
          j \in Live' <=> \/ jobs'[j].status \in Waiting \cup {"dead_letter"}
                          \/ jobs'[j].status = "failed" /\ Recovery(j) \notin DOMAIN jobs
    BY DEF Live, Queued, Ended, Waiting, Quiet
  <2>5. Live \subseteq DOMAIN jobs /\ Live' \subseteq DOMAIN jobs
    BY DEF Live, Queued, Ended, Quiet
  <2>6. \A j \in DOMAIN jobs : j # l => j \notin Live'
    BY <2>1, <2>3, <2>4 DEF Quiet
  <2>7. l \in Live'
    BY <2>1, <2>2, <2>3, <2>4 DEF Quiet
  <2> QED BY <2>1, <2>5, <2>6, <2>7 DEF Quiet
<1> QED BY <1>1, <1>2, <1>3

\* A worker moves on, to what it may write, and nobody else comes to own a job.
LEMMA WorkerMoves ==
  ASSUME IInv, Quiet, UNCHANGED <<history, cursor, grants>>,
         NEW p \in Procs, NEW locals \in Locals, locals.job \in DOMAIN jobs,
         work' = [work EXCEPT ![p] = locals],
         locals.since \in Nat =>
           /\ locals.since <= Len(history)
           /\ grants = 0 /\ cursor \in Nat /\ Owns(p)' => cursor <= locals.since,
         locals.stage \in Writing => locals.since \in Nat,
         \A q \in Procs \ {p} : Owns(q)' => Owns(q)
  PROVE  /\ RootIsScan' /\ ParentsExist' /\ OneLeaf' /\ IdsAreKnown' /\ CursorBehind'
         /\ work' \in [Procs -> Locals]
         /\ \A q \in Procs : work'[q].job \in DOMAIN jobs'
         /\ work'[p] = locals
         /\ \A q \in Procs \ {p} : work'[q] = work[q]
<1>1. /\ work' \in [Procs -> Locals]
      /\ work'[p] = locals
      /\ \A q \in Procs \ {p} : work'[q] = work[q]
  BY DEF IInv, TypeOK
<1>2. \A q \in Procs : work'[q].job \in DOMAIN jobs'
  BY <1>1 DEF IInv, TypeOK, Quiet
<1>3. IdsAreKnown'
  <2>1. \A j \in DOMAIN jobs' :
          jobs'[j].progress.history \in Nat => jobs'[j].progress.history <= Len(history')
    BY DEF IInv, IdsAreKnown, Quiet
  <2>2. \A q \in Procs : /\ work'[q].since \in Nat => work'[q].since <= Len(history')
                         /\ work'[q].stage \in Writing => work'[q].since \in Nat
    BY <1>1 DEF IInv, IdsAreKnown
  <2> QED BY <2>1, <2>2 DEF IInv, IdsAreKnown
<1>4. CursorBehind'
  <2> SUFFICES ASSUME grants = 0, cursor \in Nat
               PROVE  /\ \A j \in Queued' : jobs'[j].progress.history \in Nat =>
                                              cursor <= jobs'[j].progress.history
                      /\ \A q \in Procs : Owns(q)' /\ work'[q].since \in Nat =>
                                            cursor <= work'[q].since
    BY DEF CursorBehind
  <2>1. \A j \in Queued' : j \in Queued /\ j \in DOMAIN jobs
    BY ChainKept DEF Queued
  <2>2. \A j \in Queued' : jobs'[j].progress.history \in Nat =>
                             cursor <= jobs'[j].progress.history
    BY <2>1 DEF IInv, CursorBehind, Quiet
  <2>3. \A q \in Procs : Owns(q)' /\ work'[q].since \in Nat => cursor <= work'[q].since
    <3> TAKE q \in Procs
    <3>1. CASE q = p
      BY <1>1, <3>1
    <3>2. CASE q # p
      <4>1. Owns(q)' => Owns(q)
        BY <3>2
      <4>2. work'[q] = work[q]
        BY <1>1, <3>2
      <4> QED BY <4>1, <4>2 DEF IInv, CursorBehind
    <3> QED BY <3>1, <3>2
  <2> QED BY <2>2, <2>3
<1> QED BY <1>1, <1>2, <1>3, <1>4, ChainKept

\* Steps of a worker that leave the rows of jobs alone.
LEMMA WorkerStep ==
  ASSUME IInv, UNCHANGED <<history, oldest, connection, cursor, jobs, lapsed, stalls, grants>>,
         NEW p \in Procs, NEW locals \in Locals, locals.job = work[p].job,
         work' = [work EXCEPT ![p] = locals],
         \/ locals.since = work[p].since
         \/ /\ locals.since \in Nat
            /\ locals.since <= Len(history)
            /\ grants = 0 /\ cursor \in Nat /\ Owns(p) => cursor <= locals.since
         \/ locals.since = NoHistory,
         locals.stage \in Writing => locals.since \in Nat,
         sourceState' \in [Messages -> {"absent", "active", "deleted"}],
         mark' \in [Messages -> JobIds \cup {NoMarker}]
  PROVE  IInv'
<1>1. Quiet
  BY DEF Quiet
<1>2. work'[p] = locals /\ \A q \in Procs \ {p} : work'[q] = work[q]
  BY DEF IInv, TypeOK
<1>3. \A q \in Procs : Owns(q)' => Owns(q)
  BY <1>2 DEF Owns
<1>4. locals.job \in DOMAIN jobs
  BY DEF IInv, TypeOK
<1>5. locals.since \in Nat =>
        /\ locals.since <= Len(history)
        /\ grants = 0 /\ cursor \in Nat /\ Owns(p)' => cursor <= locals.since
  <2>1. NoHistory \notin Nat
    BY GmailSyncAssumption
  <2> QED BY <1>3, <2>1 DEF IInv, IdsAreKnown, CursorBehind
<1>6. /\ RootIsScan' /\ ParentsExist' /\ OneLeaf' /\ IdsAreKnown' /\ CursorBehind'
      /\ work' \in [Procs -> Locals]
      /\ \A q \in Procs : work'[q].job \in DOMAIN jobs'
  BY <1>1, <1>3, <1>4, <1>5, WorkerMoves
<1>7. TypeOK'
  BY <1>6 DEF IInv, TypeOK
<1> QED BY <1>6, <1>7 DEF IInv

-----------------------------------------------------------------------------
(* Pages and the mailbox.                                                   *)

LEMMA TouchedIsMessages ==
  ASSUME TypeOK, NEW from \in Nat, NEW to \in Nat, to <= Len(history)
  PROVE  Touched(from, to) \subseteq Messages
<1> SUFFICES ASSUME NEW i \in from + 1 .. to PROVE history[i].message \in Messages
  BY DEF Touched
<1>1. Len(history) \in Nat /\ history \in Seq(Events)
  BY LenProperties DEF TypeOK
<1>2. i \in 1 .. Len(history)
  BY <1>1
<1>3. history[i] \in Events
  BY <1>1, <1>2, ElementOfSeq
<1> QED BY <1>3 DEF Events

LEMMA MailIsMessages == ASSUME TypeOK PROVE Mail \subseteq Messages
<1>1. Len(history) \in Nat
  BY LenProperties DEF TypeOK
<1> QED BY <1>1, TouchedIsMessages DEF Mail

\* A finite set of numbers that is not empty has a least member, and a greatest.
LEMMA Extrema ==
  ASSUME NEW S \in SUBSET Nat, IsFiniteSet(S), S # {}
  PROVE  (\E m \in S : \A k \in S : k <= m) /\ (\E m \in S : \A k \in S : m <= k)
<1> DEFINE Good(T) == (\E m \in T : \A k \in T : k <= m) /\ (\E m \in T : \A k \in T : m <= k)
           bad == {T \in FiniteSubsetsOf(S) : T # {} /\ ~Good(T)}
<1>1. SUFFICES ASSUME bad # {} PROVE FALSE
  <2>1. S \in FiniteSubsetsOf(S)
    BY DEF FiniteSubsetsOf
  <2> QED BY <2>1
<1>2. PICK T \in bad : \A U \in bad : ~ (<<U, T>> \in StrictSubsetOrdering(S))
  <2>1. bad \subseteq FiniteSubsetsOf(S)
    OBVIOUS
  <2> HIDE DEF bad
  <2> QED BY <1>1, <2>1, WFMin, FS_StrictSubsetOrderingWellFounded
<1>3. T \subseteq Nat /\ T \subseteq S /\ IsFiniteSet(T) /\ T # {} /\ ~Good(T)
  BY DEF FiniteSubsetsOf
<1>4. PICK x \in T : TRUE
  BY <1>3
<1> DEFINE U == T \ {x}
<1>5. U \subseteq S /\ U # T /\ U \subseteq T /\ U \subseteq Nat /\ IsFiniteSet(U)
  BY <1>3, <1>4, FS_Subset
<1>6. U \notin bad
  <2>1. <<U, T>> \in StrictSubsetOrdering(S)
    BY <1>3, <1>5 DEF StrictSubsetOrdering
  <2> HIDE DEF bad, U
  <2> QED BY <1>2, <2>1
<1>7. CASE U = {}
  <2>1. \A k \in T : k = x
    BY <1>7
  <2> QED BY <1>3, <1>4, <2>1
<1>8. CASE U # {}
  <2>1. Good(U)
    BY <1>5, <1>6, <1>8 DEF FiniteSubsetsOf
  <2>2. PICK m \in U : \A k \in U : k <= m
    BY <2>1
  <2>3. PICK n \in U : \A k \in U : n <= k
    BY <2>1
  <2>4. \E z \in T : \A k \in T : k <= z
    <3>1. CASE x <= m
      BY <1>3, <1>4, <2>2, <3>1
    <3>2. CASE ~(x <= m)
      <4>1. \A k \in T : k <= x
        BY <1>3, <1>4, <2>2, <3>2
      <4> QED BY <1>4, <4>1
    <3> QED BY <3>1, <3>2
  <2>5. \E z \in T : \A k \in T : z <= k
    <3>1. CASE n <= x
      BY <1>3, <1>4, <2>3, <3>1
    <3>2. CASE ~(n <= x)
      <4>1. \A k \in T : x <= k
        BY <1>3, <1>4, <2>3, <3>2
      <4> QED BY <1>4, <4>1
    <3> QED BY <3>1, <3>2
  <2> QED BY <1>3, <2>4, <2>5
<1> QED BY <1>7, <1>8

\* A page is a part of the listing, with everything up to the token of the next one,
\* and if there is no next one it is all the rest.
LEMMA PageFacts ==
  ASSUME TypeOK, NEW token
  PROVE  LET rest == {m \in Mail : m > token}
             page == {m \in rest : Cardinality({k \in rest : k <= m}) <= PageSize}
             next == IF page = rest THEN 0 ELSE CHOOSE m \in page : \A k \in page : k <= m
         IN /\ page \subseteq Mail /\ next \in Nat
            /\ \A m \in rest : next = 0 \/ m <= next => m \in page
<1> DEFINE rest == {m \in Mail : m > token}
           page == {m \in rest : Cardinality({k \in rest : k <= m}) <= PageSize}
           next == IF page = rest THEN 0 ELSE CHOOSE m \in page : \A k \in page : k <= m
<1>1. rest \subseteq Mail /\ page \subseteq rest
  OBVIOUS
<1>2. rest \in SUBSET (Nat \ {0}) /\ IsFiniteSet(rest)
  BY <1>1, GmailSyncAssumption, MailIsMessages, FS_Subset
<1>3. page \in SUBSET Nat /\ IsFiniteSet(page)
  BY <1>1, <1>2, FS_Subset
<1> HIDE DEF rest
<1>4. ASSUME page # rest
      PROVE  /\ next \in page
             /\ \A k \in page : k <= next
  <2>1. rest # {}
    BY <1>1, <1>4
  <2>2. PICK m \in rest : \A k \in rest : m <= k
    BY <1>2, <2>1, Extrema
  <2>3. {k \in rest : k <= m} = {m}
    <3>1. \A k \in rest : k \in Nat /\ m \in Nat /\ m <= k
      BY <1>2, <2>2
    <3>2. \A k \in rest : k <= m => k = m
      BY <3>1
    <3>3. m <= m
      BY <3>1
    <3> QED BY <3>2, <3>3
  <2>4. Cardinality({k \in rest : k <= m}) = 1
    BY <2>3, FS_Singleton
  <2>5. m \in page
    BY <2>4, GmailSyncAssumption
  <2> HIDE DEF page
  <2>6. \E i \in page : \A k \in page : k <= i
    BY <1>3, <2>5, Extrema
  <2> QED BY <1>4, <2>6
<1>5. ASSUME NEW m \in rest, page # rest, m <= next
      PROVE  m \in page
  <2>1. next \in page /\ next \in rest
    BY <1>1, <1>4, <1>5
  <2> DEFINE upTo(i) == {k \in rest : k <= i}
  <2>2. upTo(m) \subseteq upTo(next)
    <3>1. next \in Nat /\ m \in Nat /\ \A k \in rest : k \in Nat
      BY <1>2, <2>1
    <3> HIDE DEF next
    <3>2. \A k \in rest : k <= m => k <= next
      BY <1>5, <3>1
    <3> QED BY <3>2
  <2>3. IsFiniteSet(upTo(next)) /\ Cardinality(upTo(next)) <= PageSize
    BY <1>2, <2>1, FS_Subset
  <2>4. /\ IsFiniteSet(upTo(m)) /\ Cardinality(upTo(m)) <= Cardinality(upTo(next))
        /\ Cardinality(upTo(m)) \in Nat /\ Cardinality(upTo(next)) \in Nat
    <3> HIDE DEF upTo
    <3> QED BY <2>2, <2>3, FS_Subset, FS_CardinalityType
  <2>5. Cardinality(upTo(m)) <= PageSize
    <3> HIDE DEF upTo
    <3> QED BY <2>3, <2>4, GmailSyncAssumption
  <2> QED BY <2>5
<1>6. next \in Nat /\ (next = 0 => page = rest)
  BY <1>1, <1>2, <1>3, <1>4
<1> HIDE DEF page, next
<1>7. \A m \in rest : next = 0 \/ m <= next => m \in page
  BY <1>5, <1>6
<1>8. page \subseteq Mail
  BY <1>1
<1> QED BY <1>6, <1>7, <1>8 DEF rest, page, next

-----------------------------------------------------------------------------
(* Steps of a worker.                                                       *)

LEMMA LoadInv == ASSUME IInv, NEW p \in Procs, Load(p) PROVE IInv'
<1> DEFINE j == work[p].job
           since == IF jobs[j].mode = "incremental" /\ jobs[j].progress.history = NoHistory
                      THEN cursor ELSE jobs[j].progress.history
           locals == [work[p] EXCEPT !.stage = "loaded", !.since = since]
<1>1. /\ UNCHANGED <<history, oldest, connection, cursor, jobs, lapsed, stalls, grants>>
      /\ UNCHANGED <<sourceState, mark>>
      /\ work' = [work EXCEPT ![p].stage = "loaded", ![p].since = since]
  BY DEF Load, gmail, index, counters
<1>2. work[p] \in Locals /\ j \in DOMAIN jobs /\ jobs[j] \in Jobs
  BY LocalsOf, RowFacts DEF IInv
<1>3. since \in Nat \cup {NoHistory}
  BY <1>2 DEF IInv, TypeOK, Jobs
<1>4. since \in Nat => /\ since <= Len(history)
                       /\ grants = 0 /\ cursor \in Nat /\ Owns(p) => cursor <= since
  <2>1. CASE jobs[j].mode = "incremental" /\ jobs[j].progress.history = NoHistory
    BY <2>1 DEF IInv, IdsAreKnown
  <2>2. CASE ~(jobs[j].mode = "incremental" /\ jobs[j].progress.history = NoHistory)
    <3>1. since = jobs[j].progress.history
      BY <2>2
    <3>2. Owns(p) => j \in Queued
      BY <1>2 DEF Owns, Queued
    <3> QED BY <1>2, <3>1, <3>2 DEF IInv, IdsAreKnown, CursorBehind
  <2> QED BY <2>1, <2>2
<1> HIDE DEF since
<1>5. /\ work' = [work EXCEPT ![p] = locals]
      /\ locals \in Locals /\ locals.job = j
      /\ locals.since = since /\ locals.stage = "loaded"
  BY <1>1, <1>2, <1>3 DEF IInv, TypeOK, Locals
<1> HIDE DEF locals, j
<1>6. /\ sourceState' \in [Messages -> {"absent", "active", "deleted"}]
      /\ mark' \in [Messages -> JobIds \cup {NoMarker}]
  BY <1>1 DEF IInv, TypeOK
<1> QED BY <1>1, <1>3, <1>4, <1>5, <1>6, WorkerStep DEF j, Writing

LEMMA ReadHistoryIdInv == ASSUME IInv, NEW p \in Procs, ReadHistoryId(p) PROVE IInv'
<1> DEFINE locals == [work[p] EXCEPT !.since = Len(history)]
<1>1. /\ UNCHANGED <<history, oldest, connection, cursor, jobs, lapsed, stalls, grants>>
      /\ UNCHANGED <<sourceState, mark>>
      /\ work' = [work EXCEPT ![p] = locals]
      /\ work[p].stage = "loaded"
  BY DEF ReadHistoryId, gmail, index, counters
<1>2. work[p] \in Locals /\ Len(history) \in Nat
  BY LocalsOf DEF IInv, TypeOK
<1>3. /\ locals \in Locals /\ locals.job = work[p].job
      /\ locals.since = Len(history) /\ locals.stage = "loaded"
  BY <1>1, <1>2 DEF Locals
<1> HIDE DEF locals
<1>4. /\ sourceState' \in [Messages -> {"absent", "active", "deleted"}]
      /\ mark' \in [Messages -> JobIds \cup {NoMarker}]
  BY <1>1 DEF IInv, TypeOK
<1>5. cursor \in Nat => cursor <= Len(history)
  BY DEF IInv, IdsAreKnown
<1>6. Len(history) <= Len(history)
  BY <1>2
<1> QED BY <1>1, <1>2, <1>3, <1>4, <1>5, <1>6, WorkerStep DEF Writing

LEMMA ListPageInv == ASSUME IInv, NEW p \in Procs, ListPage(p) PROVE IInv'
<1> DEFINE rest == {m \in Mail : m > Token(p)}
           page == {m \in rest : Cardinality({k \in rest : k <= m}) <= PageSize}
           next == IF page = rest THEN 0 ELSE CHOOSE m \in page : \A k \in page : k <= m
           locals == [work[p] EXCEPT !.stage = "writing", !.todo = page, !.seen = page, !.next = next]
<1>1. /\ UNCHANGED <<history, oldest, connection, cursor, jobs, lapsed, stalls, grants>>
      /\ UNCHANGED <<sourceState, mark>>
      /\ work' = [work EXCEPT ![p].stage = "writing", ![p].todo = page, ![p].seen = page,
                              ![p].next = next]
      /\ work[p].since # NoHistory
  BY DEF ListPage, gmail, index, counters
<1>2. page \subseteq Mail /\ next \in Nat
  BY PageFacts DEF IInv
<1>3. page \subseteq Messages
  BY <1>2, MailIsMessages DEF IInv
<1> HIDE DEF page, next
<1>4. work[p] \in Locals
  BY LocalsOf DEF IInv
<1>5. /\ work' = [work EXCEPT ![p] = locals]
      /\ locals \in Locals /\ locals.job = work[p].job
      /\ locals.since = work[p].since /\ locals.since \in Nat
  BY <1>1, <1>2, <1>3, <1>4 DEF IInv, TypeOK, Locals
<1> HIDE DEF locals
<1>6. /\ sourceState' \in [Messages -> {"absent", "active", "deleted"}]
      /\ mark' \in [Messages -> JobIds \cup {NoMarker}]
  BY <1>1 DEF IInv, TypeOK
<1> QED BY <1>1, <1>5, <1>6, WorkerStep

LEMMA ListHistoryPageInv == ASSUME IInv, NEW p \in Procs, ListHistoryPage(p) PROVE IInv'
<1> DEFINE from == IF Token(p) = 0 THEN work[p].since ELSE Token(p)
           to == IF from + PageSize < Len(history) THEN from + PageSize ELSE Len(history)
           todo == Touched(from, to) \cap Mail
           gone == Touched(from, to) \ Mail
           next == IF to < Len(history) THEN to ELSE 0
           since == IF to < Len(history) THEN work[p].since ELSE Len(history)
           locals == [work[p] EXCEPT !.stage = "writing", !.todo = todo, !.gone = gone,
                                     !.next = next, !.since = since]
<1>1. /\ UNCHANGED <<history, oldest, connection, cursor, jobs, lapsed, stalls, grants>>
      /\ UNCHANGED <<sourceState, mark>>
      /\ work' = [work EXCEPT ![p].stage = "writing", ![p].todo = todo, ![p].gone = gone,
                              ![p].next = next, ![p].since = since]
      /\ work[p].since # NoHistory
  BY DEF ListHistoryPage, gmail, index, counters
<1>2. /\ work[p] \in Locals /\ work[p].since \in Nat /\ Len(history) \in Nat
      /\ Token(p) \in Nat
  <2>1. work[p] \in Locals /\ work[p].job \in DOMAIN jobs /\ jobs[work[p].job] \in Jobs
    BY LocalsOf, RowFacts DEF IInv
  <2>2. work[p].since \in Nat
    BY <1>1, <2>1 DEF Locals
  <2>3. Token(p) \in Nat
    BY <2>1 DEF Token, Jobs
  <2>4. Len(history) \in Nat
    BY LenProperties DEF IInv, TypeOK
  <2> QED BY <2>1, <2>2, <2>3, <2>4
<1>3. from \in Nat /\ to \in Nat /\ to <= Len(history)
  BY <1>2, GmailSyncAssumption
<1>4. Touched(from, to) \subseteq Messages
  BY <1>3, TouchedIsMessages DEF IInv
<1>5. todo \subseteq Messages /\ gone \subseteq Messages
  BY <1>4
<1>6. next \in Nat /\ since \in Nat /\ (since = work[p].since \/ since = Len(history))
  BY <1>2, <1>3
<1> HIDE DEF from, to, todo, gone, next, since
<1>7. /\ work' = [work EXCEPT ![p] = locals]
      /\ locals \in Locals /\ locals.job = work[p].job
      /\ locals.since = since
  BY <1>1, <1>2, <1>5, <1>6 DEF IInv, TypeOK, Locals
<1> HIDE DEF locals
<1>8. /\ sourceState' \in [Messages -> {"absent", "active", "deleted"}]
      /\ mark' \in [Messages -> JobIds \cup {NoMarker}]
  BY <1>1 DEF IInv, TypeOK
<1>9. cursor \in Nat => cursor <= Len(history)
  BY DEF IInv, IdsAreKnown
<1>10. \/ locals.since = work[p].since
       \/ /\ locals.since \in Nat
          /\ locals.since <= Len(history)
          /\ cursor \in Nat => cursor <= locals.since
  BY <1>2, <1>6, <1>7, <1>9
<1> QED BY <1>1, <1>6, <1>7, <1>8, <1>10, WorkerStep

LEMMA EnqueueInv == ASSUME IInv, NEW p \in Procs, NEW m \in Messages, Enqueue(p, m) PROVE IInv'
<1> DEFINE locals == [work[p] EXCEPT !.todo = @ \ {m}]
<1>1. /\ UNCHANGED <<history, oldest, connection, cursor, jobs, lapsed, stalls, grants>>
      /\ sourceState' = [sourceState EXCEPT ![m] = "active"] /\ UNCHANGED mark
      /\ work' = [work EXCEPT ![p] = locals]
  BY DEF Enqueue, gmail, counters
<1>2. /\ locals \in Locals /\ locals.job = work[p].job
      /\ locals.since = work[p].since /\ locals.stage = work[p].stage
  BY LocalsOf DEF IInv, Locals
<1> HIDE DEF locals
<1>3. /\ sourceState' \in [Messages -> {"absent", "active", "deleted"}]
      /\ mark' \in [Messages -> JobIds \cup {NoMarker}]
  BY <1>1 DEF IInv, TypeOK
<1> QED BY <1>1, <1>2, <1>3, WorkerStep DEF IInv, IdsAreKnown

LEMMA MarkSeenInv == ASSUME IInv, NEW p \in Procs, MarkSeen(p) PROVE IInv'
<1> DEFINE locals == [work[p] EXCEPT !.stage = "marked"]
<1>1. /\ UNCHANGED <<history, oldest, connection, cursor, jobs, lapsed, stalls, grants>>
      /\ UNCHANGED sourceState
      /\ mark' = [m \in Messages |-> IF m \in Marked(p) THEN Marker(p) ELSE mark[m]]
      /\ work' = [work EXCEPT ![p] = locals]
      /\ work[p].stage = "writing"
  BY DEF MarkSeen, gmail, counters
<1>2. work[p] \in Locals /\ work[p].job \in DOMAIN jobs /\ jobs[work[p].job] \in Jobs
  BY LocalsOf, RowFacts DEF IInv
<1>3. Marker(p) \in JobIds \cup {NoMarker}
  BY <1>2 DEF Marker, Jobs, Locals
<1>4. /\ locals \in Locals /\ locals.job = work[p].job
      /\ locals.since = work[p].since
  BY <1>2 DEF Locals
<1> HIDE DEF locals
<1>5. /\ sourceState' \in [Messages -> {"absent", "active", "deleted"}]
      /\ mark' \in [Messages -> JobIds \cup {NoMarker}]
  BY <1>1, <1>3 DEF IInv, TypeOK
<1>6. work[p].since \in Nat
  BY <1>1 DEF IInv, IdsAreKnown, Writing
<1> QED BY <1>1, <1>4, <1>5, <1>6, WorkerStep

LEMMA PurgeTypes ==
  ASSUME TypeOK, NEW T, Purge(T)
  PROVE  /\ sourceState' \in [Messages -> {"absent", "active", "deleted"}]
         /\ mark' \in [Messages -> JobIds \cup {NoMarker}]
  BY DEF Purge, TypeOK

LEMMA TombstoneInv == ASSUME IInv, NEW p \in Procs, NEW m \in Messages, Tombstone(p, m) PROVE IInv'
<1> DEFINE locals == [work[p] EXCEPT !.gone = @ \ {m}]
<1>1. /\ UNCHANGED <<history, oldest, connection, cursor, jobs, lapsed, stalls, grants>>
      /\ Purge({m} \cap {k \in Messages : sourceState[k] = "active"})
      /\ work' = [work EXCEPT ![p] = locals]
  BY DEF Tombstone, gmail, counters
<1>2. /\ locals \in Locals /\ locals.job = work[p].job
      /\ locals.since = work[p].since /\ locals.stage = work[p].stage
  BY LocalsOf DEF IInv, Locals
<1> HIDE DEF locals
<1>3. /\ sourceState' \in [Messages -> {"absent", "active", "deleted"}]
      /\ mark' \in [Messages -> JobIds \cup {NoMarker}]
  BY <1>1, PurgeTypes DEF IInv
<1> QED BY <1>1, <1>2, <1>3, WorkerStep DEF IInv, IdsAreKnown

LEMMA ReconcileInv == ASSUME IInv, NEW p \in Procs, Reconcile(p) PROVE IInv'
<1> DEFINE locals == [work[p] EXCEPT !.stage = "reconciled"]
<1>1. /\ UNCHANGED <<history, oldest, connection, cursor, jobs, lapsed, stalls, grants>>
      /\ Purge({m \in Messages : sourceState[m] = "active" /\ mark[m] # Marker(p)})
      /\ work' = [work EXCEPT ![p] = locals]
      /\ work[p].stage = "marked"
  BY DEF Reconcile, gmail, counters
<1>2. /\ locals \in Locals /\ locals.job = work[p].job
      /\ locals.since = work[p].since
  BY LocalsOf DEF IInv, Locals
<1> HIDE DEF locals
<1>3. /\ sourceState' \in [Messages -> {"absent", "active", "deleted"}]
      /\ mark' \in [Messages -> JobIds \cup {NoMarker}]
  BY <1>1, PurgeTypes DEF IInv
<1>4. work[p].since \in Nat
  BY <1>1 DEF IInv, IdsAreKnown, Writing
<1> QED BY <1>1, <1>2, <1>3, <1>4, WorkerStep

-----------------------------------------------------------------------------
(* The lease.                                                               *)

\* The sweep of a claim.
LEMMA SweptFacts ==
  ASSUME TypeOK
  PROVE  /\ DOMAIN Swept = DOMAIN jobs
         /\ \A j \in DOMAIN jobs :
              /\ Swept[j] \in Jobs
              /\ Swept[j].mode = jobs[j].mode /\ Swept[j].progress = jobs[j].progress
              /\ Exhausted(j) => /\ jobs[j].status = "leased"
                                 /\ Swept[j].status = "dead_letter"
              /\ ~Exhausted(j) => Swept[j] = jobs[j]
<1> SUFFICES ASSUME NEW j \in DOMAIN jobs
             PROVE  /\ Swept[j] \in Jobs
                    /\ Swept[j].mode = jobs[j].mode /\ Swept[j].progress = jobs[j].progress
                    /\ Exhausted(j) => /\ jobs[j].status = "leased"
                                       /\ Swept[j].status = "dead_letter"
                    /\ ~Exhausted(j) => Swept[j] = jobs[j]
  BY DEF Swept
<1>1. jobs[j] \in Jobs /\ (j \in lapsed => jobs[j].status = "leased")
  BY RowFacts
<1>2. CASE Exhausted(j)
  <2>1. Swept[j] = [jobs[j] EXCEPT !.status = "dead_letter", !.owner = NoWorker]
    BY <1>2 DEF Swept
  <2>2. jobs[j].status = "leased"
    BY <1>1, <1>2 DEF Exhausted
  <2>3. /\ Swept[j] \in Jobs /\ Swept[j].status = "dead_letter"
        /\ Swept[j].mode = jobs[j].mode /\ Swept[j].progress = jobs[j].progress
    BY <1>1, <2>1 DEF Jobs
  <2> QED BY <1>2, <2>2, <2>3
<1>3. CASE ~Exhausted(j)
  BY <1>1, <1>3 DEF Swept
<1> QED BY <1>2, <1>3

LEMMA ClaimInv ==
  ASSUME IInv, NEW p \in Procs, NEW j \in DOMAIN jobs, Claim(p, j)
  PROVE  IInv'
<1> DEFINE locals == [Idle EXCEPT !.stage = "claimed", !.job = j]
<1>1. /\ UNCHANGED <<history, oldest, connection, sourceState, mark, cursor, stalls, grants>>
      /\ jobs' = [Swept EXCEPT ![j].status = "leased", ![j].owner = p, ![j].attempts = @ + 1]
      /\ lapsed' = {i \in lapsed : ~Exhausted(i)} \ {j}
      /\ work' = [work EXCEPT ![p] = locals]
      /\ Runnable(j)
  BY DEF Claim, gmail, index, counters
<1>2. /\ jobs[j] \in Jobs /\ jobs[j].attempts \in 0 .. MaxAttempts /\ j \in JobIds
      /\ jobs[j].attempts < MaxAttempts
      /\ jobs[j].status \in Waiting
      /\ ~Exhausted(j)
  BY <1>1, RowFacts, GmailSyncAssumption DEF IInv, Runnable, Exhausted, Waiting
<1>3. jobs[j].attempts + 1 \in 0 .. MaxAttempts
  BY <1>2, GmailSyncAssumption
<1>4. /\ DOMAIN jobs' = DOMAIN jobs
      /\ \A i \in DOMAIN jobs \ {j} : jobs'[i] = Swept[i]
      /\ jobs'[j] = [jobs[j] EXCEPT !.status = "leased", !.owner = p, !.attempts = @ + 1]
  BY <1>1, <1>2, SweptFacts DEF IInv
<1>5. /\ jobs'[j] \in Jobs /\ jobs'[j].status = "leased"
      /\ jobs'[j].mode = jobs[j].mode /\ jobs'[j].progress = jobs[j].progress
      /\ jobs'[j].owner = p
  BY <1>2, <1>3, <1>4 DEF Jobs
<1>6. Quiet
  <2>1. ASSUME NEW i \in DOMAIN jobs
        PROVE  /\ jobs'[i].mode = jobs[i].mode /\ jobs'[i].progress = jobs[i].progress
               /\ \/ jobs'[i].status = jobs[i].status
                  \/ /\ jobs[i].status \in Waiting
                     /\ jobs'[i].status \in Waiting \cup {"dead_letter", "failed"}
    <3>1. CASE i = j
      BY <1>2, <1>5, <3>1 DEF Waiting
    <3>2. CASE i # j
      BY <1>4, <3>2, SweptFacts DEF IInv, Waiting
    <3> QED BY <3>1, <3>2
  <2> QED BY <1>4, <2>1 DEF Quiet
<1>7. /\ locals \in Locals /\ locals.since = NoHistory /\ locals.stage = "claimed"
      /\ locals.job \in DOMAIN jobs
  BY <1>2, IdleIsTyped DEF Locals
<1> HIDE DEF locals
<1>8. \A q \in Procs \ {p} : Owns(q)' => Owns(q)
  <2> SUFFICES ASSUME NEW q \in Procs \ {p}, Owns(q)' PROVE Owns(q)
    OBVIOUS
  <2>1. work'[q] = work[q]
    BY <1>1 DEF IInv, TypeOK
  <2>2. work[q].job \in DOMAIN jobs /\ work[q].job # j
    BY <1>5, <2>1, LocalsOf DEF IInv, Owns
  <2>3. jobs'[work[q].job] = Swept[work[q].job]
    BY <1>4, <2>2
  <2> QED BY <2>1, <2>2, <2>3, SweptFacts DEF IInv, Owns
<1>9. /\ RootIsScan' /\ ParentsExist' /\ OneLeaf' /\ IdsAreKnown' /\ CursorBehind'
      /\ work' \in [Procs -> Locals]
      /\ \A q \in Procs : work'[q].job \in DOMAIN jobs'
  BY <1>1, <1>6, <1>7, <1>8, GmailSyncAssumption, WorkerMoves DEF Writing
<1>10. TypeOK'
  <2>1. \A i \in DOMAIN jobs' : jobs'[i] \in Jobs
    BY <1>4, <1>5, SweptFacts DEF IInv
  <2>2. lapsed' \subseteq {i \in DOMAIN jobs' : jobs'[i].status = "leased"}
    BY <1>1, <1>4, SweptFacts, RowFacts DEF IInv, TypeOK
  <2> QED BY <1>1, <1>4, <1>9, <2>1, <2>2 DEF IInv, TypeOK
<1> QED BY <1>9, <1>10 DEF IInv

LEMMA ClaimNothingInv == ASSUME IInv, NEW p \in Procs, ClaimNothing(p) PROVE IInv'
<1>1. /\ UNCHANGED <<history, oldest, connection, sourceState, mark, cursor, work, stalls, grants>>
      /\ jobs' = Swept
      /\ lapsed' = {i \in lapsed : ~Exhausted(i)}
      /\ work[p].stage = "idle"
  BY DEF ClaimNothing, gmail, index, counters
<1>2. Quiet
  BY <1>1, SweptFacts DEF IInv, Quiet, Waiting
<1>3. \A q \in Procs : Owns(q)' => Owns(q)
  BY <1>1, SweptFacts, LocalsOf DEF IInv, Owns
<1>4. /\ work[p] \in Locals /\ work[p].job \in DOMAIN jobs
      /\ work' = [work EXCEPT ![p] = work[p]]
  BY <1>1 DEF IInv, TypeOK
<1>5. /\ RootIsScan' /\ ParentsExist' /\ OneLeaf' /\ IdsAreKnown' /\ CursorBehind'
      /\ work' \in [Procs -> Locals]
      /\ \A q \in Procs : work'[q].job \in DOMAIN jobs'
  BY <1>1, <1>2, <1>3, <1>4, WorkerMoves DEF IInv, IdsAreKnown, CursorBehind
<1>6. TypeOK'
  <2>1. DOMAIN jobs' = DOMAIN jobs /\ \A i \in DOMAIN jobs' : jobs'[i] \in Jobs
    BY <1>1, SweptFacts DEF IInv
  <2>2. lapsed' \subseteq {i \in DOMAIN jobs' : jobs'[i].status = "leased"}
    BY <1>1, SweptFacts, RowFacts DEF IInv, TypeOK
  <2> QED BY <1>1, <1>5, <2>1, <2>2 DEF IInv, TypeOK
<1> QED BY <1>5, <1>6 DEF IInv

LEMMA LeaseExpiresInv == ASSUME IInv, NEW j \in DOMAIN jobs, LeaseExpires(j) PROVE IInv'
<1>1. /\ UNCHANGED <<history, oldest, connection, sourceState, mark, cursor, jobs, work, grants>>
      /\ lapsed' = lapsed \cup {j}
      /\ jobs[j].status = "leased"
      /\ stalls' = stalls \/ (stalls < MaxStalls /\ stalls' = stalls + 1)
  BY DEF LeaseExpires, gmail, index
<1>2. stalls' \in 0 .. MaxStalls
  BY <1>1, GmailSyncAssumption DEF IInv, TypeOK
<1>3. TypeOK'
  BY <1>1, <1>2 DEF IInv, TypeOK
<1>4. RootIsScan' /\ ParentsExist' /\ OneLeaf'
  BY <1>1, ChainKept DEF Quiet
<1>5. IdsAreKnown'
  BY <1>1 DEF IInv, IdsAreKnown
<1>6. CursorBehind'
  BY <1>1 DEF IInv, CursorBehind, Queued, Owns
<1> QED BY <1>3, <1>4, <1>5, <1>6 DEF IInv

-----------------------------------------------------------------------------
(* A job comes to nothing.                                                  *)

LEMMA CrashInv == ASSUME IInv, NEW p \in Procs, Crash(p) PROVE IInv'
<1>1. /\ UNCHANGED <<history, oldest, connection, sourceState, mark, cursor, jobs, lapsed, stalls, grants>>
      /\ work' = [work EXCEPT ![p] = Idle]
  BY DEF Crash, gmail, index, counters
<1>2. Quiet /\ Root \in DOMAIN jobs
  BY <1>1 DEF Quiet, IInv, RootIsScan
<1>3. \A q \in Procs \ {p} : Owns(q)' => Owns(q)
  BY <1>1 DEF Owns, IInv, TypeOK
<1>4. /\ RootIsScan' /\ ParentsExist' /\ OneLeaf' /\ IdsAreKnown' /\ CursorBehind'
      /\ work' \in [Procs -> Locals]
      /\ \A q \in Procs : work'[q].job \in DOMAIN jobs'
  BY <1>1, <1>2, <1>3, IdleIsTyped, GmailSyncAssumption, WorkerMoves DEF Writing
<1>5. TypeOK'
  BY <1>1, <1>4 DEF IInv, TypeOK
<1> QED BY <1>4, <1>5 DEF IInv

LEMMA EndFacts ==
  ASSUME NEW js, NEW j \in DOMAIN js, js[j] \in Jobs,
         NEW status \in {"completed", "failed", "retry_wait", "dead_letter"}
  PROVE  /\ DOMAIN End(js, j, status) = DOMAIN js
         /\ End(js, j, status)[j] \in Jobs
         /\ End(js, j, status)[j].status = status
         /\ End(js, j, status)[j].mode = js[j].mode
         /\ End(js, j, status)[j].progress = js[j].progress
         /\ \A i \in DOMAIN js \ {j} : End(js, j, status)[i] = js[i]
<1>1. /\ DOMAIN End(js, j, status) = DOMAIN js
      /\ End(js, j, status)[j] = [js[j] EXCEPT !.status = status, !.owner = NoWorker]
      /\ \A i \in DOMAIN js \ {j} : End(js, j, status)[i] = js[i]
  BY DEF End
<1>2. LET row == [js[j] EXCEPT !.status = status, !.owner = NoWorker]
      IN /\ row \in Jobs /\ row.status = status
         /\ row.mode = js[j].mode /\ row.progress = js[j].progress
  BY DEF Jobs
<1> QED BY <1>1, <1>2

LEMMA FailInv ==
  ASSUME IInv, NEW p \in Procs, NEW retryable \in BOOLEAN, NEW reauthorization \in BOOLEAN,
         Fail(p, retryable, reauthorization)
  PROVE  IInv'
<1> DEFINE j == work[p].job
           status == FailedStatus(j, retryable)
<1>1. /\ UNCHANGED <<history, oldest, sourceState, mark, cursor, stalls, grants>>
      /\ work' = [work EXCEPT ![p] = Idle]
  BY DEF Fail, gmail, index, counters
<1>2. j \in DOMAIN jobs /\ jobs[j] \in Jobs /\ Root \in DOMAIN jobs
  BY LocalsOf, RowFacts DEF IInv, RootIsScan
<1>3. status \in {"failed", "retry_wait", "dead_letter"}
  BY DEF FailedStatus
<1> HIDE DEF status
<1>4. /\ Quiet
      /\ \A i \in DOMAIN jobs' : jobs'[i] \in Jobs
      /\ lapsed' \subseteq {i \in DOMAIN jobs' : jobs'[i].status = "leased"}
      /\ connection' \in {"active", "reauthorization_required"}
      /\ \A q \in Procs \ {p} : Owns(q)' => Owns(q)
  <2>1. CASE Owns(p)
    <3>1. /\ jobs' = End(jobs, j, status)
          /\ lapsed' = lapsed \ {j}
          /\ connection' = IF reauthorization THEN "reauthorization_required" ELSE connection
          /\ jobs[j].status = "leased"
      BY <2>1 DEF Fail, status, Owns
    <3>2. /\ DOMAIN jobs' = DOMAIN jobs
          /\ jobs'[j] \in Jobs /\ jobs'[j].status = status
          /\ jobs'[j].mode = jobs[j].mode /\ jobs'[j].progress = jobs[j].progress
          /\ \A i \in DOMAIN jobs \ {j} : jobs'[i] = jobs[i]
      BY <1>2, <1>3, <3>1, EndFacts
    <3> HIDE DEF j
    <3>3. Quiet
      BY <1>3, <3>1, <3>2 DEF Quiet, Waiting
    <3>4. \A i \in DOMAIN jobs' : jobs'[i] \in Jobs
      BY <3>2, RowFacts DEF IInv
    <3>5. lapsed' \subseteq {i \in DOMAIN jobs' : jobs'[i].status = "leased"}
      BY <3>1, <3>2 DEF IInv, TypeOK
    <3>6. connection' \in {"active", "reauthorization_required"}
      BY <3>1 DEF IInv, TypeOK
    <3>7. ASSUME NEW q \in Procs \ {p}, Owns(q)' PROVE Owns(q)
      <4>1. work'[q] = work[q] /\ work[q].job \in DOMAIN jobs
        BY <1>1 DEF IInv, TypeOK
      <4>2. work[q].job # j
        BY <1>3, <3>2, <3>7, <4>1 DEF Owns
      <4> QED BY <3>2, <3>7, <4>1, <4>2 DEF Owns
    <3> QED BY <3>3, <3>4, <3>5, <3>6, <3>7
  <2>2. CASE ~Owns(p)
    <3>1. UNCHANGED <<jobs, lapsed, connection>>
      BY <2>2 DEF Fail
    <3>2. ASSUME NEW q \in Procs \ {p}, Owns(q)' PROVE Owns(q)
      BY <1>1, <3>1, <3>2 DEF Owns, IInv, TypeOK
    <3> QED BY <3>1, <3>2 DEF Quiet, IInv, TypeOK
  <2> QED BY <2>1, <2>2
<1>5. /\ RootIsScan' /\ ParentsExist' /\ OneLeaf' /\ IdsAreKnown' /\ CursorBehind'
      /\ work' \in [Procs -> Locals]
      /\ \A q \in Procs : work'[q].job \in DOMAIN jobs'
  BY <1>1, <1>2, <1>4, IdleIsTyped, GmailSyncAssumption, WorkerMoves DEF Writing
<1>6. DOMAIN jobs' = DOMAIN jobs
  BY <1>4 DEF Quiet
<1>7. TypeOK'
  BY <1>1, <1>4, <1>5, <1>6 DEF IInv, TypeOK
<1> QED BY <1>5, <1>7 DEF IInv

-----------------------------------------------------------------------------
(* A job ends and schedules another.                                        *)

\* The holder of a lease ends its job j and inserts the child of step s.
LEMMA ChildAdded ==
  ASSUME IInv, UNCHANGED <<history, oldest, connection, sourceState, mark, lapsed, stalls, grants>>,
         NEW p \in Procs, HoldsLease(p), work' = [work EXCEPT ![p] = Idle],
         NEW s \in Steps, NEW row \in Jobs, row.status = "pending",
         NEW status \in {"completed", "failed"},
         status = "failed" => Append(work[p].job, s) = Recovery(work[p].job),
         jobs' = End(Insert(Append(work[p].job, s), row), work[p].job, status),
         cursor' \in Nat \cup {NoHistory},
         cursor' \in Nat => cursor' <= Len(history),
         row.progress.history \in Nat =>
           /\ row.progress.history <= Len(history)
           /\ grants = 0 /\ cursor' \in Nat => cursor' <= row.progress.history
  PROVE  /\ IInv'
         /\ DOMAIN jobs' = DOMAIN jobs \cup {Append(work[p].job, s)}
         /\ \A i \in DOMAIN jobs :
              jobs'[i].mode = jobs[i].mode /\ jobs'[i].progress = jobs[i].progress
         /\ Append(work[p].job, s) \notin DOMAIN jobs => jobs'[Append(work[p].job, s)] = row
<1> DEFINE j == work[p].job
           child == Append(j, s)
           inserted == Insert(child, row)
<1>1. j \in DOMAIN jobs /\ j \in JobIds /\ jobs[j] \in Jobs /\ Root \in DOMAIN jobs
  BY LocalsOf, RowFacts DEF IInv, RootIsScan
<1>2. jobs[j].status = "leased" /\ j \notin lapsed
  BY DEF HoldsLease, Owns
<1>3. /\ child \in JobIds /\ child # j /\ child # Root
      /\ \A i \in JobIds, r \in Steps : Append(i, r) = child => i = j
  BY <1>1, ChildNames
<1>4. /\ DOMAIN inserted = DOMAIN jobs \cup {child}
      /\ \A i \in DOMAIN jobs : inserted[i] = jobs[i]
      /\ child \notin DOMAIN jobs => inserted[child] = row
  BY DEF Insert
<1> HIDE DEF inserted
<1>5. /\ DOMAIN jobs' = DOMAIN jobs \cup {child}
      /\ jobs'[j] \in Jobs /\ jobs'[j].status = status
      /\ jobs'[j].mode = jobs[j].mode /\ jobs'[j].progress = jobs[j].progress
      /\ \A i \in DOMAIN jobs \ {j} : jobs'[i] = jobs[i]
      /\ child \notin DOMAIN jobs => jobs'[child] = row
  <2>1. j \in DOMAIN inserted /\ inserted[j] = jobs[j] /\ inserted[j] \in Jobs
    BY <1>1, <1>4
  <2>2. jobs' = End(inserted, j, status)
    BY DEF inserted
  <2> HIDE DEF child, j
  <2>3. /\ DOMAIN jobs' = DOMAIN inserted
        /\ jobs'[j] \in Jobs /\ jobs'[j].status = status
        /\ jobs'[j].mode = inserted[j].mode /\ jobs'[j].progress = inserted[j].progress
        /\ \A i \in DOMAIN inserted \ {j} : jobs'[i] = inserted[i]
    BY <2>1, <2>2, EndFacts
  <2> QED BY <1>3, <1>4, <2>1, <2>3
<1>6. /\ work' \in [Procs -> Locals]
      /\ work'[p] = Idle
      /\ \A q \in Procs \ {p} : work'[q] = work[q]
  BY IdleIsTyped DEF IInv, TypeOK
<1> HIDE DEF child, j
<1>7. TypeOK'
  <2>1. \A i \in DOMAIN jobs' : i \in JobIds /\ jobs'[i] \in Jobs
    BY <1>1, <1>3, <1>5, RowFacts DEF IInv
  <2>2. lapsed' \subseteq {i \in DOMAIN jobs' : jobs'[i].status = "leased"}
    BY <1>2, <1>5 DEF IInv, TypeOK
  <2>3. \A q \in Procs : work'[q].job \in DOMAIN jobs'
    BY <1>1, <1>5, <1>6, IdleIsTyped DEF IInv, TypeOK
  <2> QED BY <1>6, <2>1, <2>2, <2>3 DEF IInv, TypeOK
<1>8. RootIsScan'
  BY <1>5 DEF IInv, RootIsScan
<1>9. ParentsExist'
  BY <1>1, <1>3, <1>5 DEF IInv, ParentsExist
<1>10. IdsAreKnown'
  <2>1. \A i \in DOMAIN jobs' :
          jobs'[i].progress.history \in Nat => jobs'[i].progress.history <= Len(history)
    BY <1>5 DEF IInv, IdsAreKnown
  <2>2. \A q \in Procs : /\ work'[q].since \in Nat => work'[q].since <= Len(history)
                         /\ work'[q].stage \in Writing => work'[q].since \in Nat
    BY <1>6, IdleIsTyped, GmailSyncAssumption DEF IInv, IdsAreKnown, Writing
  <2> QED BY <2>1, <2>2 DEF IdsAreKnown
<1>11. ASSUME grants = 0
       PROVE  /\ child \notin DOMAIN jobs
              /\ Live' = {child}
              /\ \A r \in Steps : Append(child, r) \notin DOMAIN jobs'
  <2>1. j \in Live
    BY <1>1, <1>2 DEF Live, Queued
  <2>2. Live = {j} /\ child \notin DOMAIN jobs
    BY <1>11, <2>1, LiveOne DEF child, j
  <2>3. \A r \in Steps : Append(child, r) \notin DOMAIN jobs'
    <3> TAKE r \in Steps
    <3>1. Append(child, r) \notin DOMAIN jobs
      BY <1>3, <2>2 DEF IInv, ParentsExist
    <3>2. Append(child, r) # child
      BY <1>3, ChildNames
    <3> QED BY <1>5, <3>1, <3>2
  <2>4. ASSUME NEW i \in DOMAIN jobs \ {j} PROVE i \notin Live'
    <3>1. i \notin Live
      BY <2>2, <2>4
    <3>2. jobs'[i] = jobs[i]
      BY <1>5, <2>4
    <3> QED BY <1>5, <2>4, <3>1, <3>2 DEF Live, Queued, Ended
  <2>5. j \notin Live'
    <3>1. status = "failed" => Recovery(j) = child
      BY DEF child, j
    <3> QED BY <1>5, <3>1 DEF Live, Queued, Ended
  <2>6. child \in Live'
    BY <1>5, <2>2 DEF Live, Queued
  <2>7. Live' \subseteq DOMAIN jobs \cup {child}
    BY <1>5 DEF Live, Queued, Ended
  <2> QED BY <2>2, <2>3, <2>4, <2>5, <2>6, <2>7
<1>12. OneLeaf'
  BY <1>5, <1>11 DEF OneLeaf
<1>13. CursorBehind'
  <2> SUFFICES ASSUME grants = 0, cursor' \in Nat
               PROVE  /\ \A i \in Queued' : jobs'[i].progress.history \in Nat =>
                                              cursor' <= jobs'[i].progress.history
                      /\ \A q \in Procs : ~Owns(q)'
    BY DEF CursorBehind
  <2>1. \A i \in Queued' : i = child /\ jobs'[i] = row
    BY <1>5, <1>11 DEF Live
  <2>2. \A i \in DOMAIN jobs' : jobs'[i].status = "leased" => i \in Queued'
    BY DEF Queued
  <2>3. \A q \in Procs : ~Owns(q)'
    BY <1>7, <2>1, <2>2 DEF Owns, TypeOK
  <2> QED BY <2>1, <2>3
<1> QED BY <1>5, <1>7, <1>8, <1>9, <1>10, <1>12, <1>13 DEF IInv, child, j

\* What its holder knows of a job that ends.
LEMMA HeldFacts ==
  ASSUME IInv, NEW p \in Procs, HoldsLease(p)
  PROVE  /\ work[p] \in Locals /\ work[p].job \in DOMAIN jobs
         /\ jobs[work[p].job] \in Jobs
         /\ Mode(p) \in {"full", "incremental"}
         /\ Marker(p) \in JobIds \cup {NoMarker}
         /\ work[p].since \in Nat =>
              /\ work[p].since <= Len(history)
              /\ grants = 0 /\ cursor \in Nat => cursor <= work[p].since
<1>1. work[p] \in Locals /\ work[p].job \in DOMAIN jobs /\ jobs[work[p].job] \in Jobs
  BY LocalsOf, RowFacts DEF IInv
<1>2. Mode(p) \in {"full", "incremental"} /\ Marker(p) \in JobIds \cup {NoMarker}
  BY <1>1 DEF Mode, Marker, Jobs, Locals
<1>3. work[p].since \in Nat =>
        /\ work[p].since <= Len(history)
        /\ grants = 0 /\ cursor \in Nat => cursor <= work[p].since
  BY DEF IInv, IdsAreKnown, CursorBehind, HoldsLease
<1> QED BY <1>1, <1>2, <1>3

LEMMA AdvanceRow ==
  ASSUME IInv, NEW p \in Procs, Advance(p)
  PROVE  LET progress == [history |-> work[p].since, token |-> work[p].next,
                          marker |-> IF Mode(p) = "full" THEN Marker(p) ELSE NoMarker]
             row == NewJob(Mode(p), progress)
             step == [kind |-> "page", token |-> work[p].next]
         IN /\ HoldsLease(p) /\ work[p].since \in Nat /\ step \in Steps
            /\ jobs' = End(Insert(Append(work[p].job, step), row), work[p].job, "completed")
            /\ row \in Jobs /\ row.mode = Mode(p) /\ row.status = "pending"
            /\ row.progress.history = work[p].since /\ row.progress.token = work[p].next
            /\ Mode(p) = "full" => row.progress.marker = Marker(p)
<1> DEFINE marker == IF Mode(p) = "full" THEN Marker(p) ELSE NoMarker
           progress == [history |-> work[p].since, token |-> work[p].next, marker |-> marker]
           row == NewJob(Mode(p), progress)
           step == [kind |-> "page", token |-> work[p].next]
<1>1. /\ HoldsLease(p)
      /\ jobs' = End(Insert(Page(work[p].job, work[p].next), row), work[p].job, "completed")
      /\ work[p].stage \in Writing
  BY DEF Advance, Written, Writing
<1>2. /\ work[p].since \in Nat /\ work[p].next \in Nat
      /\ Mode(p) \in {"full", "incremental"} /\ marker \in JobIds \cup {NoMarker}
  BY <1>1, HeldFacts DEF IInv, IdsAreKnown, Locals
<1>3. /\ row \in Jobs /\ row.mode = Mode(p) /\ row.status = "pending"
      /\ row.progress.history = work[p].since /\ row.progress.token = work[p].next
      /\ row.progress.marker = marker
  <2> HIDE DEF marker
  <2> QED BY <1>2, NewRowIsTyped
<1>4. step \in Steps
  BY <1>2 DEF Steps
<1>5. Page(work[p].job, work[p].next) = Append(work[p].job, step)
  BY DEF Page
<1> QED BY <1>1, <1>2, <1>3, <1>4, <1>5

LEMMA AdvanceInv == ASSUME IInv, NEW p \in Procs, Advance(p) PROVE IInv'
<1>1. /\ UNCHANGED <<history, oldest, connection, sourceState, mark, lapsed, stalls, grants>>
      /\ cursor' = cursor
      /\ work' = [work EXCEPT ![p] = Idle]
  BY DEF Advance, CursorAfterPage, gmail, index, counters
<1>2. cursor \in Nat \cup {NoHistory} /\ (cursor \in Nat => cursor <= Len(history))
  BY DEF IInv, TypeOK, IdsAreKnown
<1>3. PICK s \in Steps, row \in Jobs :
        /\ HoldsLease(p) /\ work[p].since \in Nat
        /\ jobs' = End(Insert(Append(work[p].job, s), row), work[p].job, "completed")
        /\ row.status = "pending" /\ row.progress.history = work[p].since
  BY AdvanceRow
<1> QED BY <1>1, <1>2, <1>3, HeldFacts, ChildAdded

LEMMA CompleteRow ==
  ASSUME IInv, NEW p \in Procs, Complete(p)
  PROVE  LET row == NewJob("incremental", NoProgress)
             step == [kind |-> "next", token |-> 0]
         IN /\ HoldsLease(p) /\ work[p].since \in Nat /\ step \in Steps
            /\ jobs' = End(Insert(Append(work[p].job, step), row), work[p].job, "completed")
            /\ row \in Jobs /\ row.mode = "incremental" /\ row.status = "pending"
            /\ row.progress.history = NoHistory /\ row.progress.token = 0
<1>1. /\ HoldsLease(p)
      /\ jobs' = End(Insert(NextPoll(work[p].job), NewJob("incremental", NoProgress)),
                     work[p].job, "completed")
      /\ work[p].stage \in Writing
  BY DEF Complete, Written, Writing
<1>2. work[p].since \in Nat
  BY <1>1 DEF IInv, IdsAreKnown
<1>3. LET row == NewJob("incremental", NoProgress)
      IN /\ row \in Jobs /\ row.mode = "incremental" /\ row.status = "pending"
         /\ row.progress.history = NoHistory /\ row.progress.token = 0
  BY NewRowIsTyped DEF NoProgress
<1>4. [kind |-> "next", token |-> 0] \in Steps
  BY DEF Steps
<1> QED BY <1>1, <1>2, <1>3, <1>4 DEF NextPoll

LEMMA CompleteInv == ASSUME IInv, NEW p \in Procs, Complete(p) PROVE IInv'
<1>1. /\ UNCHANGED <<history, oldest, connection, sourceState, mark, lapsed, stalls, grants>>
      /\ cursor' = work[p].since
      /\ work' = [work EXCEPT ![p] = Idle]
  BY DEF Complete, gmail, index, counters
<1>2. PICK s \in Steps, row \in Jobs :
        /\ HoldsLease(p) /\ work[p].since \in Nat
        /\ jobs' = End(Insert(Append(work[p].job, s), row), work[p].job, "completed")
        /\ row.status = "pending" /\ row.progress.history = NoHistory
  BY CompleteRow
<1> QED BY <1>1, <1>2, GmailSyncAssumption, HeldFacts, ChildAdded

LEMMA RecoverFullRow ==
  ASSUME IInv, NEW p \in Procs, RecoverFull(p)
  PROVE  LET row == NewJob("full", NoProgress)
             step == [kind |-> "recovery", token |-> 0]
         IN /\ HoldsLease(p) /\ step \in Steps
            /\ Append(work[p].job, step) = Recovery(work[p].job)
            /\ jobs' = End(Insert(Append(work[p].job, step), row), work[p].job, "failed")
            /\ row \in Jobs /\ row.mode = "full" /\ row.status = "pending"
            /\ row.progress.history = NoHistory /\ row.progress.token = 0
<1>1. /\ HoldsLease(p)
      /\ jobs' = End(Insert(Recovery(work[p].job), NewJob("full", NoProgress)),
                     work[p].job, "failed")
  BY DEF RecoverFull
<1>2. LET row == NewJob("full", NoProgress)
      IN /\ row \in Jobs /\ row.mode = "full" /\ row.status = "pending"
         /\ row.progress.history = NoHistory /\ row.progress.token = 0
  BY NewRowIsTyped DEF NoProgress
<1>3. [kind |-> "recovery", token |-> 0] \in Steps
  BY DEF Steps
<1> QED BY <1>1, <1>2, <1>3 DEF Recovery

LEMMA RecoverFullInv == ASSUME IInv, NEW p \in Procs, RecoverFull(p) PROVE IInv'
<1>1. /\ UNCHANGED <<history, oldest, connection, sourceState, mark, lapsed, stalls, grants>>
      /\ cursor' = cursor
      /\ work' = [work EXCEPT ![p] = Idle]
  BY DEF RecoverFull, gmail, index, counters
<1>2. cursor \in Nat \cup {NoHistory} /\ (cursor \in Nat => cursor <= Len(history))
  BY DEF IInv, TypeOK, IdsAreKnown
<1>3. PICK s \in Steps, row \in Jobs :
        /\ HoldsLease(p) /\ Append(work[p].job, s) = Recovery(work[p].job)
        /\ jobs' = End(Insert(Append(work[p].job, s), row), work[p].job, "failed")
        /\ row.status = "pending" /\ row.progress.history = NoHistory
  BY RecoverFullRow
<1> QED BY <1>1, <1>2, <1>3, GmailSyncAssumption, ChildAdded

-----------------------------------------------------------------------------
(* The user, the mailbox, and the whole.                                    *)

LEMMA ReauthorizeRows ==
  ASSUME IInv, Reauthorize
  PROVE  /\ DOMAIN jobs' = DOMAIN jobs
         /\ jobs'[Root] \in Jobs /\ jobs'[Root].mode = "full"
         /\ jobs'[Root].progress = NoProgress
         /\ \A j \in DOMAIN jobs \ {Root} : jobs'[j] = jobs[j]
<1>1. LET row == NewJob("full", NoProgress)
      IN row \in Jobs /\ row.mode = "full" /\ row.progress = NoProgress
  <2>1. NewJob("full", NoProgress) \in Jobs /\ NewJob("full", NoProgress).mode = "full"
    BY NewRowIsTyped DEF NoProgress
  <2> QED BY <2>1 DEF NewJob
<1> QED BY <1>1 DEF Reauthorize, IInv, RootIsScan

LEMMA ReauthorizeInv == ASSUME IInv, Reauthorize PROVE IInv'
<1>1. /\ UNCHANGED <<history, oldest, sourceState, mark, cursor, work, stalls>>
      /\ grants' = grants + 1 /\ grants < MaxGrants
      /\ connection' = "active"
      /\ lapsed' = lapsed \ {Root}
  BY DEF Reauthorize, gmail, index
<1>2. grants' \in 0 .. MaxGrants /\ grants' # 0
  BY <1>1, GmailSyncAssumption DEF IInv, TypeOK
<1>3. TypeOK'
  <2>1. DOMAIN jobs' = DOMAIN jobs /\ \A j \in DOMAIN jobs' : jobs'[j] \in Jobs
    BY ReauthorizeRows, RowFacts DEF IInv
  <2>2. lapsed' \subseteq {j \in DOMAIN jobs' : jobs'[j].status = "leased"}
    BY <1>1, ReauthorizeRows DEF IInv, TypeOK
  <2> QED BY <1>1, <1>2, <2>1, <2>2 DEF IInv, TypeOK
<1>4. RootIsScan' /\ ParentsExist'
  BY ReauthorizeRows DEF IInv, RootIsScan, ParentsExist
<1>5. OneLeaf' /\ CursorBehind'
  BY <1>2 DEF OneLeaf, CursorBehind
<1>6. IdsAreKnown'
  <2>1. NoProgress.history \notin Nat
    BY GmailSyncAssumption DEF NoProgress
  <2>2. \A j \in DOMAIN jobs' :
          jobs'[j].progress.history \in Nat => jobs'[j].progress.history <= Len(history)
    BY <2>1, ReauthorizeRows DEF IInv, IdsAreKnown
  <2> QED BY <1>1, <2>2 DEF IInv, IdsAreKnown
<1> QED BY <1>3, <1>4, <1>5, <1>6 DEF IInv

LEMMA MailboxChangesInv == ASSUME IInv, MailboxChanges PROVE IInv'
<1>1. UNCHANGED <<oldest, connection, sourceState, mark, cursor, jobs, lapsed, work, stalls, grants>>
  BY DEF MailboxChanges, index, counters
<1>2. PICK e \in Events : history' = Append(history, e)
  BY DEF MailboxChanges, Events
<1>3. /\ history' \in Seq(Events) /\ Len(history') = Len(history) + 1
      /\ Len(history) \in Nat
  BY <1>2, AppendProperties, LenProperties DEF IInv, TypeOK
<1>4. TypeOK'
  BY <1>1, <1>3 DEF IInv, TypeOK
<1>5. RootIsScan' /\ ParentsExist' /\ OneLeaf'
  BY <1>1, ChainKept DEF Quiet
<1>6. \A n \in Nat : n <= Len(history) => n <= Len(history')
  BY <1>3
<1>7. IdsAreKnown'
  BY <1>1, <1>6 DEF IInv, IdsAreKnown
<1>8. CursorBehind'
  BY <1>1 DEF IInv, CursorBehind, Queued, Owns
<1> QED BY <1>4, <1>5, <1>7, <1>8 DEF IInv

LEMMA HistoryExpiresInv == ASSUME IInv, HistoryExpires PROVE IInv'
<1>1. /\ UNCHANGED <<history, connection, sourceState, mark, cursor, jobs, lapsed, work, stalls, grants>>
      /\ oldest' \in oldest + 1 .. Len(history)
  BY DEF HistoryExpires, index, counters
<1>2. oldest' \in 0 .. Len(history)
  BY <1>1, LenProperties DEF IInv, TypeOK
<1>3. TypeOK'
  BY <1>1, <1>2 DEF IInv, TypeOK
<1>4. RootIsScan' /\ ParentsExist' /\ OneLeaf'
  BY <1>1, ChainKept DEF Quiet
<1> QED BY <1>1, <1>3, <1>4 DEF IInv, IdsAreKnown, CursorBehind, Queued, Owns

LEMMA StutterInv == ASSUME IInv, UNCHANGED vars PROVE IInv'
<1>1. UNCHANGED <<history, oldest, connection, sourceState, mark, cursor, jobs, lapsed, work, stalls, grants>>
  BY DEF vars, gmail, index, counters
<1>2. TypeOK'
  BY <1>1 DEF IInv, TypeOK
<1>3. RootIsScan' /\ ParentsExist' /\ OneLeaf'
  BY <1>1, ChainKept DEF Quiet
<1> QED BY <1>1, <1>2, <1>3 DEF IInv, IdsAreKnown, CursorBehind, Queued, Owns

LEMMA InitInv == Init => IInv
<1> SUFFICES ASSUME Init PROVE IInv
  OBVIOUS
<1> DEFINE row == NewJob("full", NoProgress)
<1>1. row \in Jobs /\ row.mode = "full" /\ row.status = "pending" /\ row.progress = NoProgress
  <2>1. row \in Jobs /\ row.mode = "full" /\ row.status = "pending"
    BY NewRowIsTyped DEF NoProgress
  <2> QED BY <2>1 DEF NewJob
<1> HIDE DEF row
<1>2. /\ DOMAIN jobs = {Root} /\ jobs[Root] = row /\ lapsed = {} /\ cursor = NoHistory
      /\ \A p \in Procs : work[p] = Idle
      /\ work \in [Procs -> {Idle}]
      /\ history = InitialHistory /\ oldest = 0
  BY DEF Init, row
<1>3. Root \in JobIds /\ NoHistory \notin Nat
  BY GmailSyncAssumption DEF Root, JobIds
<1>4. TypeOK
  <2>1. history \in Seq(Events) /\ oldest \in 0 .. Len(history)
    BY <1>2, GmailSyncAssumption, LenProperties
  <2>2. /\ connection \in {"active", "reauthorization_required"}
        /\ sourceState \in [Messages -> {"absent", "active", "deleted"}]
        /\ mark \in [Messages -> JobIds \cup {NoMarker}]
    BY DEF Init
  <2>3. DOMAIN jobs \subseteq JobIds /\ \A j \in DOMAIN jobs : jobs[j] \in Jobs
    BY <1>1, <1>2, <1>3
  <2>4. work \in [Procs -> Locals] /\ \A p \in Procs : work[p].job \in DOMAIN jobs
    BY <1>2, IdleIsTyped
  <2>5. stalls \in 0 .. MaxStalls /\ grants \in 0 .. MaxGrants
    BY GmailSyncAssumption DEF Init
  <2> QED BY <1>2, <2>1, <2>2, <2>3, <2>4, <2>5 DEF TypeOK
<1>5. RootIsScan
  BY <1>1, <1>2 DEF RootIsScan
<1>6. \A j \in JobIds, s \in Steps : Append(j, s) \notin DOMAIN jobs
  BY <1>2, ChildNames
<1>7. ParentsExist
  BY <1>6 DEF ParentsExist
<1>8. OneLeaf
  <2>1. Live = {Root}
    BY <1>1, <1>2 DEF Live, Queued, Ended
  <2> QED BY <1>2, <1>3, <1>6, <2>1 DEF OneLeaf
<1>9. IdsAreKnown
  <2>1. \A j \in DOMAIN jobs : jobs[j].progress.history = NoHistory
    BY <1>1, <1>2 DEF NoProgress
  <2>2. \A p \in Procs : work[p].since = NoHistory /\ work[p].stage \notin Writing
    BY <1>2, IdleIsTyped DEF Writing
  <2> QED BY <1>2, <1>3, <2>1, <2>2 DEF IdsAreKnown
<1>10. CursorBehind
  BY <1>2, <1>3 DEF CursorBehind
<1> QED BY <1>4, <1>5, <1>7, <1>8, <1>9, <1>10 DEF IInv

LEMMA NextInv == ASSUME IInv, [Next]_vars PROVE IInv'
<1>1. CASE UNCHANGED vars
  BY <1>1, StutterInv
<1>2. CASE MailboxChanges
  BY <1>2, MailboxChangesInv
<1>3. CASE HistoryExpires
  BY <1>3, HistoryExpiresInv
<1>4. CASE Reauthorize
  BY <1>4, ReauthorizeInv
<1>5. CASE \E j \in DOMAIN jobs : LeaseExpires(j)
  BY <1>5, LeaseExpiresInv
<1>6. ASSUME NEW p \in Procs,
             \/ \E j \in DOMAIN jobs : Claim(p, j)
             \/ ClaimNothing(p)
             \/ Load(p)
             \/ ReadHistoryId(p)
             \/ ListPage(p)
             \/ ListHistoryPage(p)
      PROVE  IInv'
  BY <1>6, ClaimInv, ClaimNothingInv, LoadInv, ReadHistoryIdInv, ListPageInv, ListHistoryPageInv
<1>7. ASSUME NEW p \in Procs,
             \/ \E m \in Messages : Enqueue(p, m) \/ Tombstone(p, m)
             \/ MarkSeen(p)
             \/ Reconcile(p)
             \/ Advance(p)
             \/ Complete(p)
             \/ RecoverFull(p)
             \/ \E retryable, reauthorization \in BOOLEAN : Fail(p, retryable, reauthorization)
             \/ Crash(p)
      PROVE  IInv'
  BY <1>7, EnqueueInv, TombstoneInv, MarkSeenInv, ReconcileInv, AdvanceInv, CompleteInv,
     RecoverFullInv, FailInv, CrashInv
<1> QED BY <1>1, <1>2, <1>3, <1>4, <1>5, <1>6, <1>7 DEF Next

\* The inductive invariant holds in every state of every behaviour.
THEOREM Invariant == Spec => []IInv
<1>1. Init => IInv
  BY InitInv
<1>2. IInv /\ [Next]_vars => IInv'
  BY NextInv
<1> QED BY <1>1, <1>2, PTL DEF Spec

\* For any mailbox and any number of workers, jobs, marks, cursor and locals keep
\* their types: a job is tried MaxAttempts times, a lapsed lease is a lease.
THEOREM TypeCorrect == Spec => []TypeOK
<1>1. IInv => TypeOK
  BY DEF IInv
<1> QED BY <1>1, Invariant, PTL

\* Until the user authorizes again there is one sync to do or the chain has ended
\* visibly, whatever workers crash, stall and overlap (advance, complete,
\* recover_full and fail, each under the lock of its job).
THEOREM ChainIsOne == Spec => []OneChain
<1>1. ASSUME IInv, grants = 0 PROVE Cardinality(Queued) + Cardinality(Ended) = 1
  <2>1. PICK j \in DOMAIN jobs : Live = {j}
    BY <1>1 DEF IInv, OneLeaf
  <2>2. Queued \cap Ended = {} /\ Queued \cup Ended = {j}
    BY <2>1 DEF Live, Queued, Ended
  <2>3. (Queued = {j} /\ Ended = {}) \/ (Queued = {} /\ Ended = {j})
    BY <2>2
  <2>4. Cardinality({j}) = 1 /\ Cardinality({}) = 0
    BY FS_Singleton, FS_EmptySet
  <2> QED BY <2>3, <2>4
<1>2. IInv => OneChain
  BY <1>1 DEF OneChain
<1> QED BY <1>2, Invariant, PTL

\* Until the user authorizes again no complete takes the cursor back, although
\* workers whose lease lapsed hold older history ids.
THEOREM CursorIsMonotonic == Spec => CursorMovesForward
<1>1. ASSUME IInv, [Next]_vars, grants' = 0, cursor # NoHistory
      PROVE  cursor' >= cursor
  <2>1. cursor \in Nat
    BY <1>1 DEF IInv, TypeOK
  <2>2. CASE UNCHANGED cursor
    BY <2>1, <2>2
  <2>3. ASSUME NEW p \in Procs, Complete(p) PROVE cursor' >= cursor
    <3>1. /\ cursor' = work[p].since /\ grants' = grants
          /\ HoldsLease(p) /\ work[p].since \in Nat
      BY <1>1, <2>3, CompleteRow DEF Complete, counters
    <3>2. cursor <= work[p].since
      BY <1>1, <2>1, <3>1, HeldFacts
    <3> QED BY <2>1, <3>1, <3>2
  <2>4. ASSUME NEW p \in Procs,
               \/ \E j \in DOMAIN jobs : Claim(p, j)
               \/ ClaimNothing(p) \/ Load(p) \/ ReadHistoryId(p)
               \/ ListPage(p) \/ ListHistoryPage(p)
        PROVE  UNCHANGED cursor
    BY <2>4 DEF Claim, ClaimNothing, Load, ReadHistoryId, ListPage, ListHistoryPage
  <2>5. ASSUME NEW p \in Procs,
               \/ \E m \in Messages : Enqueue(p, m) \/ Tombstone(p, m)
               \/ MarkSeen(p) \/ Reconcile(p)
        PROVE  UNCHANGED cursor
    BY <2>5 DEF Enqueue, Tombstone, MarkSeen, Reconcile
  <2>6. ASSUME NEW p \in Procs, Advance(p) PROVE UNCHANGED cursor
    BY <2>6 DEF Advance, CursorAfterPage
  <2>7. ASSUME NEW p \in Procs,
               \/ RecoverFull(p) \/ Crash(p)
               \/ \E retryable, reauthorization \in BOOLEAN : Fail(p, retryable, reauthorization)
        PROVE  UNCHANGED cursor
    BY <2>7 DEF RecoverFull, Fail, Crash
  <2>8. CASE \/ MailboxChanges \/ HistoryExpires \/ Reauthorize \/ UNCHANGED vars
             \/ \E j \in DOMAIN jobs : LeaseExpires(j)
    BY <2>2, <2>8 DEF MailboxChanges, HistoryExpires, Reauthorize, LeaseExpires, vars
  <2> QED
    <3>1. \/ \E p \in Procs : Complete(p)
          \/ UNCHANGED cursor
          \/ MailboxChanges \/ HistoryExpires \/ Reauthorize \/ UNCHANGED vars
          \/ \E j \in DOMAIN jobs : LeaseExpires(j)
      BY <1>1, <2>4, <2>5, <2>6, <2>7 DEF Next
    <3> QED BY <2>2, <2>3, <2>8, <3>1
<1> QED BY <1>1, Invariant, PTL DEF Spec, CursorMovesForward

-----------------------------------------------------------------------------
(* Coverage. *)

\* Of the messages touched up to a history id, those that are in the mailbox and were
\* never enqueued.
Missing == [h \in 0 .. Len(history) |->
              {m \in Touched(0, h) \cap Mail : sourceState[m] = "absent"}]

\* What is missing behind a job that has listed up to token t, or to its end (0): a
\* scan that noted history id h looks for what changed before in listing order, a
\* poll for what changed before its position in the history.
Behind(mode, h, t) ==
  IF mode = "full" THEN {m \in Missing[h] : t = 0 \/ m <= t}
  ELSE Missing[IF t = 0 THEN h ELSE t]

\* Progress is handed on whole, and nothing is missing behind it.
RowCovered(j) ==
  LET progress == jobs[j].progress
  IN /\ progress.history = NoHistory <=> progress.token = 0
     /\ jobs[j].mode = "incremental" => progress.token <= Len(history)
     /\ progress.token # 0 => Behind(jobs[j].mode, progress.history, progress.token) = {}

\* What a worker has in hand fits its job and its stage, and what is missing behind
\* the page it has listed it is about to enqueue.
WorkCovered(p) ==
  /\ work[p].stage # "writing" => work[p].todo = {}
  /\ work[p].stage \in {"marked", "reconciled"} => Mode(p) = "full"
  /\ Mode(p) = "incremental" => work[p].next <= Len(history)
  /\ work[p].stage \in {"loaded"} \cup Writing /\ Mode(p) = "full" /\ Token(p) # 0
       => work[p].since = jobs[work[p].job].progress.history
  /\ work[p].stage = "loaded" /\ Mode(p) = "incremental" /\ Token(p) = 0 /\ work[p].since \in Nat
       => Missing[work[p].since] = {}
  /\ work[p].stage \in Writing
       => Behind(Mode(p), work[p].since, work[p].next) \subseteq work[p].todo

CursorCovered == cursor \in Nat => Missing[cursor] = {}

CoverInv ==
  /\ \A j \in DOMAIN jobs : RowCovered(j)
  /\ \A p \in Procs : WorkCovered(p)
  /\ CursorCovered

-----------------------------------------------------------------------------
(* What is missing.                                                         *)

\* Nothing that was enqueued or deleted goes missing again.
Kept ==
  /\ Len(history) <= Len(history')
  /\ \A h \in 0 .. Len(history) : Missing'[h] \subseteq Missing[h]

LEMMA MissingFacts ==
  ASSUME TypeOK
  PROVE  /\ Len(history) \in Nat
         /\ \A h \in 0 .. Len(history) :
              /\ Missing[h] \subseteq Mail /\ Missing[h] \subseteq Messages
              /\ \A m : m \in Missing[h] <=>
                          m \in Touched(0, h) /\ m \in Mail /\ sourceState[m] = "absent"
<1>1. Len(history) \in Nat
  BY LenProperties DEF TypeOK
<1> QED BY <1>1, MailIsMessages DEF Missing

LEMMA MissingStays == ASSUME UNCHANGED <<history, sourceState>> PROVE Missing' = Missing
<1>1. Mail' = Mail
  BY DEF Mail, Touched, Deleted
<1>2. \A h : Touched(0, h)' = Touched(0, h)
  BY DEF Touched
<1> QED BY <1>1, <1>2 DEF Missing

LEMMA EnqueuedIsKept ==
  ASSUME TypeOK, UNCHANGED history,
         \A m \in Messages : sourceState'[m] = "absent" => sourceState[m] = "absent"
  PROVE  Kept
<1>1. Len(history) \in Nat /\ Mail' = Mail
  BY LenProperties DEF TypeOK, Mail, Touched, Deleted
<1>2. ASSUME NEW h \in 0 .. Len(history)
      PROVE  Missing'[h] \subseteq Missing[h]
  <2>1. Touched(0, h)' = Touched(0, h)
    BY DEF Touched
  <2>2. Missing'[h] = {m \in Touched(0, h)' \cap Mail' : sourceState'[m] = "absent"}
    BY <1>1, <1>2 DEF Missing
  <2>3. Missing[h] = {m \in Touched(0, h) \cap Mail : sourceState[m] = "absent"}
    BY <1>2 DEF Missing
  <2> QED BY <1>1, <2>1, <2>2, <2>3, MailIsMessages
<1> QED BY <1>1, <1>2 DEF Kept

\* The mailbox forgets no change, and what is deleted stays deleted.
MailboxGrows ==
  /\ Len(history) <= Len(history')
  /\ Deleted \subseteq Deleted'
  /\ \A h \in 0 .. Len(history) :
       /\ Touched(0, h)' = Touched(0, h)
       /\ Touched(0, h) \cap Mail' \subseteq Touched(0, h) \cap Mail

LEMMA MailboxStays ==
  ASSUME UNCHANGED history
  PROVE  MailboxGrows /\ Mail' = Mail /\ Deleted' = Deleted
<1>1. Mail' = Mail /\ Deleted' = Deleted
  BY DEF Mail, Touched, Deleted
<1>2. Len(history) <= Len(history')
  BY DEF Touched
<1>3. \A h : Touched(0, h)' = Touched(0, h)
  BY DEF Touched
<1> QED BY <1>1, <1>2, <1>3 DEF MailboxGrows

LEMMA MailboxChangesGrow ==
  ASSUME TypeOK, MailboxChanges
  PROVE  MailboxGrows
<1>1. PICK e \in Events : history' = Append(history, e)
  BY DEF MailboxChanges, Events
<1>2. /\ history \in Seq(Events) /\ Len(history) \in Nat
      /\ Len(history') = Len(history) + 1
      /\ \A i \in 1 .. Len(history) : history'[i] = history[i]
  BY <1>1, AppendProperties, LenProperties DEF TypeOK
<1>3. DOMAIN history = 1 .. Len(history) /\ DOMAIN history' = 1 .. Len(history')
  BY <1>1, <1>2, AppendProperties, LenProperties
<1>4. Deleted \subseteq Deleted'
  <2> SUFFICES ASSUME NEW m \in Deleted PROVE m \in Deleted'
    OBVIOUS
  <2>1. PICK i \in DOMAIN history : history[i] = [message |-> m, kind |-> "deleted"]
    BY DEF Deleted
  <2>2. i \in DOMAIN history' /\ history'[i] = history[i]
    BY <1>2, <1>3, <2>1
  <2> QED BY <2>1, <2>2 DEF Deleted
<1>5. ASSUME NEW h \in 0 .. Len(history)
      PROVE  /\ Touched(0, h)' = Touched(0, h)
             /\ Touched(0, h) \cap Mail' \subseteq Touched(0, h) \cap Mail
  <2>1. Touched(0, h)' = Touched(0, h)
    BY <1>2 DEF Touched
  <2>2. Touched(0, h) \subseteq Touched(0, Len(history))
    BY <1>2 DEF Touched
  <2> QED BY <1>4, <2>1, <2>2 DEF Mail
<1> QED BY <1>2, <1>4, <1>5 DEF MailboxGrows

LEMMA ChangesKeep ==
  ASSUME TypeOK, MailboxChanges
  PROVE  Kept
<1>1. MailboxGrows /\ UNCHANGED sourceState
  BY MailboxChangesGrow DEF MailboxChanges, index
<1>2. ASSUME NEW h \in 0 .. Len(history)
      PROVE  Missing'[h] \subseteq Missing[h]
  <2>1. h \in 0 .. Len(history')
    BY <1>1, MissingFacts DEF MailboxGrows
  <2>2. Missing'[h] = {m \in Touched(0, h)' \cap Mail' : sourceState'[m] = "absent"}
    BY <2>1 DEF Missing
  <2>3. Missing[h] = {m \in Touched(0, h) \cap Mail : sourceState[m] = "absent"}
    BY <1>2 DEF Missing
  <2> QED BY <1>1, <1>2, <2>2, <2>3 DEF MailboxGrows
<1> QED BY <1>1, <1>2 DEF Kept, MailboxGrows

\* What is missing up to the end of a page of history was missing before the page or
\* is touched on it.
LEMMA MissingSplits ==
  ASSUME TypeOK, NEW from \in 0 .. Len(history), NEW to \in 0 .. Len(history), from <= to
  PROVE  Missing[to] \subseteq Missing[from] \cup (Touched(from, to) \cap Mail)
<1>1. Touched(0, to) \subseteq Touched(0, from) \cup Touched(from, to)
  BY LenProperties DEF Touched, TypeOK
<1> QED BY <1>1, MissingFacts

-----------------------------------------------------------------------------
(* What a step leaves alone stays covered.                                  *)

\* No job goes, and none changes what it is to do.
RowsStay ==
  \A j \in DOMAIN jobs :
    /\ j \in DOMAIN jobs'
    /\ jobs'[j].mode = jobs[j].mode
    /\ jobs'[j].progress = jobs[j].progress

LEMMA RowTypes ==
  ASSUME IInv, NEW j \in DOMAIN jobs
  PROVE  /\ jobs[j].mode \in {"full", "incremental"}
         /\ jobs[j].progress.token \in Nat
         /\ \/ jobs[j].progress.history = NoHistory
            \/ jobs[j].progress.history \in 0 .. Len(history)
<1>1. jobs[j] \in Jobs /\ Len(history) \in Nat
  BY RowFacts, MissingFacts DEF IInv
<1>2. jobs[j].progress.history \in Nat \cup {NoHistory}
  BY <1>1 DEF Jobs
<1>3. jobs[j].progress.history \in Nat => jobs[j].progress.history <= Len(history)
  BY DEF IInv, IdsAreKnown
<1> QED BY <1>1, <1>2, <1>3 DEF Jobs

LEMMA WorkTypes ==
  ASSUME IInv, NEW p \in Procs
  PROVE  /\ work[p] \in Locals /\ work[p].job \in DOMAIN jobs
         /\ Mode(p) \in {"full", "incremental"} /\ Token(p) \in Nat
         /\ work[p].next \in Nat /\ work[p].todo \subseteq Messages
         /\ \/ work[p].since = NoHistory
            \/ work[p].since \in 0 .. Len(history)
         /\ work[p].stage \in Writing => work[p].since \in 0 .. Len(history)
<1>1. work[p] \in Locals /\ work[p].job \in DOMAIN jobs /\ Len(history) \in Nat
  BY LocalsOf, MissingFacts DEF IInv
<1>2. /\ work[p].since \in Nat \cup {NoHistory} /\ work[p].next \in Nat
      /\ work[p].todo \subseteq Messages
  BY <1>1 DEF Locals
<1>3. Mode(p) \in {"full", "incremental"} /\ Token(p) \in Nat
  BY <1>1, RowTypes DEF Mode, Token
<1>4. /\ work[p].since \in Nat => work[p].since <= Len(history)
      /\ work[p].stage \in Writing => work[p].since \in Nat
  BY DEF IInv, IdsAreKnown
<1> QED BY <1>1, <1>2, <1>3, <1>4

LEMMA RowStaysCovered ==
  ASSUME IInv, CoverInv, Kept, RowsStay, NEW j \in DOMAIN jobs
  PROVE  RowCovered(j)'
<1> DEFINE mode == jobs[j].mode
           h == jobs[j].progress.history
           t == jobs[j].progress.token
<1>1. /\ mode \in {"full", "incremental"} /\ t \in Nat
      /\ h = NoHistory \/ h \in 0 .. Len(history)
      /\ Len(history) \in Nat
  BY RowTypes, MissingFacts DEF IInv
<1>2. /\ h = NoHistory <=> t = 0
      /\ mode = "incremental" => t <= Len(history)
      /\ t # 0 => Behind(mode, h, t) = {}
  BY DEF CoverInv, RowCovered
<1>3. jobs'[j].mode = mode /\ jobs'[j].progress.history = h /\ jobs'[j].progress.token = t
  BY DEF RowsStay
<1> HIDE DEF mode, h, t
<1>4. mode = "incremental" => t <= Len(history')
  BY <1>1, <1>2 DEF Kept, IInv, TypeOK
<1>5. ASSUME t # 0
      PROVE  Behind(jobs[j].mode, jobs[j].progress.history, jobs[j].progress.token)' = {}
  <2>1. Missing'[h] \subseteq Missing[h]
    BY <1>1, <1>2, <1>5 DEF Kept
  <2>2. mode # "full" => Missing'[t] \subseteq Missing[t]
    BY <1>1, <1>2 DEF Kept
  <2> QED BY <1>2, <1>3, <1>5, <2>1, <2>2 DEF Behind
<1> QED BY <1>2, <1>3, <1>4, <1>5 DEF RowCovered

\* The worker is where it was: only what it has seen and tombstoned may differ.
SameTask(p) ==
  /\ work'[p].stage = work[p].stage /\ work'[p].job = work[p].job
  /\ work'[p].since = work[p].since /\ work'[p].next = work[p].next
  /\ work'[p].todo = work[p].todo

LEMMA WorkStaysCovered ==
  ASSUME IInv, CoverInv, Kept, RowsStay, Len(history') \in Nat, NEW p \in Procs,
         SameTask(p)
  PROVE  WorkCovered(p)'
<1> DEFINE h == work[p].since
           t == work[p].next
<1>1. /\ Mode(p)' = Mode(p) /\ Token(p)' = Token(p)
      /\ jobs'[work[p].job].progress = jobs[work[p].job].progress
  BY WorkTypes DEF RowsStay, Mode, Token, SameTask
<1>2. /\ Mode(p) \in {"full", "incremental"} /\ t \in Nat /\ Len(history) \in Nat
      /\ work[p].stage \in Writing => h \in 0 .. Len(history)
      /\ h \in Nat => h \in 0 .. Len(history)
  BY WorkTypes, MissingFacts, GmailSyncAssumption DEF IInv
<1>3. WorkCovered(p)
  BY DEF CoverInv
<1>4. Mode(p) = "incremental" => t <= Len(history')
  BY <1>2, <1>3 DEF WorkCovered, Kept
<1>5. ASSUME h \in Nat, Missing[h] = {}
      PROVE  Missing'[h] = {}
  BY <1>2, <1>5 DEF Kept
<1>6. ASSUME work[p].stage \in Writing
      PROVE  Behind(Mode(p), work[p].since, work[p].next)' \subseteq work[p].todo
  <2>1. Missing'[h] \subseteq Missing[h]
    BY <1>2, <1>6 DEF Kept
  <2>2. Mode(p) = "incremental" => Missing'[t] \subseteq Missing[t]
    BY <1>2, <1>3 DEF Kept, WorkCovered
  <2> QED BY <1>1, <1>2, <1>3, <1>6, <2>1, <2>2 DEF Behind, WorkCovered, SameTask
<1> QED BY <1>1, <1>3, <1>4, <1>5, <1>6 DEF WorkCovered, SameTask

\* A worker that has nothing, or only its job, in hand.
LEMMA IdleIsCovered ==
  ASSUME NEW p \in Procs, work'[p].stage \in {"idle", "claimed"}, work'[p].todo = {},
         work'[p].next = 0, Len(history') \in Nat
  PROVE  WorkCovered(p)'
  BY DEF WorkCovered, Writing

LEMMA CursorStaysCovered ==
  ASSUME IInv, CoverInv, Kept, UNCHANGED cursor
  PROVE  CursorCovered'
  BY MissingFacts DEF IInv, IdsAreKnown, CoverInv, CursorCovered, Kept

\* Steps that schedule nothing, list nothing and write nothing.
LEMMA QuietIsCovered ==
  ASSUME IInv, CoverInv, Kept, RowsStay, DOMAIN jobs' = DOMAIN jobs, UNCHANGED cursor,
         Len(history') \in Nat,
         \A p \in Procs : \/ work'[p] = work[p]
                          \/ /\ work'[p].stage \in {"idle", "claimed"}
                             /\ work'[p].todo = {} /\ work'[p].next = 0
  PROVE  CoverInv'
<1>1. \A j \in DOMAIN jobs' : RowCovered(j)'
  BY RowStaysCovered
<1>2. \A p \in Procs : WorkCovered(p)'
  BY WorkStaysCovered, IdleIsCovered DEF SameTask
<1> QED BY <1>1, <1>2, CursorStaysCovered DEF CoverInv

-----------------------------------------------------------------------------
(* The quiet steps.                                                         *)

LEMMA EndKeepsRows ==
  ASSUME IInv, NEW j \in DOMAIN jobs, NEW child, NEW row,
         NEW status \in {"completed", "failed", "retry_wait", "dead_letter"},
         jobs' = End(Insert(child, row), j, status)
  PROVE  /\ RowsStay
         /\ DOMAIN jobs' = DOMAIN jobs \cup {child}
         /\ child \notin DOMAIN jobs => jobs'[child] = row
<1>1. /\ DOMAIN Insert(child, row) = DOMAIN jobs \cup {child}
      /\ \A i \in DOMAIN jobs : Insert(child, row)[i] = jobs[i]
      /\ child \notin DOMAIN jobs => Insert(child, row)[child] = row
  BY DEF Insert
<1>2. jobs[j] \in Jobs
  BY RowFacts DEF IInv
<1> DEFINE inserted == Insert(child, row)
<1>3. j \in DOMAIN inserted /\ inserted[j] = jobs[j] /\ inserted[j] \in Jobs
  BY <1>1, <1>2
<1> HIDE DEF inserted
<1>4. /\ DOMAIN jobs' = DOMAIN inserted
      /\ jobs'[j].mode = inserted[j].mode /\ jobs'[j].progress = inserted[j].progress
      /\ \A i \in DOMAIN inserted \ {j} : jobs'[i] = inserted[i]
  BY <1>3, EndFacts DEF inserted
<1> QED BY <1>1, <1>3, <1>4 DEF RowsStay, inserted

LEMMA SweepCover ==
  ASSUME IInv, CoverInv, NEW p \in Procs, ClaimNothing(p)
  PROVE  CoverInv'
<1>1. /\ UNCHANGED <<history, sourceState, cursor, work>>
      /\ jobs' = Swept
  BY DEF ClaimNothing, gmail, index
<1>2. RowsStay /\ DOMAIN jobs' = DOMAIN jobs
  BY <1>1, SweptFacts DEF IInv, RowsStay
<1>3. Kept /\ Len(history') \in Nat
  BY <1>1, EnqueuedIsKept, MissingFacts DEF IInv
<1> QED BY <1>1, <1>2, <1>3, QuietIsCovered

LEMMA ClaimCover ==
  ASSUME IInv, CoverInv, NEW p \in Procs, NEW j \in DOMAIN jobs, Claim(p, j)
  PROVE  CoverInv'
<1>1. /\ UNCHANGED <<history, sourceState, cursor>>
      /\ jobs' = [Swept EXCEPT ![j].status = "leased", ![j].owner = p, ![j].attempts = @ + 1]
      /\ work' = [work EXCEPT ![p] = [Idle EXCEPT !.stage = "claimed", !.job = j]]
  BY DEF Claim, gmail, index
<1>2. RowsStay /\ DOMAIN jobs' = DOMAIN jobs
  <2>1. /\ DOMAIN jobs' = DOMAIN jobs
        /\ \A i \in DOMAIN jobs \ {j} : jobs'[i] = Swept[i]
        /\ jobs'[j] = [Swept[j] EXCEPT !.status = "leased", !.owner = p, !.attempts = @ + 1]
    BY <1>1, SweptFacts DEF IInv
  <2>2. jobs'[j].mode = Swept[j].mode /\ jobs'[j].progress = Swept[j].progress
    BY <2>1, SweptFacts DEF IInv, Jobs
  <2>3. \A i \in DOMAIN jobs : Swept[i].mode = jobs[i].mode /\ Swept[i].progress = jobs[i].progress
    BY SweptFacts DEF IInv
  <2> QED BY <2>1, <2>2, <2>3 DEF RowsStay
<1>3. Kept /\ Len(history') \in Nat
  BY <1>1, EnqueuedIsKept, MissingFacts DEF IInv
<1>4. /\ work'[p].stage = "claimed" /\ work'[p].todo = {} /\ work'[p].next = 0
      /\ \A q \in Procs \ {p} : work'[q] = work[q]
  BY <1>1 DEF IInv, TypeOK, Idle
<1> QED BY <1>1, <1>2, <1>3, <1>4, QuietIsCovered

\* A process ends, or its job fails.
LEMMA GivesUpCover ==
  ASSUME IInv, CoverInv, NEW p \in Procs,
         Crash(p) \/ \E retryable, reauthorization \in BOOLEAN : Fail(p, retryable, reauthorization)
  PROVE  CoverInv'
<1>1. /\ UNCHANGED <<history, sourceState, cursor>>
      /\ work' = [work EXCEPT ![p] = Idle]
  BY DEF Crash, Fail, gmail, index
<1>2. RowsStay /\ DOMAIN jobs' = DOMAIN jobs
  <2>1. CASE UNCHANGED jobs
    BY <2>1 DEF RowsStay
  <2>2. ASSUME NEW status \in {"failed", "retry_wait", "dead_letter"},
               jobs' = End(jobs, work[p].job, status)
        PROVE  RowsStay /\ DOMAIN jobs' = DOMAIN jobs
    <3>1. work[p].job \in DOMAIN jobs /\ jobs[work[p].job] \in Jobs
      BY LocalsOf, RowFacts DEF IInv
    <3> QED BY <2>2, <3>1, EndFacts DEF RowsStay
  <2>3. \/ UNCHANGED jobs
        \/ \E status \in {"failed", "retry_wait", "dead_letter"} :
             jobs' = End(jobs, work[p].job, status)
    BY DEF Crash, Fail, FailedStatus
  <2> QED BY <2>1, <2>2, <2>3
<1>3. Kept /\ Len(history') \in Nat
  BY <1>1, EnqueuedIsKept, MissingFacts DEF IInv
<1>4. /\ work'[p].stage = "idle" /\ work'[p].todo = {} /\ work'[p].next = 0
      /\ \A q \in Procs \ {p} : work'[q] = work[q]
  BY <1>1 DEF IInv, TypeOK, Idle
<1> QED BY <1>1, <1>2, <1>3, <1>4, QuietIsCovered

\* Time passes, history is dropped, the user authorizes again: the initial job is
\* the scan from the start that it was.
LEMMA OutsideCover ==
  ASSUME IInv, CoverInv,
         \/ \E j \in DOMAIN jobs : LeaseExpires(j)
         \/ HistoryExpires \/ Reauthorize \/ UNCHANGED vars
  PROVE  CoverInv'
<1>1. UNCHANGED <<history, sourceState, cursor, work>>
  BY DEF LeaseExpires, HistoryExpires, Reauthorize, vars, gmail, index
<1>2. RowsStay /\ DOMAIN jobs' = DOMAIN jobs
  <2>1. CASE UNCHANGED jobs
    BY <2>1 DEF RowsStay
  <2>2. CASE Reauthorize
    BY <2>2, ReauthorizeRows DEF IInv, RootIsScan, RowsStay
  <2> QED BY <2>1, <2>2 DEF LeaseExpires, HistoryExpires, vars
<1>3. Kept /\ Len(history') \in Nat
  BY <1>1, EnqueuedIsKept, MissingFacts DEF IInv
<1> QED BY <1>1, <1>2, <1>3, QuietIsCovered

LEMMA MailboxCover == ASSUME IInv, CoverInv, MailboxChanges PROVE CoverInv'
<1>1. UNCHANGED <<jobs, cursor, work>>
  BY DEF MailboxChanges
<1>2. RowsStay /\ DOMAIN jobs' = DOMAIN jobs
  BY <1>1 DEF RowsStay
<1>3. IInv'
  BY MailboxChangesInv
<1>4. Kept /\ Len(history') \in Nat
  BY <1>3, ChangesKeep, LenProperties DEF IInv, TypeOK
<1> QED BY <1>1, <1>2, <1>4, QuietIsCovered

-----------------------------------------------------------------------------
(* A worker reads and writes.                                               *)

\* A step of a worker that leaves the rows and the cursor alone.
LEMMA StepIsCovered ==
  ASSUME IInv, CoverInv, Kept, UNCHANGED <<history, jobs, cursor>>, NEW p \in Procs,
         \A q \in Procs \ {p} : work'[q] = work[q],
         WorkCovered(p)'
  PROVE  CoverInv'
<1>1. RowsStay /\ Len(history') \in Nat
  BY MissingFacts DEF IInv, RowsStay
<1>2. \A j \in DOMAIN jobs' : RowCovered(j)'
  BY <1>1, RowStaysCovered
<1>3. \A q \in Procs : WorkCovered(q)'
  BY <1>1, WorkStaysCovered DEF SameTask
<1> QED BY <1>2, <1>3, CursorStaysCovered DEF CoverInv

LEMMA LoadCover == ASSUME IInv, CoverInv, NEW p \in Procs, Load(p) PROVE CoverInv'
<1> DEFINE progress == jobs[work[p].job].progress
<1>1. /\ UNCHANGED <<history, sourceState, cursor, jobs>>
      /\ work' = [work EXCEPT
           ![p].stage = "loaded",
           ![p].since = IF Mode(p) = "incremental" /\ progress.history = NoHistory
                          THEN cursor ELSE progress.history]
      /\ work[p].stage = "claimed"
  BY DEF Load, gmail, index, Mode
<1>2. Kept
  BY <1>1, EnqueuedIsKept DEF IInv
<1>3. /\ work'[p].stage = "loaded" /\ work'[p].job = work[p].job
      /\ work'[p].todo = work[p].todo /\ work'[p].next = work[p].next
      /\ work'[p].since = IF Mode(p) = "incremental" /\ progress.history = NoHistory
                            THEN cursor ELSE progress.history
      /\ \A q \in Procs \ {p} : work'[q] = work[q]
  BY <1>1 DEF IInv, TypeOK, Locals
<1>4. Mode(p)' = Mode(p) /\ Token(p)' = Token(p)
  BY <1>1, <1>3 DEF Mode, Token
<1>5. Missing' = Missing
  BY <1>1, MissingStays
<1>6. work[p].todo = {} /\ (Mode(p) = "incremental" => work[p].next <= Len(history))
  BY <1>1 DEF CoverInv, WorkCovered
<1>7. /\ Mode(p) = "full" => work'[p].since = progress.history
      /\ Mode(p) = "incremental" /\ Token(p) = 0 => work'[p].since = cursor
  <2>1. RowCovered(work[p].job)
    BY WorkTypes DEF CoverInv
  <2> QED BY <1>3, <2>1 DEF RowCovered, Token
<1>8. work'[p].since \in Nat /\ Mode(p) = "incremental" /\ Token(p) = 0
        => Missing[work'[p].since] = {}
  BY <1>7 DEF CoverInv, CursorCovered
<1>9. WorkCovered(p)'
  BY <1>1, <1>3, <1>4, <1>5, <1>6, <1>7, <1>8 DEF WorkCovered, Writing
<1> QED BY <1>1, <1>2, <1>3, <1>9, StepIsCovered

LEMMA ReadHistoryIdCover ==
  ASSUME IInv, CoverInv, NEW p \in Procs, ReadHistoryId(p)
  PROVE  CoverInv'
<1>1. /\ UNCHANGED <<history, sourceState, cursor, jobs>>
      /\ work' = [work EXCEPT ![p].since = Len(history)]
      /\ work[p].stage = "loaded" /\ Mode(p) = "full" /\ work[p].since = NoHistory
  BY DEF ReadHistoryId, gmail, index
<1>2. Kept
  BY <1>1, EnqueuedIsKept DEF IInv
<1>3. /\ work'[p].stage = "loaded" /\ work'[p].job = work[p].job
      /\ work'[p].todo = work[p].todo /\ work'[p].next = work[p].next
      /\ \A q \in Procs \ {p} : work'[q] = work[q]
  BY <1>1 DEF IInv, TypeOK, Locals
<1>4. Mode(p)' = "full" /\ Token(p)' = Token(p)
  BY <1>1, <1>3 DEF Mode, Token
<1>5. work[p].todo = {} /\ Token(p) = 0
  <2>1. WorkCovered(p) /\ RowCovered(work[p].job)
    BY WorkTypes DEF CoverInv
  <2> QED BY <1>1, <2>1 DEF WorkCovered, RowCovered, Token
<1>6. WorkCovered(p)'
  BY <1>3, <1>4, <1>5 DEF WorkCovered, Writing
<1> QED BY <1>1, <1>2, <1>3, <1>6, StepIsCovered

LEMMA ListPageCover == ASSUME IInv, CoverInv, NEW p \in Procs, ListPage(p) PROVE CoverInv'
<1> DEFINE rest == {m \in Mail : m > Token(p)}
           page == {m \in rest : Cardinality({k \in rest : k <= m}) <= PageSize}
           next == IF page = rest THEN 0 ELSE CHOOSE m \in page : \A k \in page : k <= m
           since == work[p].since
<1>1. /\ UNCHANGED <<history, sourceState, cursor, jobs>>
      /\ work' = [work EXCEPT ![p].stage = "writing", ![p].todo = page, ![p].seen = page,
                              ![p].next = next]
      /\ work[p].stage = "loaded" /\ Mode(p) = "full" /\ since # NoHistory
  BY DEF ListPage, gmail, index
<1>2. Kept
  BY <1>1, EnqueuedIsKept DEF IInv
<1>3. next \in Nat /\ \A m \in rest : next = 0 \/ m <= next => m \in page
  BY PageFacts DEF IInv
<1>4. since \in 0 .. Len(history) /\ Token(p) \in Nat
  BY <1>1, WorkTypes
<1>5. {m \in Missing[since] : next = 0 \/ m <= next} \subseteq page
  <2> HIDE DEF page, next
  <2> SUFFICES ASSUME NEW m \in Missing[since], next = 0 \/ m <= next
               PROVE  m \in page
    OBVIOUS
  <2>1. m \in Mail /\ m \in Nat \ {0}
    BY <1>4, MissingFacts, GmailSyncAssumption DEF IInv
  <2>2. m > Token(p)
    <3> SUFFICES ASSUME ~(m > Token(p)) PROVE FALSE
      OBVIOUS
    <3>1. Token(p) # 0 /\ m <= Token(p)
      BY <1>4, <2>1
    <3>2. RowCovered(work[p].job) /\ WorkCovered(p)
      BY WorkTypes DEF CoverInv
    <3>3. since = jobs[work[p].job].progress.history
      BY <1>1, <3>1, <3>2 DEF WorkCovered
    <3>4. {k \in Missing[since] : k <= Token(p)} = {}
      BY <1>1, <3>1, <3>2, <3>3 DEF RowCovered, Behind, Mode, Token
    <3> QED BY <3>1, <3>4
  <2> QED BY <1>3, <2>1, <2>2
<1> HIDE DEF page, next
<1>6. /\ work'[p].stage = "writing" /\ work'[p].job = work[p].job
      /\ work'[p].todo = page /\ work'[p].next = next /\ work'[p].since = since
      /\ \A q \in Procs \ {p} : work'[q] = work[q]
  BY <1>1 DEF IInv, TypeOK, Locals
<1>7. Mode(p)' = "full" /\ Token(p)' = Token(p)
      /\ jobs'[work'[p].job].progress = jobs[work[p].job].progress
  BY <1>1, <1>6 DEF Mode, Token
<1>8. Missing' = Missing
  BY <1>1, MissingStays
<1>9. Token(p) # 0 => since = jobs[work[p].job].progress.history
  BY <1>1 DEF CoverInv, WorkCovered
<1>10. Behind(Mode(p), work[p].since, work[p].next)' \subseteq page
  BY <1>5, <1>6, <1>7, <1>8 DEF Behind
<1>11. WorkCovered(p)'
  BY <1>6, <1>7, <1>9, <1>10 DEF WorkCovered
<1> QED BY <1>1, <1>2, <1>6, <1>11, StepIsCovered

LEMMA ListHistoryPageCover ==
  ASSUME IInv, CoverInv, NEW p \in Procs, ListHistoryPage(p)
  PROVE  CoverInv'
<1> DEFINE from == IF Token(p) = 0 THEN work[p].since ELSE Token(p)
           to == IF from + PageSize < Len(history) THEN from + PageSize ELSE Len(history)
           todo == Touched(from, to) \cap Mail
           next == IF to < Len(history) THEN to ELSE 0
           since == IF to < Len(history) THEN work[p].since ELSE Len(history)
<1>1. /\ UNCHANGED <<history, sourceState, cursor, jobs>>
      /\ work' = [work EXCEPT ![p].stage = "writing", ![p].todo = todo,
                              ![p].gone = Touched(from, to) \ Mail,
                              ![p].next = next, ![p].since = since]
      /\ work[p].stage = "loaded" /\ Mode(p) = "incremental" /\ work[p].since # NoHistory
  BY DEF ListHistoryPage, gmail, index
<1>2. Kept
  BY <1>1, EnqueuedIsKept DEF IInv
<1>3. /\ work[p].since \in 0 .. Len(history) /\ Token(p) \in Nat
      /\ Len(history) \in Nat
  BY <1>1, WorkTypes, MissingFacts DEF IInv
<1>4. RowCovered(work[p].job) /\ WorkCovered(p)
  BY WorkTypes DEF CoverInv
<1>5. from \in 0 .. Len(history) /\ Missing[from] = {}
  <2>1. CASE Token(p) = 0
    BY <1>1, <1>3, <1>4, <2>1 DEF WorkCovered
  <2>2. CASE Token(p) # 0
    <3>1. Token(p) <= Len(history)
      BY <1>1, <1>4 DEF RowCovered, Mode, Token
    <3>2. Missing[Token(p)] = {}
      BY <1>1, <1>4, <2>2 DEF RowCovered, Behind, Mode, Token
    <3> QED BY <1>3, <2>2, <3>1, <3>2
  <2> QED BY <2>1, <2>2
<1> HIDE DEF from
<1>6. to \in 0 .. Len(history) /\ from <= to /\ next \in 0 .. Len(history)
  BY <1>3, <1>5, GmailSyncAssumption
<1>7. (IF next = 0 THEN since ELSE next) = to
  BY <1>3, <1>5, GmailSyncAssumption
<1> HIDE DEF to, next, since
<1>8. Missing[to] \subseteq todo
  BY <1>5, <1>6, MissingSplits DEF IInv
<1> HIDE DEF todo
<1>9. /\ work'[p].stage = "writing" /\ work'[p].job = work[p].job
       /\ work'[p].todo = todo /\ work'[p].next = next /\ work'[p].since = since
       /\ \A q \in Procs \ {p} : work'[q] = work[q]
  BY <1>1 DEF IInv, TypeOK, Locals
<1>10. Mode(p)' = "incremental"
  BY <1>1, <1>9 DEF Mode
<1>11. Missing' = Missing
  BY <1>1, MissingStays
<1>12. Behind(Mode(p), work[p].since, work[p].next)' \subseteq todo
  BY <1>7, <1>8, <1>9, <1>10, <1>11 DEF Behind
<1>13. next <= Len(history')
  BY <1>1, <1>6
<1>14. WorkCovered(p)'
  BY <1>9, <1>10, <1>12, <1>13 DEF WorkCovered
<1> QED BY <1>1, <1>2, <1>9, <1>14, StepIsCovered

LEMMA EnqueueCover ==
  ASSUME IInv, CoverInv, NEW p \in Procs, NEW m \in Messages, Enqueue(p, m)
  PROVE  CoverInv'
<1>1. /\ UNCHANGED <<history, cursor, jobs>>
      /\ sourceState' = [sourceState EXCEPT ![m] = "active"]
      /\ work' = [work EXCEPT ![p].todo = @ \ {m}]
  BY DEF Enqueue, gmail
<1>2. /\ sourceState'[m] = "active"
      /\ \A k \in Messages \ {m} : sourceState'[k] = sourceState[k]
  BY <1>1 DEF IInv, TypeOK
<1>3. Kept
  BY <1>1, <1>2, EnqueuedIsKept DEF IInv
<1>4. /\ work'[p].stage = work[p].stage /\ work'[p].job = work[p].job
      /\ work'[p].todo = work[p].todo \ {m} /\ work'[p].next = work[p].next
      /\ work'[p].since = work[p].since
      /\ \A q \in Procs \ {p} : work'[q] = work[q]
  BY <1>1 DEF IInv, TypeOK, Locals
<1>5. Mode(p)' = Mode(p) /\ Token(p)' = Token(p)
      /\ jobs'[work'[p].job].progress = jobs[work[p].job].progress
  BY <1>1, <1>4 DEF Mode, Token
<1>6. \A h \in 0 .. Len(history) : Missing'[h] \subseteq Missing[h] \ {m}
  BY <1>1, <1>2, <1>3 DEF Kept, Missing
<1>7. WorkCovered(p)
  BY DEF CoverInv
<1>8. /\ work[p].next \in Nat /\ Mode(p) \in {"full", "incremental"}
      /\ work[p].stage \in Writing => work[p].since \in 0 .. Len(history)
      /\ work[p].since \in Nat => work[p].since \in 0 .. Len(history)
      /\ Mode(p) = "incremental" => work[p].next <= Len(history)
  BY <1>7, WorkTypes, GmailSyncAssumption DEF WorkCovered
<1>9. ASSUME work[p].stage \in Writing
      PROVE  Behind(Mode(p), work[p].since, work[p].next)' \subseteq work[p].todo \ {m}
  <2>1. /\ Missing'[work[p].since] \subseteq Missing[work[p].since] \ {m}
        /\ Mode(p) = "incremental" => Missing'[work[p].next] \subseteq Missing[work[p].next] \ {m}
    BY <1>6, <1>8, <1>9
  <2> QED BY <1>4, <1>5, <1>7, <1>8, <1>9, <2>1 DEF Behind, WorkCovered
<1>10. ASSUME work[p].since \in Nat, Missing[work[p].since] = {}
       PROVE  Missing'[work[p].since] = {}
  BY <1>6, <1>8, <1>10
<1>11. WorkCovered(p)'
  BY <1>1, <1>4, <1>5, <1>7, <1>9, <1>10 DEF WorkCovered
<1> QED BY <1>1, <1>3, <1>4, <1>11, StepIsCovered

\* A worker whose page is enqueued goes on to mark it, to purge, or to the next
\* tombstone.
LEMMA WrittenCover ==
  ASSUME IInv, CoverInv, UNCHANGED <<history, jobs, cursor>>, NEW p \in Procs,
         \A m \in Messages : sourceState'[m] = "absent" => sourceState[m] = "absent",
         NEW locals, work' = [work EXCEPT ![p] = locals],
         locals.todo = work[p].todo, locals.next = work[p].next,
         locals.since = work[p].since, locals.job = work[p].job,
         \/ locals.stage = work[p].stage
         \/ /\ locals.stage \in {"marked", "reconciled"}
            /\ work[p].stage \in Writing /\ Mode(p) = "full" /\ work[p].todo = {}
  PROVE  CoverInv'
<1>1. Kept /\ Len(history') \in Nat
  BY EnqueuedIsKept, MissingFacts DEF IInv
<1>2. /\ work'[p] = locals
      /\ \A q \in Procs \ {p} : work'[q] = work[q]
  BY DEF IInv, TypeOK
<1>3. CASE locals.stage = work[p].stage
  <2>1. SameTask(p) /\ RowsStay
    BY <1>2, <1>3 DEF SameTask, RowsStay
  <2>2. WorkCovered(p)'
    BY <1>1, <2>1, WorkStaysCovered
  <2> QED BY <1>1, <1>2, <2>2, StepIsCovered
<1>4. CASE /\ locals.stage \in {"marked", "reconciled"}
           /\ work[p].stage \in Writing /\ Mode(p) = "full" /\ work[p].todo = {}
  <2>1. /\ Mode(p)' = "full" /\ Token(p)' = Token(p)
        /\ jobs'[work'[p].job].progress = jobs[work[p].job].progress
    BY <1>2, <1>4 DEF Mode, Token
  <2>2. WorkCovered(p)
    BY DEF CoverInv
  <2>3. work[p].since \in 0 .. Len(history)
    BY <1>4, WorkTypes
  <2>4. Missing'[work[p].since] \subseteq Missing[work[p].since]
    BY <1>1, <2>3 DEF Kept
  <2>5. Behind(Mode(p), work[p].since, work[p].next)' \subseteq {}
    BY <1>2, <1>4, <2>1, <2>2, <2>4 DEF Behind, WorkCovered
  <2>6. WorkCovered(p)'
    BY <1>2, <1>4, <2>1, <2>2, <2>5 DEF WorkCovered, Writing
  <2> QED BY <1>1, <1>2, <2>6, StepIsCovered
<1> QED BY <1>3, <1>4

LEMMA WritingCover ==
  ASSUME IInv, CoverInv, NEW p \in Procs,
         \/ \E m \in Messages : Tombstone(p, m)
         \/ MarkSeen(p)
         \/ Reconcile(p)
  PROVE  CoverInv'
<1>1. UNCHANGED <<history, jobs, cursor>>
  BY DEF Tombstone, MarkSeen, Reconcile, gmail
<1>2. \A m \in Messages : sourceState'[m] = "absent" => sourceState[m] = "absent"
  BY DEF Tombstone, MarkSeen, Reconcile, Purge
<1>3. work[p] \in Locals
  BY WorkTypes
<1>4. CASE \E m \in Messages : Tombstone(p, m)
  <2>1. PICK m \in Messages : work' = [work EXCEPT ![p] = [work[p] EXCEPT !.gone = @ \ {m}]]
    BY <1>4 DEF Tombstone
  <2> DEFINE locals == [work[p] EXCEPT !.gone = @ \ {m}]
  <2>2. /\ locals.todo = work[p].todo /\ locals.next = work[p].next
        /\ locals.since = work[p].since /\ locals.job = work[p].job
        /\ locals.stage = work[p].stage
    BY <1>3 DEF Locals
  <2> HIDE DEF locals
  <2>3. work' = [work EXCEPT ![p] = locals]
    BY <2>1 DEF locals
  <2> QED BY <1>1, <1>2, <2>2, <2>3, WrittenCover
<1>5. ASSUME NEW stage \in {"marked", "reconciled"},
             work' = [work EXCEPT ![p] = [work[p] EXCEPT !.stage = stage]],
             work[p].stage \in Writing, Mode(p) = "full", work[p].todo = {}
      PROVE  CoverInv'
  <2> DEFINE locals == [work[p] EXCEPT !.stage = stage]
  <2>1. /\ locals.todo = work[p].todo /\ locals.next = work[p].next
        /\ locals.since = work[p].since /\ locals.job = work[p].job
        /\ locals.stage = stage
    BY <1>3 DEF Locals
  <2> HIDE DEF locals
  <2>2. work' = [work EXCEPT ![p] = locals]
    BY <1>5 DEF locals
  <2> QED BY <1>1, <1>2, <1>5, <2>1, <2>2, WrittenCover
<1>6. CASE MarkSeen(p)
  <2>1. /\ work' = [work EXCEPT ![p] = [work[p] EXCEPT !.stage = "marked"]]
        /\ work[p].stage \in Writing /\ Mode(p) = "full" /\ work[p].todo = {}
    BY <1>6 DEF MarkSeen, Writing
  <2> QED BY <1>5, <2>1
<1>7. CASE Reconcile(p)
  <2>1. /\ work' = [work EXCEPT ![p] = [work[p] EXCEPT !.stage = "reconciled"]]
        /\ work[p].stage = "marked"
    BY <1>7 DEF Reconcile
  <2>2. /\ work[p].stage \in Writing /\ Mode(p) = "full" /\ work[p].todo = {}
    BY <2>1 DEF CoverInv, WorkCovered, Writing
  <2> QED BY <1>5, <2>1, <2>2
<1> QED BY <1>4, <1>6, <1>7

-----------------------------------------------------------------------------
(* A job ends and schedules another.                                        *)

LEMMA ChildIsCovered ==
  ASSUME IInv, CoverInv, UNCHANGED <<history, sourceState>>,
         NEW p \in Procs, HoldsLease(p), work' = [work EXCEPT ![p] = Idle],
         NEW child, NEW row \in Jobs, NEW status \in {"completed", "failed"},
         jobs' = End(Insert(child, row), work[p].job, status),
         CursorCovered',
         row.progress.history = NoHistory <=> row.progress.token = 0,
         row.mode = "incremental" => row.progress.token <= Len(history),
         row.progress.token # 0
           => Behind(row.mode, row.progress.history, row.progress.token) = {}
  PROVE  CoverInv'
<1>1. /\ RowsStay
      /\ DOMAIN jobs' = DOMAIN jobs \cup {child}
      /\ child \notin DOMAIN jobs => jobs'[child] = row
  BY WorkTypes, EndKeepsRows
<1>2. Kept /\ Len(history') \in Nat /\ Missing' = Missing
  BY EnqueuedIsKept, MissingFacts, MissingStays DEF IInv
<1>3. ASSUME NEW j \in DOMAIN jobs' PROVE RowCovered(j)'
  <2>1. CASE j \in DOMAIN jobs
    BY <1>1, <1>2, <2>1, RowStaysCovered
  <2>2. CASE j \notin DOMAIN jobs
    BY <1>1, <1>2, <1>3, <2>2 DEF RowCovered, Behind
  <2> QED BY <2>1, <2>2
<1>4. ASSUME NEW q \in Procs PROVE WorkCovered(q)'
  <2>1. CASE q = p
    <3>1. work'[p].stage = "idle" /\ work'[p].todo = {} /\ work'[p].next = 0
      BY IdleIsTyped DEF IInv, TypeOK
    <3> QED BY <1>2, <2>1, <3>1, IdleIsCovered
  <2>2. CASE q # p
    <3>1. SameTask(q)
      BY <2>2 DEF IInv, TypeOK, SameTask
    <3> QED BY <1>1, <1>2, <3>1, WorkStaysCovered
  <2> QED BY <2>1, <2>2
<1> QED BY <1>3, <1>4 DEF CoverInv

LEMMA AdvanceCover == ASSUME IInv, CoverInv, NEW p \in Procs, Advance(p) PROVE CoverInv'
<1>1. /\ UNCHANGED <<history, sourceState, cursor>>
      /\ work' = [work EXCEPT ![p] = Idle]
      /\ work[p].stage \in Writing /\ work[p].next # 0
      /\ work[p].todo = {}
  BY DEF Advance, CursorAfterPage, gmail, index, Written, Writing, CoverInv, WorkCovered
<1>2. PICK s \in Steps, row \in Jobs :
        /\ HoldsLease(p) /\ work[p].since \in Nat
        /\ jobs' = End(Insert(Append(work[p].job, s), row), work[p].job, "completed")
        /\ row.mode = Mode(p)
        /\ row.progress.history = work[p].since /\ row.progress.token = work[p].next
  BY AdvanceRow
<1>3. CursorCovered'
  BY <1>1, EnqueuedIsKept, CursorStaysCovered DEF IInv
<1>4. WorkCovered(p)
  BY DEF CoverInv
<1>5. /\ Behind(Mode(p), work[p].since, work[p].next) = {}
      /\ Mode(p) = "incremental" => work[p].next <= Len(history)
  BY <1>1, <1>4 DEF WorkCovered
<1> QED BY <1>1, <1>2, <1>3, <1>5, GmailSyncAssumption, ChildIsCovered

LEMMA CompleteCover == ASSUME IInv, CoverInv, NEW p \in Procs, Complete(p) PROVE CoverInv'
<1>1. /\ UNCHANGED <<history, sourceState>>
      /\ cursor' = work[p].since
      /\ work' = [work EXCEPT ![p] = Idle]
      /\ work[p].stage \in Writing /\ work[p].next = 0
      /\ work[p].todo = {}
  BY DEF Complete, gmail, index, Written, Writing, CoverInv, WorkCovered
<1>2. PICK s \in Steps, row \in Jobs :
        /\ HoldsLease(p) /\ work[p].since \in Nat
        /\ jobs' = End(Insert(Append(work[p].job, s), row), work[p].job, "completed")
        /\ row.progress.history = NoHistory /\ row.progress.token = 0
  BY CompleteRow
<1>3. CursorCovered'
  <2>1. WorkCovered(p)
    BY DEF CoverInv
  <2>2. Behind(Mode(p), work[p].since, 0) = {}
    BY <1>1, <2>1 DEF WorkCovered
  <2>3. Missing[work[p].since] = {}
    BY <2>2, WorkTypes DEF Behind
  <2>4. Missing' = Missing
    BY <1>1, MissingStays
  <2> QED BY <1>1, <2>3, <2>4 DEF CursorCovered
<1>4. 0 <= Len(history)
  BY MissingFacts DEF IInv
<1> QED BY <1>1, <1>2, <1>3, <1>4, ChildIsCovered

LEMMA RecoverFullCover ==
  ASSUME IInv, CoverInv, NEW p \in Procs, RecoverFull(p)
  PROVE  CoverInv'
<1>1. /\ UNCHANGED <<history, sourceState, cursor>>
      /\ work' = [work EXCEPT ![p] = Idle]
  BY DEF RecoverFull, gmail, index
<1>2. PICK s \in Steps, row \in Jobs :
        /\ HoldsLease(p)
        /\ jobs' = End(Insert(Append(work[p].job, s), row), work[p].job, "failed")
        /\ row.progress.history = NoHistory /\ row.progress.token = 0
  BY RecoverFullRow
<1>3. CursorCovered'
  BY <1>1, EnqueuedIsKept, CursorStaysCovered DEF IInv
<1>4. 0 <= Len(history)
  BY MissingFacts DEF IInv
<1> QED BY <1>1, <1>2, <1>3, <1>4, ChildIsCovered

-----------------------------------------------------------------------------
LEMMA InitCover == Init => CoverInv
<1> SUFFICES ASSUME Init PROVE CoverInv
  OBVIOUS
<1>1. IInv
  BY InitInv
<1>2. \A j \in DOMAIN jobs : RowCovered(j)
  <2>1. 0 <= Len(history)
    BY <1>1, MissingFacts DEF IInv
  <2> QED BY <2>1 DEF Init, NewJob, NoProgress, RowCovered
<1>3. \A p \in Procs : WorkCovered(p)
  <2>1. 0 <= Len(history)
    BY <1>1, MissingFacts DEF IInv
  <2> QED BY <2>1, IdleIsTyped DEF Init, WorkCovered, Writing
<1>4. CursorCovered
  BY GmailSyncAssumption DEF Init, CursorCovered
<1> QED BY <1>2, <1>3, <1>4 DEF CoverInv

LEMMA NextCover == ASSUME IInv, CoverInv, [Next]_vars PROVE CoverInv'
<1>1. CASE \/ MailboxChanges \/ HistoryExpires \/ Reauthorize \/ UNCHANGED vars
           \/ \E j \in DOMAIN jobs : LeaseExpires(j)
  BY <1>1, MailboxCover, OutsideCover
<1>2. ASSUME NEW p \in Procs,
             \/ \E j \in DOMAIN jobs : Claim(p, j)
             \/ ClaimNothing(p)
             \/ Load(p)
             \/ ReadHistoryId(p)
             \/ ListPage(p)
             \/ ListHistoryPage(p)
      PROVE  CoverInv'
  BY <1>2, ClaimCover, SweepCover, LoadCover, ReadHistoryIdCover, ListPageCover,
     ListHistoryPageCover
<1>3. ASSUME NEW p \in Procs,
             \/ \E m \in Messages : Enqueue(p, m) \/ Tombstone(p, m)
             \/ MarkSeen(p)
             \/ Reconcile(p)
      PROVE  CoverInv'
  <2>1. CASE \E m \in Messages : Enqueue(p, m)
    BY <2>1, EnqueueCover
  <2>2. CASE ~(\E m \in Messages : Enqueue(p, m))
    BY <1>3, <2>2, WritingCover
  <2> QED BY <2>1, <2>2
<1>4. ASSUME NEW p \in Procs,
             \/ Advance(p)
             \/ Complete(p)
             \/ RecoverFull(p)
             \/ \E retryable, reauthorization \in BOOLEAN : Fail(p, retryable, reauthorization)
             \/ Crash(p)
      PROVE  CoverInv'
  BY <1>4, AdvanceCover, CompleteCover, RecoverFullCover, GivesUpCover
<1> QED BY <1>1, <1>2, <1>3, <1>4 DEF Next

\* Whatever crashes, lapses, repeats and authorizations happen on the way, mail up to
\* the cursor that is still in the mailbox was enqueued once (the order of enqueue,
\* advance and complete in run_once).
THEOREM NeverSkips == Spec => []NeverSkipped
<1>1. Init => IInv /\ CoverInv
  BY InitInv, InitCover
<1>2. (IInv /\ CoverInv) /\ [Next]_vars => (IInv /\ CoverInv)'
  BY NextInv, NextCover
<1>3. IInv /\ CoverInv => NeverSkipped
  <2> SUFFICES ASSUME IInv, CoverInv, cursor # NoHistory,
                      NEW m \in Touched(0, Synced) \cap Mail
               PROVE  sourceState[m] # "absent"
    BY DEF NeverSkipped
  <2>1. cursor \in Nat /\ cursor \in 0 .. Len(history) /\ Synced = cursor
    BY MissingFacts DEF IInv, TypeOK, IdsAreKnown, Synced
  <2>2. Missing[cursor] = {}
    BY <2>1 DEF CoverInv, CursorCovered
  <2> QED BY <2>1, <2>2, MissingFacts DEF IInv
<1> QED BY <1>1, <1>2, <1>3, PTL DEF Spec

-----------------------------------------------------------------------------
(* Mail stays in the index.  As long as no lease lapses under a worker and  *)
(* nobody authorizes again, only the holder of the one live job is at work, *)
(* so a scan purges nothing but what it has not listed.                     *)

Calm == stalls = 0 /\ grants = 0

\* Of the messages touched up to a history id, those that are in the mailbox and not
\* in the index.
Lost == [h \in 0 .. Len(history) |->
           {m \in Touched(0, h) \cap Mail : sourceState[m] # "active"}]

\* What a job that has listed up to token t, or to its end (0), has still to index: a
\* scan what changed before history id h and does not carry its mark, a poll what
\* changed before its position in the history.
Unsafe(mode, h, t, marker) ==
  IF mode = "full"
    THEN {m \in Touched(0, h) \cap Mail :
            /\ t = 0 \/ m <= t
            /\ sourceState[m] # "active" \/ mark[m] # marker}
    ELSE Lost[IF t = 0 THEN h ELSE t]

LeasesHeld == \A p \in Procs : work[p].stage # "idle" => HoldsLease(p)

RowSafe(j) ==
  LET progress == jobs[j].progress
  IN progress.token # 0
       => Unsafe(jobs[j].mode, progress.history, progress.token, progress.marker) = {}

\* What a worker is to tombstone is not in the mailbox, and what its page has to
\* index it has in hand.
WorkSafe(p) ==
  /\ work[p].gone \subseteq Deleted
  /\ work[p].stage = "loaded" /\ Mode(p) = "incremental" /\ Token(p) = 0 /\ work[p].since \in Nat
       => Lost[work[p].since] = {}
  /\ work[p].stage = "writing"
       => Unsafe(Mode(p), work[p].since, work[p].next, Marker(p))
            \subseteq IF Mode(p) = "full" THEN work[p].seen ELSE work[p].todo
  /\ work[p].stage \in {"marked", "reconciled"}
       => Unsafe(Mode(p), work[p].since, work[p].next, Marker(p)) = {}
  /\ work[p].stage = "reconciled" => work[p].next = 0

CursorSafe == cursor \in Nat => Lost[cursor] = {}

Safe ==
  /\ LeasesHeld
  /\ \A j \in Queued : RowSafe(j)
  /\ \A p \in Procs : WorkSafe(p)
  /\ CursorSafe

SafeInv == IInv /\ CoverInv /\ (Calm => Safe)

-----------------------------------------------------------------------------
(* One worker.                                                              *)

\* Whoever is at work has the only queued job.
LEMMA Alone ==
  ASSUME IInv, Calm, LeasesHeld, NEW p \in Procs, work[p].stage # "idle"
  PROVE  /\ HoldsLease(p) /\ Owns(p)
         /\ work[p].job \in Queued
         /\ \A j \in Queued : j = work[p].job
         /\ \A q \in Procs \ {p} : work[q].stage = "idle"
<1>1. HoldsLease(p) /\ Owns(p) /\ work[p].job \in DOMAIN jobs
  BY LocalsOf DEF LeasesHeld, HoldsLease, IInv
<1>2. work[p].job \in Queued
  BY <1>1 DEF Owns, Queued
<1>3. \A j \in Queued : j = work[p].job
  BY <1>2, LiveOne DEF Live, Calm
<1>4. ASSUME NEW q \in Procs \ {p}, work[q].stage # "idle" PROVE FALSE
  <2>1. Owns(q) /\ work[q].job \in DOMAIN jobs
    BY <1>4, LocalsOf DEF LeasesHeld, HoldsLease, IInv
  <2>2. work[q].job = work[p].job
    BY <1>3, <2>1 DEF Owns, Queued
  <2> QED BY <1>1, <1>4, <2>1, <2>2 DEF Owns
<1> QED BY <1>1, <1>2, <1>3, <1>4

\* A step leaves what is in the mailbox and in the index as it is.
IndexKept ==
  \A m \in Mail : sourceState[m] = "active" => sourceState'[m] = "active" /\ mark'[m] = mark[m]

LEMMA UnsafeShrinks ==
  ASSUME TypeOK, MailboxGrows, IndexKept
  PROVE  /\ \A h \in 0 .. Len(history) : Lost'[h] \subseteq Lost[h]
         /\ \A mode, marker : \A h \in 0 .. Len(history), t \in Nat :
              (mode # "full" => t <= Len(history))
              => Unsafe(mode, h, t, marker)' \subseteq Unsafe(mode, h, t, marker)
<1>1. Len(history) \in Nat /\ Len(history) <= Len(history')
  BY MissingFacts DEF MailboxGrows
<1>2. ASSUME NEW h \in 0 .. Len(history) PROVE Lost'[h] \subseteq Lost[h]
  <2>1. h \in 0 .. Len(history')
    BY <1>1, <1>2
  <2>2. Lost'[h] = {m \in Touched(0, h)' \cap Mail' : sourceState'[m] # "active"}
    BY <2>1 DEF Lost
  <2>3. Lost[h] = {m \in Touched(0, h) \cap Mail : sourceState[m] # "active"}
    BY <1>2 DEF Lost
  <2> QED BY <1>2, <2>2, <2>3 DEF MailboxGrows, IndexKept
<1>3. ASSUME NEW mode, NEW marker, NEW h \in 0 .. Len(history), NEW t \in Nat,
             mode # "full" => t <= Len(history)
      PROVE  Unsafe(mode, h, t, marker)' \subseteq Unsafe(mode, h, t, marker)
  <2>1. CASE mode = "full"
    BY <1>3, <2>1 DEF Unsafe, MailboxGrows, IndexKept
  <2>2. CASE mode # "full"
    BY <1>1, <1>2, <1>3, <2>2 DEF Unsafe
  <2> QED BY <2>1, <2>2
<1> QED BY <1>2, <1>3

LEMMA MarkerStays ==
  ASSUME RowsStay, NEW p \in Procs, work[p].job \in DOMAIN jobs, work'[p].job = work[p].job
  PROVE  Mode(p)' = Mode(p) /\ Token(p)' = Token(p) /\ Marker(p)' = Marker(p)
  BY DEF RowsStay, Mode, Token, Marker

LEMMA RowStaysSafe ==
  ASSUME IInv, CoverInv, MailboxGrows, IndexKept, RowsStay, NEW j \in DOMAIN jobs, RowSafe(j)
  PROVE  RowSafe(j)'
<1> DEFINE progress == jobs[j].progress
<1> SUFFICES ASSUME progress.token # 0
             PROVE  Unsafe(jobs[j].mode, progress.history, progress.token, progress.marker)' = {}
  BY DEF RowSafe, RowsStay
<1>1. /\ progress.token \in Nat /\ progress.history \in 0 .. Len(history)
      /\ jobs[j].mode # "full" => progress.token <= Len(history)
  BY RowTypes DEF CoverInv, RowCovered
<1>2. /\ jobs'[j].mode = jobs[j].mode /\ jobs'[j].progress = progress
  BY DEF RowsStay
<1>3. PICK mode, h, token, marker :
        /\ mode = jobs[j].mode /\ h = progress.history /\ token = progress.token
        /\ marker = progress.marker
  OBVIOUS
<1>4. Unsafe(mode, h, token, marker) = {}
  BY <1>3 DEF RowSafe
<1>5. Unsafe(mode, h, token, marker)' = {}
  BY <1>1, <1>3, <1>4, UnsafeShrinks DEF IInv
<1> QED BY <1>2, <1>3, <1>5 DEF Unsafe

\* The worker is where it was: only what it has tombstoned may differ.
LEMMA WorkStaysSafe ==
  ASSUME IInv, CoverInv, MailboxGrows, IndexKept, RowsStay, NEW p \in Procs, WorkSafe(p),
         SameTask(p), work'[p].seen = work[p].seen, work'[p].gone \subseteq work[p].gone
  PROVE  WorkSafe(p)'
<1>1. Mode(p)' = Mode(p) /\ Token(p)' = Token(p) /\ Marker(p)' = Marker(p)
  BY WorkTypes, MarkerStays DEF SameTask
<1>2. /\ work[p].next \in Nat
      /\ work[p].stage \in Writing => work[p].since \in 0 .. Len(history)
      /\ work[p].since \in Nat => work[p].since \in 0 .. Len(history)
      /\ Mode(p) # "full" => work[p].next <= Len(history)
  BY WorkTypes, GmailSyncAssumption DEF CoverInv, WorkCovered
<1>3. ASSUME work[p].stage \in Writing
      PROVE  Unsafe(Mode(p), work[p].since, work[p].next, Marker(p))'
               \subseteq Unsafe(Mode(p), work[p].since, work[p].next, Marker(p))
  <2>1. PICK mode, h, next, marker :
          mode = Mode(p) /\ h = work[p].since /\ next = work[p].next /\ marker = Marker(p)
    OBVIOUS
  <2>2. Unsafe(mode, h, next, marker)' \subseteq Unsafe(mode, h, next, marker)
    BY <1>2, <1>3, <2>1, UnsafeShrinks DEF IInv
  <2> QED BY <1>1, <2>1, <2>2 DEF Unsafe, SameTask
<1>4. work[p].since \in Nat => Lost'[work[p].since] \subseteq Lost[work[p].since]
  BY <1>2, UnsafeShrinks DEF IInv
<1>5. work'[p].gone \subseteq Deleted'
  BY DEF MailboxGrows, WorkSafe
<1> QED BY <1>1, <1>3, <1>4, <1>5 DEF WorkSafe, SameTask, Writing

LEMMA CursorStaysSafe ==
  ASSUME IInv, MailboxGrows, IndexKept, UNCHANGED cursor, CursorSafe
  PROVE  CursorSafe'
  BY UnsafeShrinks, MissingFacts DEF IInv, IdsAreKnown, CursorSafe

\* Steps that schedule nothing, list nothing and write nothing.
LEMMA QuietIsSafe ==
  ASSUME IInv, CoverInv, Safe, MailboxGrows, IndexKept, RowsStay, Queued' \subseteq Queued,
         UNCHANGED cursor, LeasesHeld',
         \A p \in Procs : \/ work'[p] = work[p]
                          \/ work'[p].stage \in {"idle", "claimed"} /\ work'[p].gone = {}
  PROVE  Safe'
<1>1. \A j \in Queued' : RowSafe(j)'
  BY RowStaysSafe DEF Safe, Queued
<1>2. ASSUME NEW p \in Procs PROVE WorkSafe(p)'
  <2>1. CASE work'[p] = work[p]
    BY <2>1, WorkStaysSafe DEF Safe, SameTask
  <2>2. CASE work'[p].stage \in {"idle", "claimed"} /\ work'[p].gone = {}
    BY <2>2 DEF WorkSafe
  <2> QED BY <1>2, <2>1, <2>2
<1>3. CursorSafe'
  BY CursorStaysSafe DEF Safe
<1> QED BY <1>1, <1>2, <1>3 DEF Safe

\* A step of a worker that leaves the rows and the cursor alone.
LEMMA StepIsSafe ==
  ASSUME IInv, CoverInv, Safe, IndexKept, UNCHANGED <<history, jobs, lapsed, cursor>>,
         NEW p \in Procs, work[p].stage # "idle", work'[p].job = work[p].job,
         \A q \in Procs \ {p} : work'[q] = work[q],
         WorkSafe(p)'
  PROVE  Safe'
<1>1. MailboxGrows /\ RowsStay
  BY MailboxStays DEF RowsStay
<1>2. \A j \in Queued' : RowSafe(j)'
  BY <1>1, RowStaysSafe DEF Safe, Queued
<1>3. \A q \in Procs : WorkSafe(q)'
  BY <1>1, WorkStaysSafe DEF Safe, SameTask
<1>4. LeasesHeld'
  BY DEF Safe, LeasesHeld, HoldsLease, Owns
<1> QED BY <1>1, <1>2, <1>3, <1>4, CursorStaysSafe DEF Safe

-----------------------------------------------------------------------------
(* The quiet steps.                                                         *)

LEMMA IndexStays == ASSUME UNCHANGED <<sourceState, mark>> PROVE IndexKept
  BY DEF IndexKept

\* A job that is held is not swept, and one that is claimed was held by nobody.
LEMMA ClaimSafe ==
  ASSUME IInv, CoverInv, Calm, Safe, NEW p \in Procs,
         ClaimNothing(p) \/ \E j \in DOMAIN jobs : Claim(p, j)
  PROVE  Safe'
<1>1. /\ UNCHANGED <<history, sourceState, mark, cursor>>
      /\ work[p].stage = "idle"
      /\ lapsed' \subseteq lapsed
  BY DEF ClaimNothing, Claim, gmail, index
<1>2. MailboxGrows /\ IndexKept
  BY <1>1, MailboxStays, IndexStays
<1>3. ASSUME NEW q \in Procs, work[q].stage # "idle"
      PROVE  /\ work[q].job \in DOMAIN jobs /\ Owns(q) /\ work[q].job \notin lapsed
             /\ Swept[work[q].job] = jobs[work[q].job]
             /\ \A j \in Queued : j = work[q].job
  BY <1>3, Alone, SweptFacts, WorkTypes DEF Safe, HoldsLease, Exhausted, IInv
<1>4. CASE ClaimNothing(p)
  <2>1. jobs' = Swept /\ UNCHANGED work
    BY <1>4 DEF ClaimNothing
  <2>2. RowsStay
    BY <2>1, SweptFacts DEF IInv, RowsStay
  <2>3. Queued' \subseteq Queued
    BY <2>1, SweptFacts DEF IInv, Queued
  <2>4. LeasesHeld'
    BY <1>1, <1>3, <2>1 DEF LeasesHeld, HoldsLease, Owns
  <2> QED BY <1>1, <1>2, <2>1, <2>2, <2>3, <2>4, QuietIsSafe
<1>5. ASSUME NEW j \in DOMAIN jobs, Claim(p, j)
      PROVE  Safe'
  <2>1. /\ jobs' = [Swept EXCEPT ![j].status = "leased", ![j].owner = p, ![j].attempts = @ + 1]
        /\ lapsed' = {i \in lapsed : ~Exhausted(i)} \ {j}
        /\ work' = [work EXCEPT ![p] = [Idle EXCEPT !.stage = "claimed", !.job = j]]
        /\ Runnable(j)
    BY <1>5 DEF Claim
  <2>2. j \in Queued /\ (jobs[j].status # "leased" \/ j \in lapsed)
    BY <2>1, RowFacts DEF Runnable, Queued, IInv
  <2>3. \A q \in Procs : work[q].stage = "idle"
    BY <1>3, <2>2 DEF Owns
  <2>4. /\ DOMAIN jobs' = DOMAIN jobs
        /\ \A i \in DOMAIN jobs \ {j} : jobs'[i] = Swept[i]
        /\ jobs'[j] = [Swept[j] EXCEPT !.status = "leased", !.owner = p, !.attempts = @ + 1]
        /\ Swept[j] \in Jobs
    BY <2>1, SweptFacts DEF IInv
  <2>5. jobs'[j].mode = Swept[j].mode /\ jobs'[j].progress = Swept[j].progress
        /\ jobs'[j].status = "leased" /\ jobs'[j].owner = p
    BY <2>4 DEF Jobs
  <2>6. RowsStay
    BY <2>4, <2>5, SweptFacts DEF IInv, RowsStay
  <2>7. Queued' \subseteq Queued
    BY <2>2, <2>4, SweptFacts DEF IInv, Queued
  <2>8. /\ work'[p].stage = "claimed" /\ work'[p].gone = {} /\ work'[p].job = j
        /\ \A q \in Procs \ {p} : work'[q] = work[q]
    BY <2>1 DEF IInv, TypeOK, Idle
  <2>9. LeasesHeld'
    <3>1. Owns(p)'
      BY <2>5, <2>8 DEF Owns
    <3>2. HoldsLease(p)'
      BY <2>1, <2>8, <3>1 DEF HoldsLease
    <3> QED BY <2>3, <2>8, <3>2 DEF LeasesHeld
  <2> QED BY <1>1, <1>2, <2>6, <2>7, <2>8, <2>9, QuietIsSafe
<1> QED BY <1>4, <1>5

\* A process ends, or its job fails.
LEMMA GivesUpSafe ==
  ASSUME IInv, CoverInv, Calm, Safe, NEW p \in Procs,
         Crash(p) \/ \E retryable, reauthorization \in BOOLEAN : Fail(p, retryable, reauthorization)
  PROVE  Safe'
<1>1. /\ UNCHANGED <<history, sourceState, mark, cursor>>
      /\ work' = [work EXCEPT ![p] = Idle]
      /\ work[p].stage # "idle"
  BY DEF Crash, Fail, gmail, index
<1>2. MailboxGrows /\ IndexKept
  BY <1>1, MailboxStays, IndexStays
<1>3. work[p].job \in DOMAIN jobs /\ jobs[work[p].job] \in Jobs /\ work[p].job \in Queued
  BY <1>1, LocalsOf, RowFacts, Alone DEF IInv, Safe
<1>4. RowsStay /\ Queued' \subseteq Queued
  <2>1. CASE UNCHANGED jobs
    BY <2>1 DEF RowsStay, Queued
  <2>2. ASSUME NEW status \in {"failed", "retry_wait", "dead_letter"},
               jobs' = End(jobs, work[p].job, status)
        PROVE  RowsStay /\ Queued' \subseteq Queued
    BY <1>3, <2>2, EndFacts DEF RowsStay, Queued
  <2> QED BY <2>1, <2>2 DEF Crash, Fail, FailedStatus
<1>5. /\ work'[p].stage = "idle" /\ work'[p].gone = {}
      /\ \A q \in Procs \ {p} : work'[q] = work[q]
  BY <1>1 DEF IInv, TypeOK, Idle
<1>6. LeasesHeld'
  BY <1>1, <1>5, Alone DEF LeasesHeld, Safe
<1> QED BY <1>1, <1>2, <1>4, <1>5, <1>6, QuietIsSafe

\* A lease lapses when nobody works under it, history is dropped, mail changes.
LEMMA OutsideSafe ==
  ASSUME IInv, CoverInv, Calm, Calm', Safe,
         \/ \E j \in DOMAIN jobs : LeaseExpires(j)
         \/ MailboxChanges \/ HistoryExpires \/ Reauthorize \/ UNCHANGED vars
  PROVE  Safe'
<1>1. ~Reauthorize
  BY DEF Reauthorize, Calm
<1>2. UNCHANGED <<sourceState, mark, cursor, jobs, work>>
  BY <1>1 DEF LeaseExpires, MailboxChanges, HistoryExpires, vars, gmail, index
<1>3. IndexKept /\ RowsStay /\ Queued' \subseteq Queued
  BY <1>2, IndexStays DEF RowsStay, Queued
<1>4. MailboxGrows
  <2>1. CASE MailboxChanges
    BY <2>1, MailboxChangesGrow DEF IInv
  <2>2. CASE UNCHANGED history
    BY <2>2, MailboxStays
  <2> QED BY <1>1, <2>1, <2>2 DEF LeaseExpires, HistoryExpires, vars, gmail
<1>5. LeasesHeld'
  <2>1. CASE UNCHANGED lapsed
    BY <1>2, <2>1 DEF Safe, LeasesHeld, HoldsLease, Owns
  <2>2. ASSUME NEW j \in DOMAIN jobs, LeaseExpires(j) PROVE LeasesHeld'
    <3>1. ~Working(j) /\ lapsed' = lapsed \cup {j}
      BY <2>2 DEF LeaseExpires, Calm, IInv, TypeOK
    <3>2. \A q \in Procs : work[q].stage # "idle" => work[q].job # j
      BY <3>1 DEF Working, Safe, LeasesHeld, HoldsLease
    <3> QED BY <1>2, <3>1, <3>2 DEF Safe, LeasesHeld, HoldsLease, Owns
  <2> QED BY <1>1, <2>1, <2>2 DEF MailboxChanges, HistoryExpires, vars
<1> QED BY <1>2, <1>3, <1>4, <1>5, QuietIsSafe

-----------------------------------------------------------------------------
(* A worker reads and writes.                                               *)

\* What a worker at work has of its job, after a step that leaves the rows alone.
LEMMA TaskStays ==
  ASSUME IInv, UNCHANGED <<history, jobs>>, NEW p \in Procs, work'[p].job = work[p].job
  PROVE  /\ Mode(p)' = Mode(p) /\ Token(p)' = Token(p) /\ Marker(p)' = Marker(p)
         /\ Mail' = Mail /\ Deleted' = Deleted /\ \A h : Touched(0, h)' = Touched(0, h)
<1>1. RowsStay
  BY DEF RowsStay
<1> QED BY <1>1, MarkerStays, MailboxStays, WorkTypes DEF Touched

LEMMA LostStays == ASSUME UNCHANGED <<history, sourceState>> PROVE Lost' = Lost
<1>1. Mail' = Mail
  BY MailboxStays
<1>2. \A h : Touched(0, h)' = Touched(0, h)
  BY DEF Touched
<1> QED BY <1>1, <1>2 DEF Lost

LEMMA LoadSafe == ASSUME IInv, CoverInv, Calm, Safe, NEW p \in Procs, Load(p) PROVE Safe'
<1> DEFINE progress == jobs[work[p].job].progress
<1>1. /\ UNCHANGED <<history, sourceState, mark, cursor, jobs, lapsed>>
      /\ work' = [work EXCEPT
           ![p].stage = "loaded",
           ![p].since = IF Mode(p) = "incremental" /\ progress.history = NoHistory
                          THEN cursor ELSE progress.history]
      /\ work[p].stage = "claimed"
  BY DEF Load, gmail, index, Mode
<1>2. /\ work'[p].stage = "loaded" /\ work'[p].job = work[p].job
      /\ work'[p].gone = work[p].gone
      /\ work'[p].since = IF Mode(p) = "incremental" /\ progress.history = NoHistory
                            THEN cursor ELSE progress.history
      /\ \A q \in Procs \ {p} : work'[q] = work[q]
  BY <1>1 DEF IInv, TypeOK, Locals
<1>3. /\ Mode(p)' = Mode(p) /\ Token(p)' = Token(p) /\ Deleted' = Deleted
      /\ Lost' = Lost
  BY <1>1, <1>2, TaskStays, LostStays
<1>4. Mode(p) = "incremental" /\ Token(p) = 0 => work'[p].since = cursor
  <2>1. RowCovered(work[p].job)
    BY WorkTypes DEF CoverInv
  <2> QED BY <1>2, <2>1 DEF RowCovered, Token
<1>5. WorkSafe(p)'
  BY <1>1, <1>2, <1>3, <1>4 DEF WorkSafe, Safe, CursorSafe
<1> QED BY <1>1, <1>2, <1>5, IndexStays, StepIsSafe

LEMMA ReadHistoryIdSafe ==
  ASSUME IInv, CoverInv, Calm, Safe, NEW p \in Procs, ReadHistoryId(p)
  PROVE  Safe'
<1>1. /\ UNCHANGED <<history, sourceState, mark, cursor, jobs, lapsed>>
      /\ work' = [work EXCEPT ![p].since = Len(history)]
      /\ work[p].stage = "loaded" /\ Mode(p) = "full"
  BY DEF ReadHistoryId, gmail, index
<1>2. /\ work'[p].stage = "loaded" /\ work'[p].job = work[p].job
      /\ work'[p].gone = work[p].gone
      /\ \A q \in Procs \ {p} : work'[q] = work[q]
  BY <1>1 DEF IInv, TypeOK, Locals
<1>3. Mode(p)' = "full" /\ Deleted' = Deleted
  BY <1>1, <1>2, TaskStays
<1>4. WorkSafe(p)'
  BY <1>2, <1>3 DEF WorkSafe, Safe
<1> QED BY <1>1, <1>2, <1>4, IndexStays, StepIsSafe

LEMMA ListPageSafe ==
  ASSUME IInv, CoverInv, Calm, Safe, NEW p \in Procs, ListPage(p)
  PROVE  Safe'
<1> DEFINE rest == {m \in Mail : m > Token(p)}
           page == {m \in rest : Cardinality({k \in rest : k <= m}) <= PageSize}
           next == IF page = rest THEN 0 ELSE CHOOSE m \in page : \A k \in page : k <= m
           since == work[p].since
<1>1. /\ UNCHANGED <<history, sourceState, mark, cursor, jobs, lapsed>>
      /\ work' = [work EXCEPT ![p].stage = "writing", ![p].todo = page, ![p].seen = page,
                              ![p].next = next]
      /\ work[p].stage = "loaded" /\ Mode(p) = "full" /\ since # NoHistory
  BY DEF ListPage, gmail, index
<1>2. next \in Nat /\ \A m \in rest : next = 0 \/ m <= next => m \in page
  BY PageFacts DEF IInv
<1>3. since \in 0 .. Len(history) /\ Token(p) \in Nat
  BY <1>1, WorkTypes
<1>4. {m \in Touched(0, since) \cap Mail :
         /\ next = 0 \/ m <= next
         /\ sourceState[m] # "active" \/ mark[m] # Marker(p)} \subseteq page
  <2> HIDE DEF page, next
  <2> SUFFICES ASSUME NEW m \in Touched(0, since) \cap Mail, next = 0 \/ m <= next,
                      sourceState[m] # "active" \/ mark[m] # Marker(p)
               PROVE  m \in page
    OBVIOUS
  <2>1. m \in Mail /\ m \in Nat \ {0}
    BY MailIsMessages, GmailSyncAssumption DEF IInv
  <2>2. m > Token(p)
    <3> SUFFICES ASSUME ~(m > Token(p)) PROVE FALSE
      OBVIOUS
    <3>1. Token(p) # 0 /\ m <= Token(p)
      BY <1>3, <2>1
    <3>2. RowCovered(work[p].job) /\ WorkCovered(p)
      BY WorkTypes DEF CoverInv
    <3>3. /\ since = jobs[work[p].job].progress.history
          /\ Marker(p) = jobs[work[p].job].progress.marker
      BY <1>1, <3>1, <3>2 DEF WorkCovered, RowCovered, Marker, Token
    <3>4. RowSafe(work[p].job)
      BY <1>1, Alone DEF Safe
    <3> QED BY <1>1, <3>1, <3>3, <3>4 DEF RowSafe, Unsafe, Mode, Token
  <2> QED BY <1>2, <2>1, <2>2
<1> HIDE DEF page, next
<1>5. /\ work'[p].stage = "writing" /\ work'[p].job = work[p].job
      /\ work'[p].seen = page /\ work'[p].next = next /\ work'[p].since = since
      /\ work'[p].gone = work[p].gone
      /\ \A q \in Procs \ {p} : work'[q] = work[q]
  BY <1>1 DEF IInv, TypeOK, Locals
<1>6. /\ Mode(p)' = "full" /\ Marker(p)' = Marker(p) /\ Mail' = Mail /\ Deleted' = Deleted
      /\ Touched(0, since)' = Touched(0, since)
  BY <1>1, <1>5, TaskStays
<1>7. Unsafe(Mode(p), work[p].since, work[p].next, Marker(p))' \subseteq page
  BY <1>1, <1>4, <1>5, <1>6 DEF Unsafe
<1>8. WorkSafe(p)'
  BY <1>5, <1>6, <1>7 DEF WorkSafe, Safe
<1> QED BY <1>1, <1>5, <1>8, IndexStays, StepIsSafe

LEMMA ListHistoryPageSafe ==
  ASSUME IInv, CoverInv, Calm, Safe, NEW p \in Procs, ListHistoryPage(p)
  PROVE  Safe'
<1> DEFINE from == IF Token(p) = 0 THEN work[p].since ELSE Token(p)
           to == IF from + PageSize < Len(history) THEN from + PageSize ELSE Len(history)
           todo == Touched(from, to) \cap Mail
           gone == Touched(from, to) \ Mail
           next == IF to < Len(history) THEN to ELSE 0
           since == IF to < Len(history) THEN work[p].since ELSE Len(history)
<1>1. /\ UNCHANGED <<history, sourceState, mark, cursor, jobs, lapsed>>
      /\ work' = [work EXCEPT ![p].stage = "writing", ![p].todo = todo, ![p].gone = gone,
                              ![p].next = next, ![p].since = since]
      /\ work[p].stage = "loaded" /\ Mode(p) = "incremental" /\ work[p].since # NoHistory
  BY DEF ListHistoryPage, gmail, index
<1>2. /\ work[p].since \in 0 .. Len(history) /\ Token(p) \in Nat
      /\ Len(history) \in Nat
  BY <1>1, WorkTypes, MissingFacts DEF IInv
<1>3. RowCovered(work[p].job) /\ RowSafe(work[p].job) /\ WorkSafe(p)
  BY <1>1, WorkTypes, Alone DEF CoverInv, Safe
<1>4. from \in 0 .. Len(history) /\ Lost[from] = {}
  <2>1. CASE Token(p) = 0
    BY <1>1, <1>2, <1>3, <2>1 DEF WorkSafe
  <2>2. CASE Token(p) # 0
    <3>1. Token(p) <= Len(history)
      BY <1>1, <1>3 DEF RowCovered, Mode, Token
    <3>2. Lost[Token(p)] = {}
      BY <1>1, <1>3, <2>2 DEF RowSafe, Unsafe, Mode, Token
    <3> QED BY <1>2, <2>2, <3>1, <3>2
  <2> QED BY <2>1, <2>2
<1> HIDE DEF from
<1>5. to \in 0 .. Len(history) /\ from <= to
  BY <1>2, <1>4, GmailSyncAssumption
<1>6. (IF next = 0 THEN since ELSE next) = to
  BY <1>2, <1>4, GmailSyncAssumption
<1> HIDE DEF to, next, since
<1>7. Lost[to] \subseteq todo
  <2>1. Touched(0, to) \subseteq Touched(0, from) \cup Touched(from, to)
    BY <1>4, <1>5 DEF Touched
  <2>2. Lost[to] = {m \in Touched(0, to) \cap Mail : sourceState[m] # "active"}
    BY <1>5 DEF Lost
  <2>3. Lost[from] = {m \in Touched(0, from) \cap Mail : sourceState[m] # "active"}
    BY <1>4 DEF Lost
  <2> QED BY <1>4, <2>1, <2>2, <2>3
<1>8. gone \subseteq Deleted
  <2>1. Touched(from, to) \subseteq Touched(0, Len(history)) /\ Touched(from, to) \subseteq Messages
    BY <1>2, <1>4, <1>5, TouchedIsMessages DEF Touched, IInv
  <2> QED BY <2>1 DEF Mail
<1> HIDE DEF todo, gone
<1>9. /\ work'[p].stage = "writing" /\ work'[p].job = work[p].job
      /\ work'[p].todo = todo /\ work'[p].next = next /\ work'[p].since = since
      /\ work'[p].gone = gone
      /\ \A q \in Procs \ {p} : work'[q] = work[q]
  BY <1>1 DEF IInv, TypeOK, Locals
<1>10. Mode(p)' = "incremental" /\ Deleted' = Deleted /\ Lost' = Lost
  BY <1>1, <1>9, TaskStays, LostStays
<1>11. Unsafe(Mode(p), work[p].since, work[p].next, Marker(p))' \subseteq todo
  BY <1>6, <1>7, <1>9, <1>10 DEF Unsafe
<1>12. WorkSafe(p)'
  BY <1>8, <1>9, <1>10, <1>11 DEF WorkSafe
<1> QED BY <1>1, <1>9, <1>12, IndexStays, StepIsSafe

LEMMA EnqueueSafe ==
  ASSUME IInv, CoverInv, Calm, Safe, NEW p \in Procs, NEW m \in Messages, Enqueue(p, m)
  PROVE  Safe'
<1>1. /\ UNCHANGED <<history, mark, cursor, jobs, lapsed>>
      /\ sourceState' = [sourceState EXCEPT ![m] = "active"]
      /\ work' = [work EXCEPT ![p].todo = @ \ {m}]
      /\ m \in work[p].todo
  BY DEF Enqueue, gmail
<1>2. /\ sourceState'[m] = "active"
      /\ \A k \in Messages \ {m} : sourceState'[k] = sourceState[k]
  BY <1>1 DEF IInv, TypeOK
<1>3. IndexKept
  BY <1>1, <1>2, MailIsMessages DEF IndexKept, IInv
<1>4. /\ work'[p].stage = work[p].stage /\ work'[p].job = work[p].job
      /\ work'[p].todo = work[p].todo \ {m} /\ work'[p].next = work[p].next
      /\ work'[p].since = work[p].since /\ work'[p].seen = work[p].seen
      /\ work'[p].gone = work[p].gone
      /\ \A q \in Procs \ {p} : work'[q] = work[q]
  BY <1>1 DEF IInv, TypeOK, Locals
<1>5. work[p].stage = "writing"
  BY <1>1 DEF CoverInv, WorkCovered
<1>6. /\ Mode(p)' = Mode(p) /\ Marker(p)' = Marker(p) /\ Mail' = Mail /\ Deleted' = Deleted
      /\ \A h : Touched(0, h)' = Touched(0, h)
  BY <1>1, <1>4, TaskStays
<1>7. WorkSafe(p) /\ WorkCovered(p)
  BY DEF Safe, CoverInv
<1> DEFINE unsafe == Unsafe(Mode(p), work[p].since, work[p].next, Marker(p))
<1>8. Mode(p) = "full" => unsafe' \subseteq work[p].seen
  BY <1>1, <1>2, <1>4, <1>5, <1>6, <1>7, MailIsMessages DEF WorkSafe, Unsafe, IInv
<1>9. ASSUME Mode(p) # "full" PROVE unsafe' \subseteq work[p].todo \ {m}
  <2> DEFINE to == IF work[p].next = 0 THEN work[p].since ELSE work[p].next
  <2>1. to \in 0 .. Len(history)
    BY <1>5, <1>7, <1>9, WorkTypes DEF WorkCovered, Writing
  <2>2. Lost[to] \subseteq work[p].todo /\ unsafe' = Lost'[to]
    BY <1>4, <1>5, <1>6, <1>7, <1>9 DEF WorkSafe, Unsafe
  <2> HIDE DEF to
  <2>3. Lost[to] = {k \in Touched(0, to) \cap Mail : sourceState[k] # "active"}
    BY <2>1 DEF Lost
  <2>4. Lost'[to] = {k \in Touched(0, to) \cap Mail : sourceState'[k] # "active"}
    BY <1>1, <1>6, <2>1 DEF Lost
  <2> QED BY <1>2, <2>2, <2>3, <2>4, MailIsMessages DEF IInv
<1>10. WorkSafe(p)'
  BY <1>4, <1>5, <1>6, <1>7, <1>8, <1>9 DEF WorkSafe
<1> QED BY <1>1, <1>3, <1>4, <1>5, <1>10, StepIsSafe

\* What is tombstoned was deleted in Gmail.
LEMMA TombstoneSafe ==
  ASSUME IInv, CoverInv, Calm, Safe, NEW p \in Procs, NEW m \in Messages, Tombstone(p, m)
  PROVE  Safe'
<1>1. /\ UNCHANGED <<history, cursor, jobs, lapsed>>
      /\ Purge({m} \cap {k \in Messages : sourceState[k] = "active"})
      /\ work' = [work EXCEPT ![p] = [work[p] EXCEPT !.gone = @ \ {m}]]
      /\ m \in work[p].gone
  BY DEF Tombstone, gmail
<1>2. WorkSafe(p)
  BY DEF Safe
<1>3. m \notin Mail
  BY <1>1, <1>2 DEF WorkSafe, Mail
<1>4. \A k \in Mail : sourceState'[k] = sourceState[k] /\ mark'[k] = mark[k]
  BY <1>1, <1>3, MailIsMessages DEF Purge, IInv
<1>5. IndexKept
  BY <1>4 DEF IndexKept
<1>6. /\ SameTask(p) /\ work'[p].seen = work[p].seen
      /\ work'[p].gone \subseteq work[p].gone
      /\ \A q \in Procs \ {p} : work'[q] = work[q]
  BY <1>1 DEF IInv, TypeOK, Locals, SameTask
<1>7. MailboxGrows /\ RowsStay /\ Queued' = Queued
  BY <1>1, MailboxStays DEF RowsStay, Queued
<1>8. WorkSafe(p)'
  BY <1>2, <1>5, <1>6, <1>7, WorkStaysSafe
<1>9. \A q \in Procs \ {p} : WorkSafe(q)'
  BY <1>5, <1>6, <1>7, WorkStaysSafe DEF Safe, SameTask
<1>10. LeasesHeld'
  BY <1>1, <1>6 DEF Safe, LeasesHeld, HoldsLease, Owns, SameTask
<1> QED BY <1>1, <1>5, <1>7, <1>8, <1>9, <1>10, RowStaysSafe, CursorStaysSafe DEF Safe, Queued

\* A step of the scan at work that keeps what the scan and the cursor have behind them.
LEMMA ScanIsSafe ==
  ASSUME IInv, CoverInv, Calm, Safe, UNCHANGED <<history, jobs, lapsed, cursor>>,
         NEW p \in Procs, work[p].stage \in Writing, Mode(p) = "full",
         NEW stage \in {"marked", "reconciled"}, work' = [work EXCEPT ![p].stage = stage],
         stage = "reconciled" => work[p].next = 0,
         Token(p) # 0 => Unsafe("full", work[p].since, Token(p), Marker(p))' = {},
         Unsafe("full", work[p].since, work[p].next, Marker(p))' = {},
         CursorSafe'
  PROVE  Safe'
<1>1. /\ work'[p].stage = stage /\ work'[p].job = work[p].job
      /\ work'[p].next = work[p].next /\ work'[p].since = work[p].since
      /\ work'[p].gone = work[p].gone
      /\ \A q \in Procs \ {p} : work'[q] = work[q]
  BY DEF IInv, TypeOK, Locals
<1>2. /\ Mode(p)' = "full" /\ Token(p)' = Token(p) /\ Marker(p)' = Marker(p)
      /\ Deleted' = Deleted
  BY <1>1, TaskStays
<1>3. /\ \A j \in Queued : j = work[p].job
      /\ \A q \in Procs \ {p} : work[q].stage = "idle"
      /\ HoldsLease(p) /\ work[p].job \in DOMAIN jobs
  BY Alone, WorkTypes DEF Safe, Writing
<1>4. WorkSafe(p)'
  BY <1>1, <1>2 DEF WorkSafe, Safe
<1>5. \A q \in Procs \ {p} : WorkSafe(q)'
  BY <1>1, <1>2, <1>3 DEF WorkSafe, Safe
<1>6. ASSUME NEW j \in Queued' PROVE RowSafe(j)'
  <2>1. j = work[p].job
    BY <1>3, <1>6 DEF Queued
  <2> SUFFICES ASSUME Token(p) # 0 PROVE RowSafe(j)'
    BY <2>1 DEF RowSafe, Token
  <2>2. RowCovered(j) /\ WorkCovered(p)
    BY <1>3, <2>1 DEF CoverInv
  <2>3. /\ jobs[j].mode = "full" /\ jobs[j].progress.history = work[p].since
        /\ jobs[j].progress.token = Token(p) /\ jobs[j].progress.marker = Marker(p)
    BY <2>1, <2>2, WorkTypes, GmailSyncAssumption
    DEF RowCovered, WorkCovered, Marker, Mode, Token
  <2>4. jobs'[j] = jobs[j]
    OBVIOUS
  <2> QED BY <1>1, <1>2, <2>3, <2>4 DEF RowSafe, Unsafe
<1>7. LeasesHeld'
  BY <1>1, <1>3 DEF LeasesHeld, HoldsLease, Owns
<1> QED BY <1>4, <1>5, <1>6, <1>7 DEF Safe

\* A page is marked when all of it is in the index.
LEMMA MarkSeenSafe ==
  ASSUME IInv, CoverInv, Calm, Safe, NEW p \in Procs, MarkSeen(p)
  PROVE  Safe'
<1>1. /\ UNCHANGED <<history, sourceState, cursor, jobs, lapsed>>
      /\ work[p].stage = "writing" /\ Mode(p) = "full"
      /\ \A m \in work[p].seen : sourceState[m] = "active"
      /\ mark' = [m \in Messages |-> IF m \in work[p].seen THEN Marker(p) ELSE mark[m]]
      /\ work' = [work EXCEPT ![p].stage = "marked"]
  BY DEF MarkSeen, Marked, gmail
<1>2. work'[p].job = work[p].job /\ work'[p].since = work[p].since /\ work'[p].next = work[p].next
  BY <1>1 DEF IInv, TypeOK, Locals
<1>3. /\ Token(p)' = Token(p) /\ Marker(p)' = Marker(p) /\ Mail' = Mail
      /\ \A h : Touched(0, h)' = Touched(0, h)
  BY <1>1, <1>2, TaskStays
<1>4. \A m \in Mail : /\ mark[m] = Marker(p) => mark'[m] = Marker(p)
                      /\ m \in work[p].seen => mark'[m] = Marker(p)
  BY <1>1, MailIsMessages DEF IInv
<1>5. WorkSafe(p)
  BY DEF Safe
<1>6. Unsafe("full", work[p].since, work[p].next, Marker(p))' = {}
  BY <1>1, <1>2, <1>3, <1>4, <1>5 DEF WorkSafe, Unsafe
<1>7. ASSUME Token(p) # 0
      PROVE  Unsafe("full", work[p].since, Token(p), Marker(p))' = {}
  <2>1. RowSafe(work[p].job) /\ RowCovered(work[p].job) /\ WorkCovered(p)
    BY <1>1, Alone, WorkTypes DEF Safe, CoverInv
  <2>2. Unsafe("full", work[p].since, Token(p), Marker(p)) = {}
    BY <1>1, <1>7, <2>1 DEF RowSafe, RowCovered, WorkCovered, Marker, Mode, Token, Writing
  <2> QED BY <1>1, <1>2, <1>3, <1>4, <2>2 DEF Unsafe
<1>8. CursorSafe'
  BY <1>1, LostStays DEF Safe, CursorSafe
<1> QED BY <1>1, <1>6, <1>7, <1>8, ScanIsSafe DEF Writing

\* The reconciliation purges nothing of what changed before the scan began, and the
\* cursor is not ahead of the scan.
LEMMA ReconcileSafe ==
  ASSUME IInv, CoverInv, Calm, Safe, NEW p \in Procs, Reconcile(p)
  PROVE  Safe'
<1>1. /\ UNCHANGED <<history, cursor, jobs, lapsed>>
      /\ work[p].stage = "marked" /\ work[p].next = 0
      /\ Purge({m \in Messages : sourceState[m] = "active" /\ mark[m] # Marker(p)})
      /\ work' = [work EXCEPT ![p].stage = "reconciled"]
  BY DEF Reconcile, gmail
<1>2. work'[p].job = work[p].job /\ work'[p].since = work[p].since /\ work'[p].next = work[p].next
  BY <1>1 DEF IInv, TypeOK, Locals
<1>3. /\ Token(p)' = Token(p) /\ Marker(p)' = Marker(p) /\ Mail' = Mail
      /\ \A h : Touched(0, h)' = Touched(0, h)
  BY <1>1, <1>2, TaskStays
<1>4. Mode(p) = "full" /\ WorkSafe(p)
  BY <1>1 DEF CoverInv, WorkCovered, Safe
<1>5. work[p].since \in 0 .. Len(history) /\ work[p].since \in Nat
  BY <1>1, WorkTypes DEF Writing
<1>6. \A m \in Touched(0, work[p].since) \cap Mail :
        sourceState[m] = "active" /\ mark[m] = Marker(p)
  BY <1>1, <1>4 DEF WorkSafe, Unsafe
<1>7. \A m \in Touched(0, work[p].since) \cap Mail :
        sourceState'[m] = "active" /\ mark'[m] = Marker(p)
  BY <1>1, <1>6, MailIsMessages DEF Purge, IInv
<1>8. Unsafe("full", work[p].since, work[p].next, Marker(p))' = {}
  BY <1>2, <1>3, <1>7 DEF Unsafe
<1>9. Unsafe("full", work[p].since, Token(p), Marker(p))' = {}
  BY <1>2, <1>3, <1>7 DEF Unsafe
<1>10. CursorSafe'
  <2> SUFFICES ASSUME cursor \in Nat PROVE Lost'[cursor] = {}
    BY <1>1 DEF CursorSafe
  <2>1. cursor <= work[p].since /\ cursor \in 0 .. Len(history)
    BY <1>1, <1>5, Alone, HeldFacts, MissingFacts DEF Calm, Safe, IInv, IdsAreKnown
  <2>2. Touched(0, cursor) \subseteq Touched(0, work[p].since)
    BY <1>5, <2>1 DEF Touched
  <2>3. Lost'[cursor] = {m \in Touched(0, cursor) \cap Mail : sourceState'[m] # "active"}
    BY <1>1, <1>3, <2>1 DEF Lost
  <2> QED BY <1>7, <2>2, <2>3
<1> QED BY <1>1, <1>4, <1>8, <1>9, <1>10, ScanIsSafe DEF Writing

-----------------------------------------------------------------------------
(* A job ends and schedules another.                                        *)

\* The new job is the only queued one, and nobody is at work.
LEMMA ChildIsSafe ==
  ASSUME IInv, CoverInv, Calm, Safe, UNCHANGED <<history, sourceState, mark, lapsed>>,
         NEW p \in Procs, work[p].stage # "idle", work' = [work EXCEPT ![p] = Idle],
         NEW s \in Steps, NEW row \in Jobs, NEW status \in {"completed", "failed"},
         jobs' = End(Insert(Append(work[p].job, s), row), work[p].job, status),
         CursorSafe',
         row.progress.token # 0
           => Unsafe(row.mode, row.progress.history, row.progress.token,
                     row.progress.marker) = {}
  PROVE  Safe'
<1> DEFINE j == work[p].job
           child == Append(j, s)
           inserted == Insert(child, row)
<1>1. /\ j \in Queued /\ j \in DOMAIN jobs /\ j \in JobIds /\ jobs[j] \in Jobs
      /\ \A i \in Queued : i = j
      /\ \A q \in Procs \ {p} : work[q].stage = "idle"
  BY Alone, LocalsOf, RowFacts DEF Safe, IInv
<1>2. child \notin DOMAIN jobs
  BY <1>1, LiveOne DEF Live, Calm
<1>3. /\ DOMAIN inserted = DOMAIN jobs \cup {child}
      /\ \A i \in DOMAIN jobs : inserted[i] = jobs[i]
      /\ inserted[child] = row
  BY <1>2 DEF Insert
<1> HIDE DEF inserted
<1>4. /\ DOMAIN jobs' = DOMAIN jobs \cup {child}
      /\ jobs'[child] = row
      /\ jobs'[j].status = status
      /\ \A i \in DOMAIN jobs \ {j} : jobs'[i] = jobs[i]
  <2>1. j \in DOMAIN inserted /\ inserted[j] \in Jobs /\ jobs' = End(inserted, j, status)
    BY <1>1, <1>3 DEF inserted
  <2> HIDE DEF j, child
  <2>2. /\ DOMAIN jobs' = DOMAIN inserted /\ jobs'[j].status = status
        /\ \A i \in DOMAIN inserted \ {j} : jobs'[i] = inserted[i]
    BY <2>1, EndFacts
  <2> QED BY <1>1, <1>2, <1>3, <2>2
<1> HIDE DEF j, child
<1>5. \A i \in Queued' : i = child
  BY <1>1, <1>4 DEF Queued
<1>6. \A q \in Procs : work'[q].stage = "idle" /\ work'[q].gone \subseteq Deleted
  BY <1>1 DEF Idle, IInv, TypeOK, Safe, WorkSafe
<1>7. \A q \in Procs : WorkSafe(q)'
  BY <1>6, MailboxStays DEF WorkSafe
<1>8. ASSUME NEW i \in Queued' PROVE RowSafe(i)'
  <2>1. Mail' = Mail /\ Lost' = Lost /\ \A h : Touched(0, h)' = Touched(0, h)
    BY MailboxStays, LostStays DEF Touched
  <2>2. jobs'[i] = row
    BY <1>4, <1>5, <1>8
  <2> QED BY <2>1, <2>2 DEF RowSafe, Unsafe
<1>9. LeasesHeld'
  BY <1>6 DEF LeasesHeld
<1> QED BY <1>7, <1>8, <1>9 DEF Safe

LEMMA AdvanceSafe ==
  ASSUME IInv, CoverInv, Calm, Safe, NEW p \in Procs, Advance(p)
  PROVE  Safe'
<1>1. /\ UNCHANGED <<history, sourceState, mark, lapsed, cursor>>
      /\ work' = [work EXCEPT ![p] = Idle]
      /\ work[p].stage # "idle" /\ work[p].next # 0
      /\ work[p].stage = "marked" \/ Written(p)
  BY DEF Advance, CursorAfterPage, gmail, index, Written
<1>2. PICK s \in Steps, row \in Jobs :
        /\ jobs' = End(Insert(Append(work[p].job, s), row), work[p].job, "completed")
        /\ row.mode = Mode(p)
        /\ row.progress.history = work[p].since /\ row.progress.token = work[p].next
        /\ Mode(p) = "full" => row.progress.marker = Marker(p)
  BY AdvanceRow
<1>3. Unsafe(Mode(p), work[p].since, work[p].next, Marker(p)) = {}
  BY <1>1 DEF Safe, WorkSafe, Written
<1>4. Unsafe(row.mode, row.progress.history, row.progress.token, row.progress.marker) = {}
  BY <1>2, <1>3 DEF Unsafe
<1>5. CursorSafe'
  BY <1>1, LostStays DEF Safe, CursorSafe
<1> QED BY <1>1, <1>2, <1>4, <1>5, ChildIsSafe

LEMMA CompleteSafe ==
  ASSUME IInv, CoverInv, Calm, Safe, NEW p \in Procs, Complete(p)
  PROVE  Safe'
<1>1. /\ UNCHANGED <<history, sourceState, mark, lapsed>>
      /\ cursor' = work[p].since
      /\ work' = [work EXCEPT ![p] = Idle]
      /\ work[p].stage # "idle" /\ work[p].next = 0
      /\ work[p].stage = "reconciled" \/ Written(p)
  BY DEF Complete, gmail, index, Written
<1>2. PICK s \in Steps, row \in Jobs :
        /\ jobs' = End(Insert(Append(work[p].job, s), row), work[p].job, "completed")
        /\ row.progress.token = 0
  BY CompleteRow
<1>3. Unsafe(Mode(p), work[p].since, 0, Marker(p)) = {}
  BY <1>1 DEF Safe, WorkSafe, Written
<1>4. work[p].since \in 0 .. Len(history)
  BY <1>1, WorkTypes DEF Writing, Written
<1>5. Lost[work[p].since] = {}
  BY <1>3, <1>4 DEF Unsafe, Lost
<1>6. CursorSafe'
  BY <1>1, <1>5, LostStays DEF CursorSafe
<1> QED BY <1>1, <1>2, <1>6, ChildIsSafe

LEMMA RecoverFullSafe ==
  ASSUME IInv, CoverInv, Calm, Safe, NEW p \in Procs, RecoverFull(p)
  PROVE  Safe'
<1>1. /\ UNCHANGED <<history, sourceState, mark, lapsed, cursor>>
      /\ work' = [work EXCEPT ![p] = Idle]
      /\ work[p].stage # "idle"
  BY DEF RecoverFull, gmail, index
<1>2. PICK s \in Steps, row \in Jobs :
        /\ jobs' = End(Insert(Append(work[p].job, s), row), work[p].job, "failed")
        /\ row.progress.token = 0
  BY RecoverFullRow
<1>3. CursorSafe'
  BY <1>1, LostStays DEF Safe, CursorSafe
<1> QED BY <1>1, <1>2, <1>3, ChildIsSafe

-----------------------------------------------------------------------------
LEMMA InitSafe == Init => SafeInv
<1> SUFFICES ASSUME Init PROVE SafeInv
  OBVIOUS
<1>1. IInv /\ CoverInv
  BY InitInv, InitCover
<1>2. LeasesHeld /\ \A p \in Procs : WorkSafe(p)
  BY IdleIsTyped DEF Init, LeasesHeld, WorkSafe, Idle
<1>3. \A j \in Queued : RowSafe(j)
  BY DEF Init, NewJob, NoProgress, RowSafe, Queued
<1>4. CursorSafe
  BY GmailSyncAssumption DEF Init, CursorSafe
<1> QED BY <1>1, <1>2, <1>3, <1>4 DEF SafeInv, Safe

LEMMA NextSafe == ASSUME SafeInv, [Next]_vars PROVE SafeInv'
<1>1. IInv /\ CoverInv /\ IInv' /\ CoverInv'
  BY NextInv, NextCover DEF SafeInv
<1> SUFFICES ASSUME Calm' PROVE Safe'
  BY <1>1 DEF SafeInv
<1>2. Calm /\ Safe
  <2>1. stalls \in Nat /\ grants \in Nat
    BY <1>1, GmailSyncAssumption DEF IInv, TypeOK
  <2>2. stalls' \in {stalls, stalls + 1} /\ grants' \in {grants, grants + 1}
    BY DEF Next, vars, counters, MailboxChanges, HistoryExpires, Reauthorize, LeaseExpires, Claim,
           ClaimNothing, Load, ReadHistoryId, ListPage, ListHistoryPage, Enqueue, Tombstone,
           MarkSeen, Reconcile, Advance, Complete, RecoverFull, Fail, Crash
  <2>3. Calm
    BY <2>1, <2>2 DEF Calm
  <2> QED BY <2>3 DEF SafeInv
<1>3. CASE \/ MailboxChanges \/ HistoryExpires \/ Reauthorize \/ UNCHANGED vars
           \/ \E j \in DOMAIN jobs : LeaseExpires(j)
  BY <1>1, <1>2, <1>3, OutsideSafe
<1>4. ASSUME NEW p \in Procs,
             \/ \E j \in DOMAIN jobs : Claim(p, j)
             \/ ClaimNothing(p)
             \/ Load(p)
             \/ ReadHistoryId(p)
             \/ ListPage(p)
             \/ ListHistoryPage(p)
      PROVE  Safe'
  BY <1>1, <1>2, <1>4, ClaimSafe, LoadSafe, ReadHistoryIdSafe, ListPageSafe,
     ListHistoryPageSafe
<1>5. ASSUME NEW p \in Procs,
             \/ \E m \in Messages : Enqueue(p, m) \/ Tombstone(p, m)
             \/ MarkSeen(p)
             \/ Reconcile(p)
      PROVE  Safe'
  <2>1. ASSUME NEW m \in Messages, Enqueue(p, m) \/ Tombstone(p, m) PROVE Safe'
    BY <1>1, <1>2, <2>1, EnqueueSafe, TombstoneSafe
  <2> QED BY <1>1, <1>2, <1>5, <2>1, MarkSeenSafe, ReconcileSafe
<1>6. ASSUME NEW p \in Procs,
             \/ Advance(p)
             \/ Complete(p)
             \/ RecoverFull(p)
             \/ \E retryable, reauthorization \in BOOLEAN : Fail(p, retryable, reauthorization)
             \/ Crash(p)
      PROVE  Safe'
  BY <1>1, <1>2, <1>6, AdvanceSafe, CompleteSafe, RecoverFullSafe, GivesUpSafe
<1> QED BY <1>3, <1>4, <1>5, <1>6 DEF Next

\* While no lease lapses under a worker and nobody authorizes again, all mail up to
\* the cursor is in the index: no page, retry after a crash, tombstone, reconciliation
\* or recovery purges what the mailbox still has (mark_provider_sync_seen before
\* reconcile_gmail_full_sync, and one marker handed from page to page).
THEOREM MailStaysIndexed == Spec => []MailIsIndexed
<1>1. Init => SafeInv
  BY InitSafe
<1>2. SafeInv /\ [Next]_vars => SafeInv'
  BY NextSafe
<1>3. SafeInv => MailIsIndexed
  <2> SUFFICES ASSUME SafeInv, stalls = 0, grants = 0, cursor # NoHistory,
                      NEW m \in Touched(0, Synced) \cap Mail
               PROVE  sourceState[m] = "active"
    BY DEF MailIsIndexed
  <2>1. cursor \in Nat /\ cursor \in 0 .. Len(history) /\ Synced = cursor
    BY MissingFacts DEF SafeInv, IInv, TypeOK, IdsAreKnown, Synced
  <2>2. Lost[cursor] = {}
    BY <2>1 DEF SafeInv, Calm, Safe, CursorSafe
  <2> QED BY <2>1, <2>2 DEF Lost
<1> QED BY <1>1, <1>2, <1>3, PTL DEF Spec

-----------------------------------------------------------------------------
(* GmailSync implements LeaseQueue. *)

\* What a row of app.jobs is in the abstract queue.
LEMMA RowShape ==
  ASSUME NEW job
  PROVE  /\ job.status = "leased" =>
              Row(job) = [state |-> "leased", tries |-> job.attempts, holder |-> {job.owner}]
         /\ job.status \in {"pending", "retry_wait"} => Row(job) = Leases!Waiting(job.attempts)
         /\ job.status \in {"completed", "failed", "dead_letter"}
              => Row(job) = Leases!Ended(job.attempts)
         /\ Row(job).tries = job.attempts
         /\ Row(job).state = "leased" <=> job.status = "leased"
         /\ Row(job).state = "waiting" <=> job.status \in {"pending", "retry_wait"}
<1>1. CASE job.status = "leased"
  BY <1>1 DEF Row
<1>2. CASE job.status \in {"pending", "retry_wait"}
  BY <1>2 DEF Row, Leases!Waiting
<1>3. CASE job.status \notin {"leased", "pending", "retry_wait"}
  BY <1>3 DEF Row, Leases!Ended
<1> QED BY <1>1, <1>2, <1>3

\* The rows of the queue.
LEMMA QueueRows ==
  /\ DOMAIN JobQueue = DOMAIN jobs /\ DOMAIN JobQueue' = DOMAIN jobs'
  /\ \A j \in DOMAIN jobs : JobQueue[j] = Row(jobs[j])
  /\ \A j \in DOMAIN jobs' : JobQueue'[j] = Row(jobs'[j])
  /\ JobQueue = [j \in DOMAIN jobs |-> JobQueue[j]]
  /\ JobQueue' = [j \in DOMAIN jobs' |-> JobQueue'[j]]
  BY DEF JobQueue

\* A swept row is a buried job.
LEMMA SweptIsBuried ==
  ASSUME TypeOK
  PROVE  /\ \A j \in DOMAIN jobs : Leases!Spent(j) <=> Exhausted(j)
         /\ \A j \in DOMAIN jobs : Row(Swept[j]) = Leases!Buried[j]
         /\ DOMAIN Leases!Buried = DOMAIN jobs
         /\ DOMAIN Swept = DOMAIN jobs
         /\ Leases!Buried = [j \in DOMAIN jobs |-> Leases!Buried[j]]
<1>1. ASSUME NEW j \in DOMAIN jobs PROVE Leases!Spent(j) <=> Exhausted(j)
  BY QueueRows, RowShape DEF Leases!Spent, Exhausted
<1>2. ASSUME NEW j \in DOMAIN jobs PROVE Row(Swept[j]) = Leases!Buried[j]
  <2>1. Leases!Buried[j] = IF Exhausted(j) THEN Leases!Ended(jobs[j].attempts)
                           ELSE Row(jobs[j])
    BY <1>1, QueueRows, RowShape DEF Leases!Buried
  <2>2. CASE Exhausted(j)
    <3>1. jobs[j] \in Jobs
      BY RowFacts DEF IInv
    <3>2. Swept[j] = [jobs[j] EXCEPT !.status = "dead_letter", !.owner = NoWorker]
      BY <2>2 DEF Swept
    <3>3. Swept[j].status = "dead_letter" /\ Swept[j].attempts = jobs[j].attempts
      BY <3>1, <3>2 DEF Jobs
    <3> QED BY <2>1, <2>2, <3>3, RowShape
  <2>3. CASE ~Exhausted(j)
    BY <2>1, <2>3 DEF Swept
  <2> QED BY <2>2, <2>3
<1>3. DOMAIN Leases!Buried = DOMAIN jobs /\ DOMAIN Swept = DOMAIN jobs
      /\ Leases!Buried = [j \in DOMAIN jobs |-> Leases!Buried[j]]
  BY QueueRows DEF Leases!Buried, Swept
<1> QED BY <1>1, <1>2, <1>3

\* A row that ends or is given back keeps its tries.
LEMMA EndedRow ==
  ASSUME NEW js, NEW j \in DOMAIN js, js[j] \in Jobs,
         NEW status \in {"completed", "failed", "retry_wait", "dead_letter"}
  PROVE  /\ DOMAIN End(js, j, status) = DOMAIN js
         /\ \A i \in DOMAIN js \ {j} : End(js, j, status)[i] = js[i]
         /\ Row(End(js, j, status)[j]) = IF status = "retry_wait"
                                           THEN Leases!Waiting(js[j].attempts)
                                           ELSE Leases!Ended(js[j].attempts)
<1>1. /\ DOMAIN End(js, j, status) = DOMAIN js
      /\ End(js, j, status)[j] = [js[j] EXCEPT !.status = status, !.owner = NoWorker]
      /\ \A i \in DOMAIN js \ {j} : End(js, j, status)[i] = js[i]
  BY DEF End
<1>2. End(js, j, status)[j].status = status
      /\ End(js, j, status)[j].attempts = js[j].attempts
  BY <1>1 DEF Jobs
<1> QED BY <1>1, <1>2, RowShape

\* A worker that rests lets go of its job.
LEMMA HandsRest ==
  ASSUME TypeOK, NEW p \in Procs, work[p].stage # "idle", work' = [work EXCEPT ![p] = Idle]
  PROVE  Hands[p] = {work[p].job} /\ Hands' = [Hands EXCEPT ![p] = {}]
<1>1. work' \in [Procs -> {work'[q] : q \in Procs}] /\ work'[p].stage = "idle"
      /\ \A q \in Procs \ {p} : work'[q] = work[q]
  BY DEF TypeOK, Idle
<1> QED BY <1>1 DEF Hands

\* Workers that go on with their jobs keep them.
LEMMA HandsKept ==
  ASSUME \A q \in Procs : work'[q].job = work[q].job
                          /\ (work'[q].stage = "idle" <=> work[q].stage = "idle")
  PROVE  Hands' = Hands
  BY DEF Hands

\* The first job waits.
LEMMA InitQueue == Init => Leases!Init
<1> SUFFICES ASSUME Init PROVE Leases!Init
  OBVIOUS
<1>1. DOMAIN jobs = {Root} /\ jobs[Root].status = "pending" /\ jobs[Root].attempts = 0
  BY DEF Init, NewJob
<1>2. JobQueue = [j \in DOMAIN JobQueue |-> Leases!Waiting(0)]
  <2>1. JobQueue[Root] = Leases!Waiting(0)
    BY <1>1, QueueRows, RowShape
  <2> QED BY <1>1, <2>1, QueueRows
<1>3. Hands = [p \in Procs |-> {}]
  BY DEF Init, Hands, Idle
<1> QED BY <1>2, <1>3 DEF Leases!Init, Init

\* A claim takes a job that is free and buries what is spent.
LEMMA ClaimTakes ==
  ASSUME IInv, NEW p \in Procs, NEW j \in DOMAIN jobs, Claim(p, j)
  PROVE  Leases!Take(p, j)
<1> DEFINE n == jobs[j].attempts + 1
<1>1. /\ work[p].stage = "idle" /\ Runnable(j)
      /\ jobs' = [Swept EXCEPT ![j].status = "leased", ![j].owner = p, ![j].attempts = @ + 1]
      /\ lapsed' = {i \in lapsed : ~Exhausted(i)} \ {j}
      /\ work' = [work EXCEPT ![p] = [Idle EXCEPT !.stage = "claimed", !.job = j]]
  BY DEF Claim
<1>2. jobs[j] \in Jobs /\ jobs[j].attempts \in 0 .. MaxAttempts /\ ~Exhausted(j)
  BY <1>1, RowFacts, GmailSyncAssumption DEF IInv, Runnable, Exhausted
<1>3. Leases!Free(j)
  BY <1>1, QueueRows, RowShape DEF Leases!Free, Runnable
<1>4. Hands[p] = {} /\ Hands' = [Hands EXCEPT ![p] = {j}]
  <2>1. work'[p].stage = "claimed" /\ work'[p].job = j
        /\ \A q \in Procs \ {p} : work'[q] = work[q]
    BY <1>1 DEF IInv, TypeOK, Idle
  <2> QED BY <1>1, <2>1 DEF Hands
<1>5. lapsed' = {i \in lapsed : i # j /\ ~Leases!Spent(i)}
  BY <1>1, SweptIsBuried DEF IInv, TypeOK
<1>6. jobs'[j] = [jobs[j] EXCEPT !.status = "leased", !.owner = p, !.attempts = @ + 1]
      /\ DOMAIN jobs' = DOMAIN jobs
      /\ \A i \in DOMAIN jobs \ {j} : jobs'[i] = Swept[i]
  BY <1>1, <1>2, SweptFacts DEF IInv
<1>7. Row(jobs'[j]) = Leases!LeasedTo(p, n)
  <2>1. jobs'[j].status = "leased" /\ jobs'[j].owner = p /\ jobs'[j].attempts = n
    BY <1>2, <1>6 DEF Jobs
  <2> QED BY <2>1, RowShape DEF Leases!LeasedTo
<1>8. JobQueue' = [Leases!Buried EXCEPT ![j] = Leases!LeasedTo(p, JobQueue[j].tries + 1)]
  <2>1. JobQueue[j].tries + 1 = n
    BY QueueRows, RowShape
  <2>2. JobQueue'[j] = Leases!LeasedTo(p, n)
    BY <1>6, <1>7, QueueRows
  <2>3. \A i \in DOMAIN jobs \ {j} : JobQueue'[i] = Leases!Buried[i]
    BY <1>6, QueueRows, SweptIsBuried DEF IInv
  <2> HIDE DEF n
  <2> QED BY <1>6, <2>1, <2>2, <2>3, QueueRows, SweptIsBuried DEF IInv
<1> QED BY <1>3, <1>4, <1>5, <1>8 DEF Leases!Take

\* A claim that finds nothing buries what is spent.
LEMMA ClaimNothingBuries ==
  ASSUME IInv, NEW p \in Procs, ClaimNothing(p)
  PROVE  Leases!Bury
<1>1. jobs' = Swept /\ lapsed' = {i \in lapsed : ~Exhausted(i)} /\ work' = work
  BY DEF ClaimNothing
<1>2. JobQueue' = Leases!Buried
  BY <1>1, QueueRows, SweptIsBuried DEF IInv
<1>3. lapsed' = {i \in lapsed : ~Leases!Spent(i)}
  BY <1>1, SweptIsBuried DEF IInv, TypeOK
<1> QED BY <1>1, <1>2, <1>3 DEF Leases!Bury, Hands

\* A lease expires.
LEMMA LeaseExpiresLate ==
  ASSUME NEW j \in DOMAIN jobs, LeaseExpires(j)
  PROVE  Leases!Expire(j)
<1>1. JobQueue' = JobQueue /\ Hands' = Hands /\ lapsed' = lapsed \cup {j}
  BY DEF LeaseExpires, JobQueue, Hands
<1>2. JobQueue[j].state = "leased"
  BY QueueRows, RowShape DEF LeaseExpires
<1> QED BY <1>1, <1>2 DEF Leases!Expire

\* A worker that owns the lease of its job is its holder.
LEMMA OwnerHolds ==
  ASSUME TypeOK, NEW p \in Procs, Owns(p), work[p].stage # "idle"
  PROVE  Leases!Holds(p, work[p].job)
<1>1. /\ work[p].job \in DOMAIN jobs
      /\ jobs[work[p].job].status = "leased" /\ jobs[work[p].job].owner = p
  BY DEF Owns, TypeOK
<1>2. JobQueue[work[p].job].holder = {p}
  BY <1>1, QueueRows, RowShape
<1> QED BY <1>2 DEF Leases!Holds, Hands

\* A step that writes no job of a worker at rest or at work drops it.
LEMMA RestDrops ==
  ASSUME TypeOK, NEW p \in Procs, work[p].stage # "idle", work' = [work EXCEPT ![p] = Idle],
         UNCHANGED <<jobs, lapsed>>
  PROVE  Leases!Drop(p)
<1>1. JobQueue' = JobQueue
  BY DEF JobQueue
<1> QED BY <1>1, HandsRest DEF Leases!Drop

\* A failure gives the job back, or finds that the lease is lost.
LEMMA FailGivesBack ==
  ASSUME IInv, NEW p \in Procs, NEW retryable \in BOOLEAN, NEW reauthorization \in BOOLEAN,
         Fail(p, retryable, reauthorization)
  PROVE  Leases!Drop(p) \/ \E j \in DOMAIN jobs : Leases!GiveBack(p, j)
<1>1. work[p].stage # "idle" /\ work' = [work EXCEPT ![p] = Idle]
  BY DEF Fail
<1>2. CASE ~Owns(p)
  BY <1>1, <1>2, RestDrops DEF Fail, IInv
<1>3. CASE Owns(p)
  <2>1. PICK j \in DOMAIN jobs : j = work[p].job
    BY DEF IInv, TypeOK
  <2> DEFINE status == FailedStatus(j, retryable)
  <2>2. jobs' = End(jobs, j, status) /\ lapsed' = lapsed \ {j}
    BY <1>3, <2>1 DEF Fail
  <2>3. /\ status \in {"completed", "failed", "retry_wait", "dead_letter"}
        /\ status = "retry_wait" => jobs[j].attempts < MaxAttempts
    BY DEF FailedStatus
  <2> HIDE DEF status
  <2>4. jobs[j] \in Jobs
    BY RowFacts DEF IInv
  <2>5. /\ DOMAIN jobs' = DOMAIN jobs
        /\ \A i \in DOMAIN jobs \ {j} : jobs'[i] = jobs[i]
        /\ Row(jobs'[j]) = IF status = "retry_wait" THEN Leases!Waiting(jobs[j].attempts)
                                                   ELSE Leases!Ended(jobs[j].attempts)
    BY <2>2, <2>3, <2>4, EndedRow
  <2>6. JobQueue[j].tries = jobs[j].attempts
    BY QueueRows, RowShape
  <2>7. JobQueue' = [JobQueue EXCEPT ![j] = Row(jobs'[j])]
    BY <2>5, QueueRows
  <2>8. Leases!Holds(p, j) /\ Hands' = [Hands EXCEPT ![p] = {}]
    BY <1>1, <1>3, <2>1, OwnerHolds, HandsRest DEF IInv
  <2>9. Leases!GiveBack(p, j)
    BY <2>2, <2>3, <2>5, <2>6, <2>7, <2>8 DEF Leases!GiveBack
  <2> QED BY <2>9
<1> QED BY <1>2, <1>3

\* A crash drops the job.
LEMMA CrashDrops ==
  ASSUME IInv, NEW p \in Procs, Crash(p)
  PROVE  Leases!Drop(p)
  BY RestDrops DEF Crash, IInv

\* An authorization renews the initial job, whatever it was.
LEMMA ReauthorizeRenews ==
  ASSUME IInv, Reauthorize
  PROVE  Leases!Renew(Root)
<1>1. PICK row : /\ row.status = "pending" /\ row.attempts = 0
                 /\ jobs' = [jobs EXCEPT ![Root] = row]
                 /\ lapsed' = lapsed \ {Root} /\ work' = work
  BY DEF Reauthorize, NewJob
<1>2. Root \in DOMAIN jobs
  BY DEF IInv, RootIsScan
<1>3. JobQueue' = [JobQueue EXCEPT ![Root] = Leases!Waiting(0)]
  <2>1. Row(row) = Leases!Waiting(0)
    BY <1>1, RowShape
  <2>2. DOMAIN jobs' = DOMAIN jobs /\ jobs'[Root] = row
        /\ \A i \in DOMAIN jobs \ {Root} : jobs'[i] = jobs[i]
    BY <1>1, <1>2
  <2> QED BY <1>2, <2>1, <2>2, QueueRows
<1> QED BY <1>1, <1>3 DEF Leases!Renew, Hands

\* A job that ends, with the rows its worker adds.
LEMMA HolderFinishes ==
  ASSUME IInv, NEW p \in Procs, HoldsLease(p), work[p].stage # "idle",
         NEW j \in DOMAIN jobs, j = work[p].job,
         DOMAIN jobs \subseteq DOMAIN jobs',
         \A i \in DOMAIN jobs \ {j} : jobs'[i] = jobs[i],
         Row(jobs'[j]) = Leases!Ended(jobs[j].attempts),
         \A i \in DOMAIN jobs' \ DOMAIN jobs : Row(jobs'[i]) = Leases!Waiting(0),
         lapsed' = lapsed, work' = [work EXCEPT ![p] = Idle]
  PROVE  Leases!Finish(p, j)
<1>1. Leases!Holds(p, j) /\ Hands' = [Hands EXCEPT ![p] = {}] /\ j \notin lapsed
  BY OwnerHolds, HandsRest DEF IInv, HoldsLease
<1>2. Leases!Become([JobQueue EXCEPT ![j] = Leases!Ended(JobQueue[j].tries)])
  <2>1. JobQueue[j].tries = jobs[j].attempts
    BY QueueRows, RowShape
  <2> DEFINE rows == [JobQueue EXCEPT ![j] = Leases!Ended(JobQueue[j].tries)]
  <2>2. \A i \in DOMAIN jobs : rows[i] = JobQueue'[i]
    BY <2>1, QueueRows
  <2> HIDE DEF rows
  <2>3. \A i \in DOMAIN jobs' \ DOMAIN jobs : JobQueue'[i] = Leases!Waiting(0)
    BY QueueRows
  <2> QED BY <2>2, <2>3, QueueRows DEF Leases!Become, rows
<1> QED BY <1>1, <1>2 DEF Leases!Finish

\* Every end of a job adds at most its one successor.
LEMMA ChildFinishes ==
  ASSUME IInv, NEW p \in Procs, HoldsLease(p), work[p].stage # "idle",
         NEW id, NEW mode, NEW progress, NEW status \in {"completed", "failed"},
         jobs' = End(Insert(id, NewJob(mode, progress)), work[p].job, status),
         lapsed' = lapsed, work' = [work EXCEPT ![p] = Idle]
  PROVE  \E j \in DOMAIN jobs : Leases!Finish(p, j)
<1> DEFINE row == NewJob(mode, progress)
           inserted == Insert(id, row)
<1>1. PICK j \in DOMAIN jobs : j = work[p].job
  BY DEF IInv, TypeOK
<1>2. row.status = "pending" /\ row.attempts = 0
  BY DEF NewJob
<1> HIDE DEF row
<1>3. /\ DOMAIN inserted = DOMAIN jobs \cup {id}
      /\ \A i \in DOMAIN jobs : inserted[i] = jobs[i]
      /\ \A i \in DOMAIN inserted \ DOMAIN jobs : inserted[i] = row
  BY DEF Insert
<1>4. jobs' = End(inserted, j, status)
  BY <1>1 DEF row
<1> HIDE DEF inserted
<1>5. jobs[j] \in Jobs
  BY RowFacts DEF IInv
<1>6. /\ DOMAIN jobs' = DOMAIN inserted
      /\ \A i \in DOMAIN inserted \ {j} : jobs'[i] = inserted[i]
      /\ Row(jobs'[j]) = Leases!Ended(jobs[j].attempts)
  BY <1>3, <1>4, <1>5, EndedRow
<1>7. Row(row) = Leases!Waiting(0)
  BY <1>2, RowShape
<1>8. Leases!Finish(p, j)
  BY <1>1, <1>3, <1>6, <1>7, HolderFinishes
<1> QED BY <1>8

LEMMA AdvanceFinishes ==
  ASSUME IInv, NEW p \in Procs, Advance(p)
  PROVE  \E j \in DOMAIN jobs : Leases!Finish(p, j)
<1>1. PICK id, mode, progress :
        jobs' = End(Insert(id, NewJob(mode, progress)), work[p].job, "completed")
  BY DEF Advance
<1>2. /\ HoldsLease(p) /\ work[p].stage # "idle"
      /\ lapsed' = lapsed /\ work' = [work EXCEPT ![p] = Idle]
  BY DEF Advance, Written
<1> QED BY <1>1, <1>2, ChildFinishes

LEMMA CompleteFinishes ==
  ASSUME IInv, NEW p \in Procs, Complete(p)
  PROVE  \E j \in DOMAIN jobs : Leases!Finish(p, j)
<1>1. PICK id, mode, progress :
        jobs' = End(Insert(id, NewJob(mode, progress)), work[p].job, "completed")
  BY DEF Complete
<1>2. /\ HoldsLease(p) /\ work[p].stage # "idle"
      /\ lapsed' = lapsed /\ work' = [work EXCEPT ![p] = Idle]
  BY DEF Complete, Written
<1> QED BY <1>1, <1>2, ChildFinishes

LEMMA RecoverFullFinishes ==
  ASSUME IInv, NEW p \in Procs, RecoverFull(p)
  PROVE  \E j \in DOMAIN jobs : Leases!Finish(p, j)
<1>1. PICK id, mode, progress :
        jobs' = End(Insert(id, NewJob(mode, progress)), work[p].job, "failed")
  BY DEF RecoverFull
<1>2. /\ HoldsLease(p) /\ work[p].stage # "idle"
      /\ lapsed' = lapsed /\ work' = [work EXCEPT ![p] = Idle]
  BY DEF RecoverFull
<1> QED BY <1>1, <1>2, ChildFinishes

\* Reading and writing a page is invisible to the queue.
LEMMA QuietWork ==
  ASSUME IInv, NEW p \in Procs,
         \/ Load(p) \/ ReadHistoryId(p) \/ ListPage(p) \/ ListHistoryPage(p)
         \/ \E m \in Messages : Enqueue(p, m) \/ Tombstone(p, m)
         \/ MarkSeen(p) \/ Reconcile(p)
  PROVE  UNCHANGED Leases!vars
<1>1. UNCHANGED <<jobs, lapsed>>
  BY DEF Load, ReadHistoryId, ListPage, ListHistoryPage, Enqueue, Tombstone, MarkSeen, Reconcile
<1>2. ASSUME NEW q \in Procs
      PROVE  /\ work'[q].job = work[q].job
             /\ work'[q].stage = "idle" <=> work[q].stage = "idle"
  <2> USE LocalsOf DEF IInv, TypeOK, Locals
  <2>1. CASE Load(p) \/ ReadHistoryId(p)
    BY <2>1 DEF Load, ReadHistoryId
  <2>2. CASE ListPage(p)
    BY <2>2 DEF ListPage
  <2>3. CASE ListHistoryPage(p)
    BY <2>3 DEF ListHistoryPage
  <2>4. CASE \E m \in Messages : Enqueue(p, m) \/ Tombstone(p, m)
    BY <2>4 DEF Enqueue, Tombstone
  <2>5. CASE MarkSeen(p) \/ Reconcile(p)
    BY <2>5 DEF MarkSeen, Reconcile
  <2> QED BY <2>1, <2>2, <2>3, <2>4, <2>5
<1>3. Hands' = Hands
  BY <1>2, HandsKept
<1>4. JobQueue' = JobQueue
  BY <1>1 DEF JobQueue
<1> QED BY <1>1, <1>3, <1>4 DEF Leases!vars

\* So is what happens in the mailbox.
LEMMA QuietMailbox ==
  ASSUME MailboxChanges \/ HistoryExpires \/ UNCHANGED vars
  PROVE  UNCHANGED Leases!vars
<1>1. UNCHANGED <<jobs, lapsed, work>>
  BY DEF MailboxChanges, HistoryExpires, vars
<1> QED BY <1>1 DEF Leases!vars, JobQueue, Hands

\* Every step is a step of the abstract queue.
LEMMA NextQueue ==
  ASSUME IInv, [Next]_vars
  PROVE  Leases!Next \/ UNCHANGED Leases!vars
<1>1. CASE MailboxChanges \/ HistoryExpires \/ UNCHANGED vars
  BY <1>1, QuietMailbox
<1>2. CASE Reauthorize
  BY <1>2, ReauthorizeRenews DEF Leases!Next
<1>3. ASSUME NEW j \in DOMAIN jobs, LeaseExpires(j)
      PROVE  Leases!Next
  BY <1>3, LeaseExpiresLate, QueueRows DEF Leases!Next
<1>4. ASSUME NEW p \in Procs, NEW j \in DOMAIN jobs, Claim(p, j)
      PROVE  Leases!Next
  BY <1>4, ClaimTakes, QueueRows DEF Leases!Next
<1>5. ASSUME NEW p \in Procs, ClaimNothing(p)
      PROVE  Leases!Next
  BY <1>5, ClaimNothingBuries DEF Leases!Next
<1>6. ASSUME NEW p \in Procs,
             \/ Load(p) \/ ReadHistoryId(p) \/ ListPage(p) \/ ListHistoryPage(p)
             \/ \E m \in Messages : Enqueue(p, m) \/ Tombstone(p, m)
             \/ MarkSeen(p) \/ Reconcile(p)
      PROVE  UNCHANGED Leases!vars
  BY <1>6, QuietWork
<1>7. ASSUME NEW p \in Procs, Advance(p) \/ Complete(p) \/ RecoverFull(p)
      PROVE  Leases!Next
  BY <1>7, AdvanceFinishes, CompleteFinishes, RecoverFullFinishes, QueueRows DEF Leases!Next
<1>8. ASSUME NEW p \in Procs,
             \E retryable, reauthorization \in BOOLEAN : Fail(p, retryable, reauthorization)
      PROVE  Leases!Next
  BY <1>8, FailGivesBack, QueueRows DEF Leases!Next
<1>9. ASSUME NEW p \in Procs, Crash(p)
      PROVE  Leases!Next
  BY <1>9, CrashDrops DEF Leases!Next
<1> QED BY <1>1, <1>2, <1>3, <1>4, <1>5, <1>6, <1>7, <1>8, <1>9 DEF Next

\* A sync job is decided by the worker whose lease names it, its successor appears in
\* the transaction that ends it, and only the initial job ever starts again.
THEOREM ImplementsLeaseQueue == Spec => QueueImplementation
<1>1. IInv /\ [Next]_vars => [Leases!Next]_(Leases!vars)
  BY NextQueue
<1> QED
  BY <1>1, InitQueue, Invariant, PTL DEF Spec, QueueImplementation, Leases!Spec

==============================================================================
