------------------------------ MODULE GmailSync ------------------------------
(***************************************************************************)
(* Synchronisation of one Gmail connection: the chain of jobs in app.jobs  *)
(* (a full scan in pages, then incremental polls, and a recovery scan when *)
(* Gmail no longer has the history), the cursor in app.connection_cursors, *)
(* the marks a scan leaves on app.sources, and worker processes that hold  *)
(* one job under a lease which is never renewed.                           *)
(*                                                                         *)
(* A job id is uuid5(parent, step), and the idempotency key names the same *)
(* parent and step, so a job is the path of steps that leads to it from    *)
(* the initial job, and ON CONFLICT DO NOTHING is "the path exists".       *)
(***************************************************************************)
EXTENDS Integers, Sequences, FiniteSets

CONSTANTS
  Messages,        \* positions of messages in the provider's listing
  InitialHistory,  \* what happened in the mailbox before the connection
  Procs,           \* worker processes, each its own worker_id
  PageSize,        \* GMAIL_PAGE_SIZE and GMAIL_HISTORY_PAGE_SIZE
  MaxAttempts,     \* app.jobs.max_attempts
  MaxHistory,      \* bound: events in the mailbox
  MaxChain,        \* bound: jobs deeper than this are not claimed
  MaxStalls,       \* bound: leases that lapse under a worker still at work
  MaxGrants,       \* bound: authorizations after the first
  NoHistory, NoMarker, NoWorker

Events == [message : Messages, kind : {"changed", "deleted"}]

ASSUME GmailSyncAssumption ==
  /\ Messages \subseteq Nat \ {0}
  /\ IsFiniteSet(Messages)
  /\ InitialHistory \in Seq(Events)
  /\ NoWorker \notin Procs
  /\ PageSize \in Nat \ {0}
  /\ MaxAttempts \in Nat \ {0}
  /\ {MaxHistory, MaxChain, MaxStalls, MaxGrants} \subseteq Nat
  /\ NoHistory \notin Nat

VARIABLES
  history,      \* Gmail: every change to the mailbox; an id is a length of it
  oldest,       \* Gmail: history before this id is no longer served
  connection,   \* connections.status
  sourceState,  \* sources.state, "absent" before the first enqueue
  mark,         \* sources.provider_sync_marker
  cursor,       \* connection_cursors, stream 'gmail'
  jobs,         \* rows of app.jobs, by path
  lapsed,       \* leased jobs whose lease_expires_at has passed
  work,         \* the locals of each worker's run_once
  stalls,       \* leases that lapsed under a worker still at work
  grants        \* authorizations after the first

gmail == <<history, oldest>>
index == <<sourceState, mark>>
counters == <<stalls, grants>>
vars == <<gmail, connection, index, cursor, jobs, lapsed, work, counters>>

Steps == [kind : {"page", "next", "recovery"}, token : Nat]
Root == <<>>
Page(j, token) == Append(j, [kind |-> "page", token |-> token])

\* Defective: the key of the next poll names the connection, not the job.
NextPollOfConnection(j) == Append(Root, [kind |-> "next", token |-> 0])

NextPoll(j) == Append(j, [kind |-> "next", token |-> 0])
Recovery(j) == Append(j, [kind |-> "recovery", token |-> 0])

\* The encrypted gmail_progress of a continuation; token 0 is "no page token".
NoProgress == [history |-> NoHistory, token |-> 0, marker |-> NoMarker]

NewJob(mode, progress) ==
  [mode |-> mode, progress |-> progress, status |-> "pending",
   owner |-> NoWorker, attempts |-> 0]

\* INSERT INTO app.jobs ... ON CONFLICT DO NOTHING.
Insert(id, job) ==
  [i \in DOMAIN jobs \cup {id} |-> IF i \in DOMAIN jobs THEN jobs[i] ELSE job]

Idle == [stage |-> "idle", job |-> Root, since |-> NoHistory,
         todo |-> {}, seen |-> {}, gone |-> {}, next |-> 0]

Init ==
  /\ history = InitialHistory
  /\ oldest = 0
  /\ connection = "active"
  /\ sourceState = [m \in Messages |-> "absent"]
  /\ mark = [m \in Messages |-> NoMarker]
  /\ cursor = NoHistory
  /\ jobs = [j \in {Root} |-> NewJob("full", NoProgress)]
  /\ lapsed = {}
  /\ work = [p \in Procs |-> Idle]
  /\ stalls = 0
  /\ grants = 0

-----------------------------------------------------------------------------
(* Gmail.                                                                   *)

Touched(from, to) == {history[i].message : i \in from + 1 .. to}

Deleted == {m \in Messages : \E i \in DOMAIN history :
              history[i] = [message |-> m, kind |-> "deleted"]}

Mail == Touched(0, Len(history)) \ Deleted

\* A message arrives or changes its labels, or is deleted for good.
MailboxChanges ==
  /\ Len(history) < MaxHistory
  /\ \E m \in Messages \ Deleted, kind \in {"changed", "deleted"} :
       /\ kind = "deleted" => m \in Mail
       /\ history' = Append(history, [message |-> m, kind |-> kind])
  /\ UNCHANGED <<oldest, connection, index, cursor, jobs, lapsed, work, counters>>

\* Gmail drops old history records.
HistoryExpires ==
  /\ oldest' \in oldest + 1 .. Len(history)
  /\ UNCHANGED <<history, connection, index, cursor, jobs, lapsed, work, counters>>

-----------------------------------------------------------------------------
(* The lease: app.claim_gmail_sync_job, load, and the passing of time.      *)

Exhausted(j) == j \in lapsed /\ jobs[j].attempts >= MaxAttempts

\* Jobs after the sweep that dead-letters the exhausted ones.
Swept == [j \in DOMAIN jobs |->
            IF Exhausted(j)
              THEN [jobs[j] EXCEPT !.status = "dead_letter", !.owner = NoWorker]
              ELSE jobs[j]]

\* Defective: no limit on attempts.
RunnableForever(j) ==
  /\ connection = "active"
  /\ jobs[j].status \in {"pending", "retry_wait"} \/ j \in lapsed

\* Whether available_at has come is left open: a claim need not happen.
Runnable(j) ==
  /\ connection = "active"
  /\ jobs[j].attempts < MaxAttempts
  /\ jobs[j].status \in {"pending", "retry_wait"} \/ j \in lapsed

Claim(p, j) ==
  /\ work[p].stage = "idle"
  /\ Runnable(j)
  /\ Len(j) < MaxChain
  /\ jobs' = [Swept EXCEPT ![j].status = "leased", ![j].owner = p, ![j].attempts = @ + 1]
  /\ lapsed' = {i \in lapsed : ~Exhausted(i)} \ {j}
  /\ work' = [work EXCEPT ![p] = [Idle EXCEPT !.stage = "claimed", !.job = j]]
  /\ UNCHANGED <<gmail, connection, index, cursor, counters>>

\* Nothing is runnable, or nothing is available yet.
ClaimNothing(p) ==
  /\ work[p].stage = "idle"
  /\ jobs' = Swept
  /\ lapsed' = {i \in lapsed : ~Exhausted(i)}
  /\ UNCHANGED <<gmail, connection, index, cursor, work, counters>>

Owns(p) == LET j == work[p].job
           IN jobs[j].status = "leased" /\ jobs[j].owner = p

\* Defective: the last transaction does not look at the job again.
HoldsAnything(p) == TRUE

HoldsLease(p) == Owns(p) /\ work[p].job \notin lapsed

\* load: the payload and the cursor.  A poll starts from its own progress, or
\* else from the cursor; a scan without progress has yet to ask for its start.
Load(p) ==
  LET j == work[p].job
      progress == jobs[j].progress
  IN /\ work[p].stage = "claimed"
     /\ HoldsLease(p)
     /\ connection = "active"
     /\ work' = [work EXCEPT
          ![p].stage = "loaded",
          ![p].since = IF jobs[j].mode = "incremental" /\ progress.history = NoHistory
                         THEN cursor ELSE progress.history]
     /\ UNCHANGED <<gmail, connection, index, cursor, jobs, lapsed, counters>>

Working(j) == \E p \in Procs : work[p].stage # "idle" /\ work[p].job = j /\ Owns(p)

LeaseExpires(j) ==
  /\ jobs[j].status = "leased"
  /\ j \notin lapsed
  /\ Working(j) => stalls < MaxStalls
  /\ lapsed' = lapsed \cup {j}
  /\ stalls' = IF Working(j) THEN stalls + 1 ELSE stalls
  /\ UNCHANGED <<gmail, connection, index, cursor, jobs, work, grants>>

-----------------------------------------------------------------------------
(* Reading a page from Gmail.                                               *)

Mode(p) == jobs[work[p].job].mode
Token(p) == jobs[work[p].job].progress.token

\* uuid5(job, "gmail-full-reconciliation") for the first page of a scan, then
\* the sync_marker handed on in the progress.
Marker(p) == IF jobs[work[p].job].progress.history = NoHistory
               THEN work[p].job ELSE jobs[work[p].job].progress.marker

\* The profile's history id, asked for before the first page.
ReadHistoryId(p) ==
  /\ work[p].stage = "loaded"
  /\ Mode(p) = "full"
  /\ work[p].since = NoHistory
  /\ work' = [work EXCEPT ![p].since = Len(history)]
  /\ UNCHANGED <<gmail, connection, index, cursor, jobs, lapsed, counters>>

\* messages.list in listing order from the page token, and the messages on it.
ListPage(p) ==
  LET rest == {m \in Mail : m > Token(p)}
      page == {m \in rest : Cardinality({k \in rest : k <= m}) <= PageSize}
  IN /\ work[p].stage = "loaded"
     /\ Mode(p) = "full"
     /\ work[p].since # NoHistory
     /\ work' = [work EXCEPT
          ![p].stage = "writing", ![p].todo = page, ![p].seen = page,
          ![p].next = IF page = rest THEN 0
                      ELSE CHOOSE m \in page : \A k \in page : k <= m]
     /\ UNCHANGED <<gmail, connection, index, cursor, jobs, lapsed, counters>>

\* history.list after the start id or the page token.  A message whose last
\* record on the page is a change is fetched, and a 404 makes it a deletion: what
\* is still there is indexed, what is not is tombstoned.
ListHistoryPage(p) ==
  LET from == IF Token(p) = 0 THEN work[p].since ELSE Token(p)
      to == IF from + PageSize < Len(history) THEN from + PageSize ELSE Len(history)
  IN /\ work[p].stage = "loaded"
     /\ Mode(p) = "incremental"
     /\ work[p].since # NoHistory
     /\ work[p].since >= oldest
     /\ work' = [work EXCEPT
          ![p].stage = "writing",
          ![p].todo = Touched(from, to) \cap Mail,
          ![p].gone = Touched(from, to) \ Mail,
          ![p].next = IF to < Len(history) THEN to ELSE 0,
          ![p].since = IF to < Len(history) THEN @ ELSE Len(history)]
     /\ UNCHANGED <<gmail, connection, index, cursor, jobs, lapsed, counters>>

-----------------------------------------------------------------------------
(* Writing a page into the index.  None of these asks for the lease.        *)

\* IndexRepository.enqueue of one message; it raises if the connection is not
\* active.
Enqueue(p, m) ==
  /\ m \in work[p].todo
  /\ connection = "active"
  /\ sourceState' = [sourceState EXCEPT ![m] = "active"]
  /\ work' = [work EXCEPT ![p].todo = @ \ {m}]
  /\ UNCHANGED <<gmail, connection, mark, cursor, jobs, lapsed, counters>>

\* Defective: only sources never marked before are marked.
MarkedOnce(p) == {m \in work[p].seen : mark[m] = NoMarker}

Marked(p) == work[p].seen

\* mark_provider_sync_seen raises unless every message of the page is active.
MarkSeen(p) ==
  /\ work[p].stage = "writing"
  /\ Mode(p) = "full"
  /\ work[p].todo = {}
  /\ \A m \in work[p].seen : sourceState[m] = "active"
  /\ mark' = [m \in Messages |-> IF m \in Marked(p) THEN Marker(p) ELSE mark[m]]
  /\ work' = [work EXCEPT ![p].stage = "marked"]
  /\ UNCHANGED <<gmail, connection, sourceState, cursor, jobs, lapsed, counters>>

Purge(T) ==
  /\ sourceState' = [m \in Messages |-> IF m \in T THEN "deleted" ELSE sourceState[m]]
  /\ mark' = [m \in Messages |-> IF m \in T THEN NoMarker ELSE mark[m]]

\* tombstone_gmail_message, after every enqueue of the page.
Tombstone(p, m) ==
  /\ m \in work[p].gone
  /\ work[p].todo = {}
  /\ Purge({m} \cap {k \in Messages : sourceState[k] = "active"})
  /\ work' = [work EXCEPT ![p].gone = @ \ {m}]
  /\ UNCHANGED <<gmail, connection, cursor, jobs, lapsed, counters>>

\* reconcile_gmail_full_sync after the last page of a scan.
Reconcile(p) ==
  /\ work[p].stage = "marked"
  /\ work[p].next = 0
  /\ Purge({m \in Messages : sourceState[m] = "active" /\ mark[m] # Marker(p)})
  /\ work' = [work EXCEPT ![p].stage = "reconciled"]
  /\ UNCHANGED <<gmail, connection, cursor, jobs, lapsed, counters>>

-----------------------------------------------------------------------------
(* Ending a job.                                                            *)

Written(p) == /\ work[p].stage = "writing"
              /\ Mode(p) = "incremental"
              /\ work[p].todo = {}
              /\ work[p].gone = {}

\* End job j of the rows js, in status s.
End(js, j, s) == [js EXCEPT ![j].status = s, ![j].owner = NoWorker]

\* Defective: every page commits the cursor of its scan or poll.
CursorOfPage(p) == work[p].since

\* A page that has a successor leaves the cursor alone.
CursorAfterPage(p) == cursor

\* advance: lock the claim, insert the continuation, finish the job.
Advance(p) ==
  LET j == work[p].job
      progress == [history |-> work[p].since, token |-> work[p].next,
                   marker |-> IF Mode(p) = "full" THEN Marker(p) ELSE NoMarker]
  IN /\ work[p].stage = "marked" \/ Written(p)
     /\ work[p].next # 0
     /\ HoldsLease(p)
     /\ jobs' = End(Insert(Page(j, work[p].next), NewJob(Mode(p), progress)),
                    j, "completed")
     /\ cursor' = CursorAfterPage(p)
     /\ work' = [work EXCEPT ![p] = Idle]
     /\ UNCHANGED <<gmail, connection, index, lapsed, counters>>

\* complete: lock the claim, store the cursor, schedule the next poll, finish.
Complete(p) ==
  LET j == work[p].job
  IN /\ work[p].stage = "reconciled" \/ Written(p)
     /\ work[p].next = 0
     /\ HoldsLease(p)
     /\ cursor' = work[p].since
     /\ jobs' = End(Insert(NextPoll(j), NewJob("incremental", NoProgress)),
                    j, "completed")
     /\ work' = [work EXCEPT ![p] = Idle]
     /\ UNCHANGED <<gmail, connection, index, lapsed, counters>>

\* CursorInvalidError: Gmail answered 404 to a poll.  recover_full schedules a
\* scan and fails the poll.
RecoverFull(p) ==
  LET j == work[p].job
  IN /\ work[p].stage = "loaded"
     /\ Mode(p) = "incremental"
     /\ work[p].since # NoHistory
     /\ work[p].since < oldest
     /\ HoldsLease(p)
     /\ jobs' = End(Insert(Recovery(j), NewJob("full", NoProgress)), j, "failed")
     /\ work' = [work EXCEPT ![p] = Idle]
     /\ UNCHANGED <<gmail, connection, index, cursor, lapsed, counters>>

FailedStatus(j, retryable) ==
  IF ~retryable THEN "failed"
  ELSE IF jobs[j].attempts < MaxAttempts THEN "retry_wait" ELSE "dead_letter"

\* fail, which asks for the owner but not for the expiry.  A transient error of
\* the provider or any exception is retryable; provider errors of a permanent kind
\* come only while Gmail is being called, and one of them asks for a new grant.
Fail(p, retryable, reauthorization) ==
  LET j == work[p].job
  IN /\ work[p].stage # "idle"
     /\ ~retryable => work[p].stage = "loaded"
     /\ reauthorization => ~retryable
     /\ IF Owns(p)
          THEN /\ jobs' = End(jobs, j, FailedStatus(j, retryable))
               /\ lapsed' = lapsed \ {j}
               /\ connection' = IF reauthorization THEN "reauthorization_required"
                                ELSE connection
          ELSE UNCHANGED <<jobs, lapsed, connection>>
     /\ work' = [work EXCEPT ![p] = Idle]
     /\ UNCHANGED <<gmail, index, cursor, counters>>

\* The process ends and a new one starts in its place.
Crash(p) ==
  /\ work[p].stage # "idle"
  /\ work' = [work EXCEPT ![p] = Idle]
  /\ UNCHANGED <<gmail, connection, index, cursor, jobs, lapsed, counters>>

\* save_connection for an account that is already connected: the grant is stored,
\* and _queue_initial_sync makes the initial job pending again, whatever it was.
Reauthorize ==
  /\ grants < MaxGrants
  /\ grants' = grants + 1
  /\ connection' = "active"
  /\ jobs' = [jobs EXCEPT ![Root] = NewJob("full", NoProgress)]
  /\ lapsed' = lapsed \ {Root}
  /\ UNCHANGED <<gmail, index, cursor, work, stalls>>

-----------------------------------------------------------------------------
Next ==
  \/ MailboxChanges
  \/ HistoryExpires
  \/ Reauthorize
  \/ \E j \in DOMAIN jobs : LeaseExpires(j)
  \/ \E p \in Procs :
       \/ \E j \in DOMAIN jobs : Claim(p, j)
       \/ ClaimNothing(p)
       \/ Load(p)
       \/ ReadHistoryId(p)
       \/ ListPage(p)
       \/ ListHistoryPage(p)
       \/ \E m \in Messages : Enqueue(p, m) \/ Tombstone(p, m)
       \/ MarkSeen(p)
       \/ Reconcile(p)
       \/ Advance(p)
       \/ Complete(p)
       \/ RecoverFull(p)
       \/ \E retryable, reauthorization \in BOOLEAN : Fail(p, retryable, reauthorization)
       \/ Crash(p)

Spec == Init /\ [][Next]_vars

=============================================================================
