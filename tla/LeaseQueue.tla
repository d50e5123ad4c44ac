----------------------------- MODULE LeaseQueue ------------------------------
(***************************************************************************)
(* What every queue in app.jobs promises, with no documents, mailboxes or  *)
(* folders: a job waits until a worker takes it under a lease, each taking *)
(* costs one of its tries, and what becomes of it is decided by the worker *)
(* that holds it, by the sweep once its tries are spent and its lease has  *)
(* expired, or by whoever withdraws it while nobody has it.  A job ends    *)
(* and its successors appear in one step.                                  *)
(*                                                                         *)
(* Indexing, GmailSync and DriveSync implement it: QueueImplementation.    *)
(***************************************************************************)
EXTENDS Naturals

CONSTANTS
  Workers,
  Name,        \* what each worker writes into a lease
  MaxTries,    \* app.jobs.max_attempts
  Renewable    \* jobs that may start all over again

VARIABLES
  queue,       \* by job: [state, tries, holder]
  late,        \* jobs whose lease has expired
  hand         \* by worker: the job it took and is still at work on, or none

vars == <<queue, late, hand>>

Waiting(n) == [state |-> "waiting", tries |-> n, holder |-> {}]
Ended(n) == [state |-> "ended", tries |-> n, holder |-> {}]
LeasedTo(w, n) == [state |-> "leased", tries |-> n, holder |-> {Name[w]}]

\* The jobs there are become rows; jobs that were not there wait.
Become(rows) ==
  /\ DOMAIN queue \subseteq DOMAIN queue'
  /\ queue' = [j \in DOMAIN queue' |-> IF j \in DOMAIN queue THEN rows[j] ELSE Waiting(0)]

Init ==
  /\ queue = [j \in DOMAIN queue |-> Waiting(0)]
  /\ late = {}
  /\ hand = [w \in Workers |-> {}]

Put ==
  /\ Become(queue)
  /\ UNCHANGED <<late, hand>>

\* The sweep before every claim.
Spent(j) == j \in late /\ queue[j].tries >= MaxTries

Buried == [j \in DOMAIN queue |-> IF Spent(j) THEN Ended(queue[j].tries) ELSE queue[j]]

Free(j) ==
  /\ queue[j].tries < MaxTries
  /\ queue[j].state = "waiting" \/ j \in late

Take(w, j) ==
  /\ hand[w] = {}
  /\ Free(j)
  /\ queue' = [Buried EXCEPT ![j] = LeasedTo(w, queue[j].tries + 1)]
  /\ late' = {i \in late : i # j /\ ~Spent(i)}
  /\ hand' = [hand EXCEPT ![w] = {j}]

Bury ==
  /\ queue' = Buried
  /\ late' = {i \in late : ~Spent(i)}
  /\ UNCHANGED hand

Expire(j) ==
  /\ queue[j].state = "leased"
  /\ late' = late \cup {j}
  /\ UNCHANGED <<queue, hand>>

\* The lease still names the worker: it may give the job back, expired or not, and
\* end it as long as the lease has not expired.
Holds(w, j) ==
  /\ hand[w] = {j}
  /\ queue[j].holder = {Name[w]}

Finish(w, j) ==
  /\ Holds(w, j)
  /\ j \notin late
  /\ Become([queue EXCEPT ![j] = Ended(queue[j].tries)])
  /\ hand' = [hand EXCEPT ![w] = {}]
  /\ UNCHANGED late

GiveBack(w, j) ==
  /\ Holds(w, j)
  /\ \/ queue' = [queue EXCEPT ![j] = Ended(queue[j].tries)]
     \/ /\ queue[j].tries < MaxTries
        /\ queue' = [queue EXCEPT ![j] = Waiting(queue[j].tries)]
  /\ late' = late \ {j}
  /\ hand' = [hand EXCEPT ![w] = {}]

\* A worker ends, or finds that it has lost its lease.
Drop(w) ==
  /\ hand' = [hand EXCEPT ![w] = {}]
  /\ UNCHANGED <<queue, late>>

Withdraw(T) ==
  /\ \A j \in T : queue[j].state = "waiting"
  /\ queue' = [j \in DOMAIN queue |-> IF j \in T THEN Ended(queue[j].tries) ELSE queue[j]]
  /\ UNCHANGED <<late, hand>>

Renew(j) ==
  /\ queue' = [queue EXCEPT ![j] = Waiting(0)]
  /\ late' = late \ {j}
  /\ UNCHANGED hand

Next ==
  \/ Put
  \/ Bury
  \/ \E w \in Workers : Drop(w)
  \/ \E j \in DOMAIN queue :
       \/ Expire(j)
       \/ \E w \in Workers : Take(w, j) \/ Finish(w, j) \/ GiveBack(w, j)
  \/ \E j \in Renewable : Renew(j)
  \/ \E T \in SUBSET DOMAIN queue : Withdraw(T)

Spec == Init /\ [][Next]_vars

==============================================================================
