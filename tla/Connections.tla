----------------------------- MODULE Connections -----------------------------
(***************************************************************************)
(* Google connections of one workspace: the OAuth round trip of the API    *)
(* (GoogleConnectionService.start, complete, consume_error and their store)*)
(* and the synchronisation workers that use and refresh the credentials.   *)
(*                                                                         *)
(* complete is four transactions with two calls of Google in between; each *)
(* is an action here, so that callbacks and workers interleave.  The new   *)
(* connection id a callback proposes is a fresh uuid: here, the number of  *)
(* the grant it has just been given.                                       *)
(***************************************************************************)
EXTENDS Integers, Sequences, FiniteSets

CONSTANTS
  Families,          \* the source families, keys of SOURCE_SCOPES
  Mail,              \* the family whose presence makes the address the account id
  Users,             \* Google accounts
  Callbacks,         \* callback requests the API serves at the same time
  Workers,           \* synchronisation workers
  MaxSessions,       \* bound: sessions the user goes through
  MaxTransactions,   \* bound: rows of app.oauth_transactions
  MaxLoads           \* bound: credentials loaded by workers

ASSUME ConnectionsAssumption ==
  /\ Mail \in Families
  /\ Users # {}
  /\ {MaxSessions, MaxTransactions, MaxLoads} \subseteq Nat
  /\ MaxSessions > 0

VARIABLES
  session,       \* the id of the user's newest session
  transactions,  \* app.oauth_transactions
  callback,      \* the locals of every callback request
  grants,        \* Google: grants given for a code
  withdrawn,     \* Google: grants the user has withdrawn
  connections,   \* app.connections and app.connection_scopes, by id
  initial,       \* initial sync jobs that are pending, <<connection, family>>
  worker,        \* the locals of every worker
  loads

google == <<grants, withdrawn>>
vars == <<session, transactions, callback, google, connections, initial, worker, loads>>

Free == [stage |-> "free", tx |-> 0, grant |-> 0, connection |-> 0]
Resting == [stage |-> "resting", connection |-> 0, grant |-> 0]

Init ==
  /\ session = 1
  /\ transactions = <<>>
  /\ callback = [c \in Callbacks |-> Free]
  /\ grants = <<>>
  /\ withdrawn = {}
  /\ connections = <<>>
  /\ initial = {}
  /\ worker = [w \in Workers |-> Resting]
  /\ loads = 0

-----------------------------------------------------------------------------
(* The authorization the user starts.                                       *)

\* A refresh gives the user a new session id; the access token of the old one stays
\* valid for its fifteen minutes.
SessionRefreshed ==
  /\ session < MaxSessions
  /\ session' = session + 1
  /\ UNCHANGED <<transactions, callback, google, connections, initial, worker, loads>>

Start(s, families) ==
  /\ Len(transactions) < MaxTransactions
  /\ families # {}
  /\ transactions' = Append(transactions,
       [session |-> s, families |-> families, state |-> "open"])
  /\ UNCHANGED <<session, callback, google, connections, initial, worker, loads>>

TransactionExpires(t) ==
  /\ transactions[t].state = "open"
  /\ transactions' = [transactions EXCEPT ![t].state = "expired"]
  /\ UNCHANGED <<session, callback, google, connections, initial, worker, loads>>

-----------------------------------------------------------------------------
(* The callback.                                                            *)

\* Defective: a transaction is only looked up.
OpenOrConsumed(t) == transactions[t].state \in {"open", "consumed"}

Open(t) == transactions[t].state = "open"

\* consume_transaction; the session of the callback is compared after it has
\* committed.  A callback that brings an error consumes the transaction too.
Consume(c, t, s, granted) ==
  /\ callback[c].stage = "free"
  /\ Open(t)
  /\ transactions' = [transactions EXCEPT ![t].state = "consumed"]
  /\ callback' = IF granted /\ transactions[t].session = s
                 THEN [callback EXCEPT ![c] = [Free EXCEPT !.stage = "consumed", !.tx = t]]
                 ELSE callback
  /\ UNCHANGED <<session, google, connections, initial, worker, loads>>

\* A callback that comes again, or late, finds no open transaction and is refused.
RefuseCallback(c, t) ==
  /\ callback[c].stage = "free"
  /\ ~Open(t)
  /\ UNCHANGED vars

\* exchange_code and account: the user has granted exactly what was asked for, of one
\* of their accounts; any other grant is refused, CallbackFails.
Exchange(c, user, families) ==
  /\ callback[c].stage = "consumed"
  /\ families = transactions[callback[c].tx].families
  /\ grants' = Append(grants,
       [tx |-> callback[c].tx, user |-> user, families |-> families])
  /\ callback' = [callback EXCEPT ![c].stage = "exchanged", ![c].grant = Len(grants) + 1]
  /\ UNCHANGED <<session, transactions, withdrawn, connections, initial, worker, loads>>

\* The external id is the mail address, or the Drive permission id for a grant of
\* Drive alone.
ExternalId(n) == [user |-> grants[n].user, byAddress |-> Mail \in grants[n].families]

\* The connections of the account of grant n; the code has at most one.
Existing(n) == {k \in DOMAIN connections : connections[k].external = ExternalId(n)}

IdFor(n) == IF Existing(n) = {} THEN n ELSE CHOOSE k \in Existing(n) : TRUE

\* connection_id_for_account; the credentials are then encrypted for this id.
LookUpConnection(c) ==
  /\ callback[c].stage = "exchanged"
  /\ callback' = [callback EXCEPT ![c].stage = "identified",
                                  ![c].connection = IdFor(callback[c].grant)]
  /\ UNCHANGED <<session, transactions, google, connections, initial, worker, loads>>

\* Defective: the account may meanwhile have been connected by another callback.
SavedToOwn(c) == callback[c].connection

\* effective_id: the connection the account has by now, or the one proposed.
SavedTo(c) == IF Existing(callback[c].grant) = {} THEN callback[c].connection
              ELSE IdFor(callback[c].grant)

\* Defective: the credentials go to whatever connection the account has now.
SavedAnyway(c) == callback[c].connection \in DOMAIN grants

\* "connection identity changed during authorization"; two that insert at once meet
\* uq_connections_active_external_account instead.
SaveAllowed(c) == SavedTo(c) = callback[c].connection

\* Defective: the initial jobs are queued for the id that was proposed.
QueuedForProposed(c) == callback[c].grant

QueuedFor(c) == SavedTo(c)

\* save_connection with _queue_initial_sync.
Save(c) ==
  LET n == callback[c].grant
      k == SavedTo(c)
      row == [external |-> ExternalId(n), status |-> "active",
              scopes |-> grants[n].families,
              credential |-> [grant |-> n, for |-> callback[c].connection]]
  IN /\ callback[c].stage = "identified"
     /\ SaveAllowed(c)
     /\ connections' = [i \in DOMAIN connections \cup {k} |->
                          IF i = k THEN row ELSE connections[i]]
     /\ initial' = initial \cup {<<QueuedFor(c), f>> : f \in grants[n].families}
     /\ callback' = [callback EXCEPT ![c] = Free]
     /\ UNCHANGED <<session, transactions, google, worker, loads>>

\* A refusal of Google, an account it cannot name, a save that is not allowed, or the
\* end of the process.
CallbackFails(c) ==
  /\ callback[c].stage # "free"
  /\ callback' = [callback EXCEPT ![c] = Free]
  /\ UNCHANGED <<session, transactions, google, connections, initial, worker, loads>>

-----------------------------------------------------------------------------
(* The workers.                                                             *)

\* The user withdraws a grant in the settings of the Google account.
Withdraw(n) ==
  /\ n \notin withdrawn
  /\ withdrawn' = withdrawn \cup {n}
  /\ UNCHANGED <<session, transactions, callback, grants, connections, initial, worker, loads>>

\* claim and load of a sync job, initial or later; credentials and scopes are read
\* in one statement, and if they disagree the job fails for good.
LoadCredentials(w, k) ==
  LET n == connections[k].credential.grant
  IN /\ worker[w].stage = "resting"
     /\ loads < MaxLoads
     /\ connections[k].status = "active"
     /\ loads' = loads + 1
     /\ \/ initial' = initial
        \/ \E f \in Families : <<k, f>> \in initial /\ initial' = initial \ {<<k, f>>}
     /\ worker' = IF grants[n].families = connections[k].scopes
                  THEN [worker EXCEPT ![w] = [stage |-> "refreshing", connection |-> k, grant |-> n]]
                  ELSE worker
     /\ UNCHANGED <<session, transactions, callback, google, connections>>

Encrypted(w) == [grant |-> worker[w].grant, for |-> worker[w].connection]

\* ensure_fresh with a new access token, and save_credentials.
SaveCredentials(w) ==
  LET k == worker[w].connection
  IN /\ worker[w].stage = "refreshing"
     /\ worker[w].grant \notin withdrawn
     /\ connections[k].status = "active"
     /\ connections' = [connections EXCEPT ![k].credential = Encrypted(w)]
     /\ worker' = [worker EXCEPT ![w] = Resting]
     /\ UNCHANGED <<session, transactions, callback, google, initial, loads>>

\* ensure_fresh is refused, and fail asks for a new authorization.
RefreshRefused(w) ==
  LET k == worker[w].connection
  IN /\ worker[w].stage = "refreshing"
     /\ worker[w].grant \in withdrawn
     /\ connections' = [connections EXCEPT ![k].status = "reauthorization_required"]
     /\ worker' = [worker EXCEPT ![w] = Resting]
     /\ UNCHANGED <<session, transactions, callback, google, initial, loads>>

\* The access token was still good, or the job failed otherwise.
WorkerRests(w) ==
  /\ worker[w].stage = "refreshing"
  /\ worker' = [worker EXCEPT ![w] = Resting]
  /\ UNCHANGED <<session, transactions, callback, google, connections, initial, loads>>

-----------------------------------------------------------------------------
Callback(c) ==
  \/ \E t \in DOMAIN transactions, s \in 1 .. session, granted \in BOOLEAN :
       Consume(c, t, s, granted)
  \/ \E t \in DOMAIN transactions : RefuseCallback(c, t)
  \/ \E user \in Users, families \in SUBSET Families : Exchange(c, user, families)
  \/ LookUpConnection(c)
  \/ Save(c)
  \/ CallbackFails(c)

Work(w) ==
  \/ \E k \in DOMAIN connections : LoadCredentials(w, k)
  \/ SaveCredentials(w)
  \/ RefreshRefused(w)
  \/ WorkerRests(w)

Next ==
  \/ SessionRefreshed
  \/ \E s \in 1 .. session, families \in SUBSET Families : Start(s, families)
  \/ \E t \in DOMAIN transactions : TransactionExpires(t)
  \/ \E n \in DOMAIN grants : Withdraw(n)
  \/ \E c \in Callbacks : Callback(c)
  \/ \E w \in Workers : Work(w)

Spec == Init /\ [][Next]_vars

=============================================================================
