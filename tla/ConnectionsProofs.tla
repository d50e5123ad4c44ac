-------------------------- MODULE ConnectionsProofs --------------------------
(***************************************************************************)
(* Machine-checked proofs about Connections: for any number of families,   *)
(* accounts, callbacks and workers a transaction is good for one grant, an *)
(* account has one connection, and what is stored with a connection are    *)
(* credentials of its own account that can be decrypted.                   *)
(***************************************************************************)
EXTENDS ConnectionsProperties, SequenceTheorems, TLAPS

\* A callback that has consumed a transaction and has no grant yet is the only
\* one that can bring a grant under it.
ConsumedForOne ==
  /\ \A c \in Callbacks : callback[c].stage = "consumed" =>
       /\ callback[c].tx \in DOMAIN transactions
       /\ transactions[callback[c].tx].state = "consumed"
       /\ \A n \in DOMAIN grants : grants[n].tx # callback[c].tx
  /\ \A c, d \in Callbacks :
       /\ callback[c].stage = "consumed" /\ callback[d].stage = "consumed"
       /\ callback[c].tx = callback[d].tx
       => c = d

\* A callback that goes on has a grant; the connection it found is that of its
\* account, if it did not propose its own.
FoundForAccount ==
  \A c \in Callbacks :
    /\ callback[c].stage \in {"exchanged", "identified"} => callback[c].grant \in DOMAIN grants
    /\ callback[c].stage = "identified" =>
         \/ callback[c].connection = callback[c].grant
         \/ callback[c].connection \in Existing(callback[c].grant)

\* The id of a connection is the one proposed with the first grant of its account.
ProposedByAccount == \A k \in DOMAIN connections : connections[k].external = ExternalId(k)

\* A worker refreshes credentials of the account of its connection.
RefreshOfAccount ==
  \A w \in Workers : worker[w].stage = "refreshing" =>
    /\ worker[w].connection \in DOMAIN connections
    /\ worker[w].grant \in DOMAIN grants
    /\ ExternalId(worker[w].grant) = connections[worker[w].connection].external

IInv ==
  /\ TypeOK
  /\ ConsumedForOne
  /\ FoundForAccount
  /\ ProposedByAccount
  /\ RefreshOfAccount
  /\ ExchangedOnce
  /\ OneConnectionPerAccount
  /\ CredentialsFit

-----------------------------------------------------------------------------
(* What the types say, row by row. *)

Transaction == [session : 1 .. session, families : (SUBSET Families) \ {{}},
                state : {"open", "consumed", "expired"}]
Locals == [stage : {"free", "consumed", "exchanged", "identified"},
           tx : {0} \cup DOMAIN transactions, grant : {0} \cup DOMAIN grants,
           connection : {0} \cup DOMAIN grants]
Grant == [tx : DOMAIN transactions, user : Users, families : SUBSET Families]
Connection == [external : External, scopes : SUBSET Families, credential : Credential,
               status : {"active", "reauthorization_required"}]
Progress == [stage : {"resting", "refreshing"}, connection : {0} \cup DOMAIN connections,
             grant : {0} \cup DOMAIN grants]

LEMMA RowFacts ==
  ASSUME TypeOK
  PROVE  /\ Len(transactions) \in Nat /\ DOMAIN transactions = 1..Len(transactions)
         /\ Len(grants) \in Nat /\ DOMAIN grants = 1..Len(grants)
         /\ \A t \in DOMAIN transactions : transactions[t] \in Transaction
         /\ \A n \in DOMAIN grants : grants[n] \in Grant
         /\ \A k \in DOMAIN connections : k \in DOMAIN grants /\ connections[k] \in Connection
<1>1. transactions \in Seq(Transaction) /\ grants \in Seq(Grant)
  BY DEF TypeOK, Transaction, Grant
<1>2. /\ Len(transactions) \in Nat /\ DOMAIN transactions = 1..Len(transactions)
      /\ Len(grants) \in Nat /\ DOMAIN grants = 1..Len(grants)
  BY <1>1, LenProperties
<1>3. /\ \A t \in DOMAIN transactions : transactions[t] \in Transaction
      /\ \A n \in DOMAIN grants : grants[n] \in Grant
  BY <1>1, <1>2, ElementOfSeq
<1>4. \A k \in DOMAIN connections : k \in DOMAIN grants /\ connections[k] \in Connection
  BY DEF TypeOK, Connection
<1> QED BY <1>2, <1>3, <1>4

\* TypeOK of the next state, from its parts.
LEMMA TypesNext ==
  ASSUME session' \in 1 .. MaxSessions,
         transactions' \in Seq(Transaction'),
         callback' \in [Callbacks -> Locals'],
         grants' \in Seq(Grant'),
         withdrawn' \subseteq DOMAIN grants',
         DOMAIN connections' \subseteq DOMAIN grants',
         \A k \in DOMAIN connections' : connections'[k] \in Connection',
         initial' \subseteq {<<k, f>> : k \in DOMAIN connections', f \in Families},
         worker' \in [Workers -> Progress'],
         loads' \in 0 .. MaxLoads
  PROVE  TypeOK'
BY DEF TypeOK, Transaction, Locals, Grant, Connection, Progress

LEMMA InitInv == Init => IInv
<1> SUFFICES ASSUME Init PROVE IInv
  OBVIOUS
<1>1. /\ transactions = <<>> /\ grants = <<>> /\ connections = <<>>
      /\ DOMAIN transactions = {} /\ DOMAIN grants = {} /\ DOMAIN connections = {}
      /\ session = 1 /\ withdrawn = {} /\ initial = {} /\ loads = 0
  BY DEF Init
<1>2. /\ \A c \in Callbacks : callback[c].stage = "free"
      /\ \A w \in Workers : worker[w].stage = "resting"
  BY DEF Init, Free, Resting
<1>3. callback \in [Callbacks -> Locals] /\ worker \in [Workers -> Progress]
  BY DEF Init, Free, Resting, Locals, Progress
<1>4. session \in 1 .. MaxSessions /\ loads \in 0 .. MaxLoads
  BY <1>1, ConnectionsAssumption
<1>5. TypeOK
  BY <1>1, <1>3, <1>4 DEF TypeOK, Locals, Progress
<1>6. /\ ConsumedForOne /\ FoundForAccount /\ ProposedByAccount /\ RefreshOfAccount
      /\ ExchangedOnce /\ OneConnectionPerAccount /\ CredentialsFit
  BY <1>1, <1>2 DEF ConsumedForOne, FoundForAccount, ProposedByAccount, RefreshOfAccount,
                    ExchangedOnce, OneConnectionPerAccount, CredentialsFit
<1> QED BY <1>5, <1>6 DEF IInv

-----------------------------------------------------------------------------
(* What the steps leave alone. *)

LEMMA ConnectionsKept ==
  ASSUME IInv, UNCHANGED <<grants, connections>>
  PROVE  ProposedByAccount' /\ OneConnectionPerAccount' /\ CredentialsFit'
  BY DEF IInv, ProposedByAccount, OneConnectionPerAccount, CredentialsFit, ExternalId

LEMMA WorkersKept ==
  ASSUME IInv, UNCHANGED <<grants, connections, worker>>
  PROVE  RefreshOfAccount'
  BY DEF IInv, RefreshOfAccount, ExternalId

LEMMA FoundKept ==
  ASSUME IInv, UNCHANGED <<grants, connections, callback>>
  PROVE  FoundForAccount'
  BY DEF IInv, FoundForAccount, ExternalId, Existing

LEMMA ExchangesKept ==
  ASSUME IInv, UNCHANGED <<transactions, grants>>
  PROVE  ExchangedOnce'
  BY DEF IInv, ExchangedOnce

LEMMA ConsumedKept ==
  ASSUME IInv, UNCHANGED <<transactions, grants, callback>>
  PROVE  ConsumedForOne'
  BY DEF IInv, ConsumedForOne

-----------------------------------------------------------------------------
(* Transactions. *)

LEMMA SessionRefreshedInv == ASSUME IInv, SessionRefreshed PROVE IInv'
<1>1. UNCHANGED <<transactions, callback, grants, withdrawn, connections, initial, worker, loads>>
  BY DEF SessionRefreshed, google
<1>2. session' \in 1 .. MaxSessions /\ 1 .. session \subseteq 1 .. session'
  BY ConnectionsAssumption DEF SessionRefreshed, IInv, TypeOK
<1>3. transactions' \in Seq(Transaction')
  <2>1. Transaction \subseteq Transaction'
    BY <1>2 DEF Transaction
  <2>2. transactions \in Seq(Transaction)
    BY DEF IInv, TypeOK, Transaction
  <2> QED BY <1>1, <2>1, <2>2, SeqDef
<1>4. TypeOK'
  BY <1>1, <1>2, <1>3 DEF IInv, TypeOK, Transaction, External, Credential
<1> QED BY <1>1, <1>4, ConnectionsKept, WorkersKept, FoundKept, ExchangesKept, ConsumedKept DEF IInv

LEMMA StartInv ==
  ASSUME IInv, NEW s \in 1 .. session, NEW families \in SUBSET Families, Start(s, families)
  PROVE  IInv'
<1> DEFINE tx == [session |-> s, families |-> families, state |-> "open"]
<1>1. UNCHANGED <<session, callback, grants, withdrawn, connections, initial, worker, loads>>
  BY DEF Start, google
<1>2. tx \in Transaction /\ transactions \in Seq(Transaction)
  BY DEF Start, Transaction, IInv, TypeOK
<1>3. transactions' = Append(transactions, tx)
  BY DEF Start
<1> HIDE DEF tx
<1>4. /\ transactions' \in Seq(Transaction)
      /\ DOMAIN transactions' = 1 .. (Len(transactions) + 1)
      /\ \A t \in DOMAIN transactions : t \in DOMAIN transactions' /\ transactions'[t] = transactions[t]
  BY <1>2, <1>3, RowFacts DEF IInv
<1>5. TypeOK'
  <2>1. callback' \in [Callbacks -> Locals']
    <3>1. Locals \subseteq Locals'
      BY <1>1, <1>4 DEF Locals
    <3> QED BY <1>1, <3>1 DEF IInv, TypeOK, Locals
  <2>2. grants' \in Seq(Grant')
    <3>1. Grant \subseteq Grant'
      BY <1>4 DEF Grant
    <3>2. grants \in Seq(Grant)
      BY DEF IInv, TypeOK, Grant
    <3> QED BY <1>1, <3>1, <3>2, SeqDef
  <2>3. transactions' \in Seq(Transaction')
    BY <1>1, <1>4 DEF Transaction
  <2>4. withdrawn' \subseteq DOMAIN grants' /\ DOMAIN connections' \subseteq DOMAIN grants'
    BY <1>1 DEF IInv, TypeOK
  <2>5. \A k \in DOMAIN connections' : connections'[k] \in Connection'
    BY <1>1, RowFacts DEF IInv, Connection, External, Credential
  <2>6. /\ session' \in 1 .. MaxSessions
        /\ initial' \subseteq {<<k, f>> : k \in DOMAIN connections', f \in Families}
        /\ worker' \in [Workers -> Progress']
        /\ loads' \in 0 .. MaxLoads
    BY <1>1 DEF IInv, TypeOK, Progress
  <2> QED BY <2>1, <2>2, <2>3, <2>4, <2>5, <2>6, TypesNext
<1>6. ConsumedForOne'
  BY <1>1, <1>4 DEF IInv, ConsumedForOne
<1>7. ExchangedOnce'
  BY <1>1, <1>4, RowFacts DEF IInv, ExchangedOnce, Grant
<1> QED BY <1>1, <1>5, <1>6, <1>7, ConnectionsKept, WorkersKept, FoundKept DEF IInv

\* A transaction that is open is consumed or expires: nothing was granted under it.
LEMMA OpenEnds ==
  ASSUME IInv, NEW t \in DOMAIN transactions, Open(t), NEW state \in {"consumed", "expired"},
         transactions' = [transactions EXCEPT ![t].state = state],
         UNCHANGED <<session, grants, withdrawn, connections, initial, worker, loads>>,
         callback' \in [Callbacks -> Locals]
  PROVE  /\ TypeOK'
         /\ ExchangedOnce'
         /\ DOMAIN transactions' = DOMAIN transactions
         /\ transactions'[t].state = state
         /\ \A u \in DOMAIN transactions : u # t => transactions'[u] = transactions[u]
         /\ \A n \in DOMAIN grants : grants[n].tx # t
<1>1. transactions[t] \in Transaction /\ transactions \in Seq(Transaction)
  BY SMTT(60), RowFacts DEF IInv, TypeOK, Transaction
<1>2. [transactions[t] EXCEPT !.state = state] \in Transaction
  BY <1>1 DEF Transaction
<1>3. /\ transactions' \in Seq(Transaction)
      /\ DOMAIN transactions' = DOMAIN transactions
      /\ transactions'[t].state = state
      /\ \A u \in DOMAIN transactions : u # t => transactions'[u] = transactions[u]
  <2>1. transactions' = [transactions EXCEPT ![t] = [transactions[t] EXCEPT !.state = state]]
    OBVIOUS
  <2>2. Len(transactions) \in Nat /\ DOMAIN transactions = 1..Len(transactions)
    BY RowFacts DEF IInv
  <2>3. transactions' \in Seq(Transaction)
    BY <1>1, <1>2, <2>1, <2>2, ExceptSeq
  <2>4. transactions'[t] = [transactions[t] EXCEPT !.state = state]
    BY <2>1
  <2>5. transactions'[t].state = state
    BY <1>1, <2>4 DEF Transaction
  <2>6. /\ DOMAIN transactions' = DOMAIN transactions
        /\ \A u \in DOMAIN transactions : u # t => transactions'[u] = transactions[u]
    BY <2>1
  <2> QED BY <2>3, <2>5, <2>6
<1>4. \A n \in DOMAIN grants : grants[n].tx # t
  BY DEF IInv, ExchangedOnce, Open
<1>5. TypeOK'
  <2>1. transactions' \in Seq(Transaction') /\ callback' \in [Callbacks -> Locals']
    BY <1>3 DEF Transaction, Locals
  <2>2. grants' \in Seq(Grant')
    BY <1>3 DEF IInv, TypeOK, Grant
  <2>3. /\ withdrawn' \subseteq DOMAIN grants'
        /\ DOMAIN connections' \subseteq DOMAIN grants'
        /\ session' \in 1 .. MaxSessions
        /\ initial' \subseteq {<<k, f>> : k \in DOMAIN connections', f \in Families}
        /\ worker' \in [Workers -> Progress']
        /\ loads' \in 0 .. MaxLoads
    BY DEF IInv, TypeOK, Progress
  <2>4. \A k \in DOMAIN connections' : connections'[k] \in Connection'
    BY RowFacts DEF IInv, Connection, External, Credential
  <2> QED BY <2>1, <2>2, <2>3, <2>4, TypesNext
<1>6. ExchangedOnce'
  <2>1. \A n \in DOMAIN grants : grants[n].tx \in DOMAIN transactions
    BY RowFacts DEF IInv, Grant
  <2> QED BY <1>3, <1>4, <2>1 DEF IInv, ExchangedOnce
<1> QED BY <1>3, <1>4, <1>5, <1>6

LEMMA TransactionExpiresInv ==
  ASSUME IInv, NEW t \in DOMAIN transactions, TransactionExpires(t)
  PROVE  IInv'
<1>1. /\ UNCHANGED <<session, callback, grants, withdrawn, connections, initial, worker, loads>>
      /\ transactions' = [transactions EXCEPT ![t].state = "expired"]
      /\ Open(t)
      /\ callback' \in [Callbacks -> Locals]
  BY DEF TransactionExpires, google, Open, IInv, TypeOK, Locals
<1>2. /\ TypeOK'
      /\ ExchangedOnce'
      /\ DOMAIN transactions' = DOMAIN transactions
      /\ \A u \in DOMAIN transactions : u # t => transactions'[u] = transactions[u]
  BY <1>1, OpenEnds
<1>3. ConsumedForOne'
  BY <1>1, <1>2 DEF IInv, ConsumedForOne, Open
<1> QED BY <1>1, <1>2, <1>3, ConnectionsKept, WorkersKept, FoundKept DEF IInv

-----------------------------------------------------------------------------
(* Callbacks. *)

LEMMA ConsumeInv ==
  ASSUME IInv, NEW c \in Callbacks, NEW t \in DOMAIN transactions, NEW s \in 1 .. session,
         NEW granted \in BOOLEAN, Consume(c, t, s, granted)
  PROVE  IInv'
<1> DEFINE kept == granted /\ transactions[t].session = s
           locals == [Free EXCEPT !.stage = "consumed", !.tx = t]
<1>1. /\ UNCHANGED <<session, grants, withdrawn, connections, initial, worker, loads>>
      /\ transactions' = [transactions EXCEPT ![t].state = "consumed"]
      /\ Open(t)
      /\ callback' = callback \/ callback' = [callback EXCEPT ![c] = locals]
  BY DEF Consume, google
<1>2. locals \in Locals /\ locals.stage = "consumed" /\ locals.tx = t
  BY DEF Free, Locals
<1>3. callback \in [Callbacks -> Locals]
  BY DEF IInv, TypeOK, Locals
<1> HIDE DEF locals
<1>4. /\ callback' \in [Callbacks -> Locals]
      /\ \A d \in Callbacks \ {c} : callback'[d] = callback[d]
      /\ callback'[c] = callback[c] \/ callback'[c] = locals
  BY <1>1, <1>2, <1>3
<1>5. /\ TypeOK'
      /\ ExchangedOnce'
      /\ DOMAIN transactions' = DOMAIN transactions
      /\ transactions'[t].state = "consumed"
      /\ \A u \in DOMAIN transactions : u # t => transactions'[u] = transactions[u]
      /\ \A n \in DOMAIN grants : grants[n].tx # t
  BY <1>1, <1>4, OpenEnds
<1>6. \A d \in Callbacks : callback[d].stage = "consumed" => callback[d].tx # t
  BY <1>1 DEF IInv, ConsumedForOne, Open
<1>7. ConsumedForOne'
  <2>1. ASSUME NEW d \in Callbacks, callback'[d].stage = "consumed"
        PROVE  /\ callback'[d].tx \in DOMAIN transactions'
               /\ transactions'[callback'[d].tx].state = "consumed"
               /\ \A n \in DOMAIN grants' : grants'[n].tx # callback'[d].tx
    <3>1. CASE callback'[d] = callback[d]
      BY <1>1, <1>5, <2>1, <3>1 DEF IInv, ConsumedForOne
    <3>2. CASE callback'[d] = locals
      BY <1>1, <1>2, <1>5, <3>2
    <3> QED BY <1>4, <3>1, <3>2
  <2>2. \A d, e \in Callbacks :
          /\ callback'[d].stage = "consumed" /\ callback'[e].stage = "consumed"
          /\ callback'[d].tx = callback'[e].tx
          => d = e
    BY <1>2, <1>4, <1>6 DEF IInv, ConsumedForOne
  <2> QED BY <2>1, <2>2 DEF ConsumedForOne
<1>8. FoundForAccount'
  BY <1>1, <1>2, <1>4 DEF IInv, FoundForAccount, Existing, ExternalId
<1> QED BY <1>1, <1>5, <1>7, <1>8, ConnectionsKept, WorkersKept DEF IInv

\* A callback that is free again has nothing in its hands.
LEMMA CallbackFreed ==
  ASSUME IInv, NEW c \in Callbacks, callback' = [callback EXCEPT ![c] = Free]
  PROVE  /\ callback' \in [Callbacks -> Locals]
         /\ callback'[c].stage = "free"
         /\ \A d \in Callbacks \ {c} : callback'[d] = callback[d]
         /\ UNCHANGED <<transactions, grants>> => ConsumedForOne'
<1>1. Free \in Locals /\ Free.stage = "free"
  BY DEF Free, Locals
<1>2. /\ callback' \in [Callbacks -> Locals]
      /\ callback'[c].stage = "free"
      /\ \A d \in Callbacks \ {c} : callback'[d] = callback[d]
  BY <1>1 DEF IInv, TypeOK, Locals
<1>3. ASSUME UNCHANGED <<transactions, grants>> PROVE ConsumedForOne'
  BY <1>2, <1>3 DEF IInv, ConsumedForOne
<1> QED BY <1>2, <1>3

LEMMA CallbackFailsInv ==
  ASSUME IInv, NEW c \in Callbacks, CallbackFails(c)
  PROVE  IInv'
<1>1. /\ UNCHANGED <<session, transactions, grants, withdrawn, connections, initial, worker, loads>>
      /\ callback' = [callback EXCEPT ![c] = Free]
  BY DEF CallbackFails, google
<1>2. /\ callback' \in [Callbacks -> Locals]
      /\ callback'[c].stage = "free"
      /\ \A d \in Callbacks \ {c} : callback'[d] = callback[d]
      /\ ConsumedForOne'
  BY <1>1, CallbackFreed
<1>3. TypeOK'
  BY SMTT(60), <1>1, <1>2 DEF IInv, TypeOK, Locals, External, Credential
<1>4. FoundForAccount'
  BY <1>1, <1>2 DEF IInv, FoundForAccount, Existing, ExternalId
<1> QED BY <1>1, <1>2, <1>3, <1>4, ConnectionsKept, WorkersKept, ExchangesKept DEF IInv

LEMMA LookUpConnectionInv ==
  ASSUME IInv, NEW c \in Callbacks, LookUpConnection(c)
  PROVE  IInv'
<1> DEFINE n == callback[c].grant
<1>1. /\ UNCHANGED <<session, transactions, grants, withdrawn, connections, initial, worker, loads>>
      /\ callback[c].stage = "exchanged"
      /\ callback' = [callback EXCEPT ![c] = [callback[c] EXCEPT !.stage = "identified",
                                                                 !.connection = IdFor(n)]]
  BY DEF LookUpConnection, google
<1>2. n \in DOMAIN grants
  BY <1>1 DEF IInv, FoundForAccount
<1>3. IdFor(n) = n \/ IdFor(n) \in Existing(n)
  BY DEF IdFor
<1>4. IdFor(n) \in DOMAIN grants
  BY <1>2, <1>3, RowFacts DEF IInv, Existing
<1>5. /\ callback' \in [Callbacks -> Locals]
      /\ callback'[c].stage = "identified"
      /\ callback'[c].grant = n
      /\ callback'[c].connection = IdFor(n)
      /\ \A d \in Callbacks \ {c} : callback'[d] = callback[d]
  <2> DEFINE locals == [callback[c] EXCEPT !.stage = "identified", !.connection = IdFor(n)]
  <2>1. callback \in [Callbacks -> Locals]
    BY DEF IInv, TypeOK, Locals
  <2>2. /\ locals \in Locals /\ locals.stage = "identified"
        /\ locals.grant = n /\ locals.connection = IdFor(n)
    BY <1>4, <2>1 DEF Locals
  <2>3. callback' = [callback EXCEPT ![c] = locals]
    BY <1>1
  <2> HIDE DEF locals
  <2>4. /\ callback' \in [Callbacks -> Locals]
        /\ callback'[c] = locals
        /\ \A d \in Callbacks \ {c} : callback'[d] = callback[d]
    BY <2>1, <2>2, <2>3
  <2> QED BY <2>2, <2>4
<1> HIDE DEF n
<1>6. TypeOK'
  BY SMTT(60), <1>1, <1>5 DEF IInv, TypeOK, Locals, External, Credential
<1>7. ConsumedForOne'
  BY <1>1, <1>5 DEF IInv, ConsumedForOne
<1>8. FoundForAccount'
  <2>1. \A m : Existing(m)' = Existing(m)
    BY <1>1 DEF Existing, ExternalId
  <2> QED BY <1>1, <1>2, <1>3, <1>5, <2>1 DEF IInv, FoundForAccount
<1> QED BY <1>1, <1>6, <1>7, <1>8, ConnectionsKept, WorkersKept, ExchangesKept DEF IInv

LEMMA ExchangeInv ==
  ASSUME IInv, NEW c \in Callbacks, NEW user \in Users, NEW families \in SUBSET Families,
         Exchange(c, user, families)
  PROVE  IInv'
<1> DEFINE t == callback[c].tx
           n == Len(grants) + 1
           grant == [tx |-> t, user |-> user, families |-> families]
           locals == [callback[c] EXCEPT !.stage = "exchanged", !.grant = n]
<1>1. /\ UNCHANGED <<session, transactions, withdrawn, connections, initial, worker, loads>>
      /\ callback[c].stage = "consumed"
      /\ grants' = Append(grants, grant)
      /\ callback' = [callback EXCEPT ![c] = locals]
  BY DEF Exchange
<1>2. /\ t \in DOMAIN transactions
      /\ transactions[t].state = "consumed"
      /\ \A m \in DOMAIN grants : grants[m].tx # t
      /\ \A d \in Callbacks : callback[d].stage = "consumed" /\ callback[d].tx = t => d = c
  BY <1>1 DEF IInv, ConsumedForOne
<1>3. grant \in Grant /\ grant.tx = t /\ grants \in Seq(Grant)
  BY <1>2 DEF Grant, IInv, TypeOK
<1>4. callback \in [Callbacks -> Locals]
  BY DEF IInv, TypeOK, Locals
<1> HIDE DEF grant
<1>5. /\ grants' \in Seq(Grant)
      /\ Len(grants) \in Nat
      /\ DOMAIN grants = 1..Len(grants)
      /\ DOMAIN grants' = 1..n
      /\ grants'[n] = grant
      /\ \A m \in DOMAIN grants : grants'[m] = grants[m]
  BY <1>1, <1>3, RowFacts DEF IInv
<1>6. /\ DOMAIN grants' = DOMAIN grants \cup {n}
      /\ DOMAIN grants \subseteq DOMAIN grants'
      /\ n \in DOMAIN grants' /\ n \notin DOMAIN grants
  BY <1>5
<1>7. /\ Locals \subseteq Locals'
      /\ locals \in Locals'
      /\ locals.stage = "exchanged"
      /\ locals.grant = n
  <2>1. Locals \subseteq Locals'
    BY <1>1, <1>6 DEF Locals
  <2>2. callback[c] \in Locals'
    BY <1>4, <2>1
  <2> QED BY <1>6, <2>1, <2>2 DEF Locals
<1> HIDE DEF locals, n, t
<1>8. /\ callback' \in [Callbacks -> Locals']
      /\ callback'[c].stage = "exchanged"
      /\ callback'[c].grant = n
      /\ \A d \in Callbacks \ {c} : callback'[d] = callback[d]
  <2>1. /\ callback' \in [Callbacks -> Locals']
        /\ callback'[c] = locals
        /\ \A d \in Callbacks \ {c} : callback'[d] = callback[d]
    BY <1>1, <1>4, <1>7
  <2> QED BY <1>7, <2>1
<1>9. \A m \in DOMAIN grants : ExternalId(m)' = ExternalId(m)
  BY <1>5 DEF ExternalId
<1>10. TypeOK'
  <2>1. transactions' \in Seq(Transaction') /\ grants' \in Seq(Grant')
    BY <1>1, <1>5 DEF Transaction, Grant, IInv, TypeOK
  <2>2. /\ withdrawn' \subseteq DOMAIN grants'
        /\ DOMAIN connections' \subseteq DOMAIN grants'
        /\ session' \in 1 .. MaxSessions
        /\ initial' \subseteq {<<k, f>> : k \in DOMAIN connections', f \in Families}
        /\ loads' \in 0 .. MaxLoads
    BY <1>1, <1>6 DEF IInv, TypeOK
  <2>3. worker' \in [Workers -> Progress']
    <3>1. Progress \subseteq Progress'
      BY <1>1, <1>6 DEF Progress
    <3>2. worker \in [Workers -> Progress]
      BY DEF IInv, TypeOK, Progress
    <3> QED BY <1>1, <3>1, <3>2
  <2>4. \A k \in DOMAIN connections' : connections'[k] \in Connection'
    <3>1. Connection \subseteq Connection'
      BY <1>6 DEF Connection, External, Credential
    <3> QED BY <1>1, <3>1, RowFacts DEF IInv
  <2> QED BY <1>8, <2>1, <2>2, <2>3, <2>4, TypesNext
<1>11. ConsumedForOne'
  <2>1. ASSUME NEW d \in Callbacks, callback'[d].stage = "consumed"
        PROVE  d # c /\ callback'[d] = callback[d]
    BY <1>8, <2>1
  <2>2. ASSUME NEW d \in Callbacks, callback'[d].stage = "consumed"
        PROVE  /\ callback'[d].tx \in DOMAIN transactions'
               /\ transactions'[callback'[d].tx].state = "consumed"
               /\ \A m \in DOMAIN grants' : grants'[m].tx # callback'[d].tx
    BY <1>1, <1>2, <1>3, <1>5, <1>6, <2>1, <2>2 DEF IInv, ConsumedForOne
  <2>3. \A d, e \in Callbacks :
          /\ callback'[d].stage = "consumed" /\ callback'[e].stage = "consumed"
          /\ callback'[d].tx = callback'[e].tx
          => d = e
    BY <2>1 DEF IInv, ConsumedForOne
  <2> QED BY <2>2, <2>3 DEF ConsumedForOne
<1>12. ExchangedOnce'
  BY <1>1, <1>2, <1>3, <1>5, <1>6 DEF IInv, ExchangedOnce
<1>13. FoundForAccount'
  <2>1. \A m \in DOMAIN grants : Existing(m)' = Existing(m)
    BY <1>1, <1>9 DEF Existing
  <2> QED BY <1>6, <1>8, <2>1 DEF IInv, FoundForAccount
<1>14. ProposedByAccount' /\ OneConnectionPerAccount'
  BY <1>1, <1>9, RowFacts DEF IInv, ProposedByAccount, OneConnectionPerAccount
<1>15. CredentialsFit'
  <2>1. \A k \in DOMAIN connections : connections[k].credential.grant \in DOMAIN grants
    BY RowFacts DEF IInv, Connection, Credential
  <2> QED BY <1>1, <1>9, <2>1 DEF IInv, CredentialsFit
<1>16. RefreshOfAccount'
  BY <1>1, <1>6, <1>9 DEF IInv, RefreshOfAccount
<1> QED BY <1>10, <1>11, <1>12, <1>13, <1>14, <1>15, <1>16 DEF IInv

LEMMA SaveInv ==
  ASSUME IInv, NEW c \in Callbacks, Save(c)
  PROVE  IInv'
<1> DEFINE n == callback[c].grant
           k == callback[c].connection
           row == [external |-> ExternalId(n), status |-> "active", scopes |-> grants[n].families,
                   credential |-> [grant |-> n, for |-> k]]
<1>1. /\ UNCHANGED <<session, transactions, grants, withdrawn, worker, loads>>
      /\ callback[c].stage = "identified"
      /\ SavedTo(c) = k
      /\ connections' = [i \in DOMAIN connections \cup {k} |-> IF i = k THEN row ELSE connections[i]]
      /\ initial' = initial \cup {<<k, f>> : f \in grants[n].families}
      /\ callback' = [callback EXCEPT ![c] = Free]
  BY DEF Save, SaveAllowed, QueuedFor, google
<1>2. n \in DOMAIN grants /\ (k = n \/ k \in Existing(n))
  BY <1>1 DEF IInv, FoundForAccount
<1>3. /\ k \in DOMAIN grants
      /\ Existing(n) = {} => k \notin DOMAIN connections
      /\ Existing(n) = {} => k = n /\ \A i \in DOMAIN connections : connections[i].external # ExternalId(n)
      /\ Existing(n) # {} => k \in DOMAIN connections /\ connections[k].external = ExternalId(n)
  <2>1. CASE Existing(n) = {}
    BY <1>2, <2>1 DEF IInv, ProposedByAccount, Existing
  <2>2. CASE Existing(n) # {}
    <3>1. k \in Existing(n)
      BY <1>1, <2>2 DEF SavedTo, IdFor
    <3> QED BY <2>2, <3>1, RowFacts DEF IInv, Existing
  <2> QED BY <2>1, <2>2
<1>4. /\ row \in Connection
      /\ row.external = ExternalId(n)
      /\ row.credential.grant = n
      /\ row.credential.for = k
      /\ grants[n].families \subseteq Families
  <2>1. grants[n] \in Grant
    BY <1>2, RowFacts DEF IInv
  <2>2. ExternalId(n) \in External
    BY <2>1 DEF ExternalId, External, Grant
  <2> QED BY <1>2, <1>3, <2>1, <2>2 DEF Connection, Credential, Grant
<1> HIDE DEF row
<1>5. /\ DOMAIN connections' = DOMAIN connections \cup {k}
      /\ connections'[k] = row
      /\ \A i \in DOMAIN connections : i # k => connections'[i] = connections[i]
  BY <1>1
<1>6. \A m : ExternalId(m)' = ExternalId(m)
  BY <1>1 DEF ExternalId
<1>7. \A i \in DOMAIN connections : connections'[i].external = connections[i].external
  BY <1>3, <1>4, <1>5
<1>8. /\ callback' \in [Callbacks -> Locals]
      /\ callback'[c].stage = "free"
      /\ \A d \in Callbacks \ {c} : callback'[d] = callback[d]
      /\ ConsumedForOne'
  BY <1>1, CallbackFreed
<1> HIDE DEF n, k
<1>9. TypeOK'
  <2>1. callback' \in [Callbacks -> Locals']
    BY <1>1, <1>8 DEF Locals
  <2>2. transactions' \in Seq(Transaction') /\ grants' \in Seq(Grant')
    BY <1>1 DEF Transaction, Grant, IInv, TypeOK
  <2>3. /\ withdrawn' \subseteq DOMAIN grants'
        /\ DOMAIN connections' \subseteq DOMAIN grants'
        /\ session' \in 1 .. MaxSessions
        /\ loads' \in 0 .. MaxLoads
    BY <1>1, <1>3, <1>5 DEF IInv, TypeOK
  <2>4. initial' \subseteq {<<i, f>> : i \in DOMAIN connections', f \in Families}
    BY <1>1, <1>4, <1>5 DEF IInv, TypeOK
  <2>5. worker' \in [Workers -> Progress']
    <3>1. Progress \subseteq Progress'
      BY <1>1, <1>5 DEF Progress
    <3>2. worker \in [Workers -> Progress]
      BY DEF IInv, TypeOK, Progress
    <3> QED BY <1>1, <3>1, <3>2
  <2>6. \A i \in DOMAIN connections' : connections'[i] \in Connection'
    <3>1. Connection = Connection'
      BY <1>1 DEF Connection, External, Credential
    <3> QED BY <1>4, <1>5, <3>1, RowFacts DEF IInv
  <2> QED BY <2>1, <2>2, <2>3, <2>4, <2>5, <2>6, TypesNext
<1>10. FoundForAccount'
  <2>1. \A m : Existing(m) \subseteq Existing(m)'
    BY <1>5, <1>6, <1>7 DEF Existing
  <2>2. \A d \in Callbacks : callback'[d].stage \in {"exchanged", "identified"} => callback'[d] = callback[d]
    BY <1>8
  <2> QED BY <1>1, <2>1, <2>2 DEF IInv, FoundForAccount
<1>11. ProposedByAccount'
  BY <1>3, <1>4, <1>5, <1>6, <1>7 DEF IInv, ProposedByAccount
<1>12. OneConnectionPerAccount'
  <2>1. \A i \in DOMAIN connections : i # k => connections[i].external # ExternalId(n)
    BY <1>3 DEF IInv, OneConnectionPerAccount
  <2> QED BY <1>4, <1>5, <2>1 DEF IInv, OneConnectionPerAccount
<1>13. CredentialsFit'
  <2>1. \A i \in DOMAIN connections' :
          /\ connections'[i].credential.for = i
          /\ ExternalId(connections'[i].credential.grant) = connections'[i].external
    BY <1>4, <1>5 DEF IInv, CredentialsFit
  <2> QED BY <1>6, <2>1 DEF CredentialsFit
<1>14. RefreshOfAccount'
  BY <1>1, <1>5, <1>6, <1>7 DEF IInv, RefreshOfAccount
<1> QED BY <1>1, <1>8, <1>9, <1>10, <1>11, <1>12, <1>13, <1>14, ExchangesKept DEF IInv

-----------------------------------------------------------------------------
(* Workers. *)

\* A connection's row is written, and its account stays.
LEMMA RowWritten ==
  ASSUME IInv, NEW k \in DOMAIN connections, NEW row \in Connection,
         UNCHANGED <<session, transactions, callback, grants, initial, loads>>,
         withdrawn' \subseteq DOMAIN grants,
         connections' = [connections EXCEPT ![k] = row],
         worker' \in [Workers -> Progress],
         \A w \in Workers : worker'[w].stage = "refreshing" => worker'[w] = worker[w],
         row.external = connections[k].external,
         row.credential.for = k,
         ExternalId(row.credential.grant) = row.external
  PROVE  IInv'
<1>1. /\ DOMAIN connections' = DOMAIN connections
      /\ connections'[k] = row
      /\ \A i \in DOMAIN connections : i # k => connections'[i] = connections[i]
      /\ \A i \in DOMAIN connections : connections'[i].external = connections[i].external
      /\ \A m : ExternalId(m)' = ExternalId(m)
  BY DEF ExternalId
<1>2. TypeOK'
  <2>1. callback' \in [Callbacks -> Locals'] /\ worker' \in [Workers -> Progress']
    BY <1>1 DEF Locals, Progress, IInv, TypeOK
  <2>2. transactions' \in Seq(Transaction') /\ grants' \in Seq(Grant')
    BY DEF Transaction, Grant, IInv, TypeOK
  <2>3. /\ withdrawn' \subseteq DOMAIN grants'
        /\ DOMAIN connections' \subseteq DOMAIN grants'
        /\ session' \in 1 .. MaxSessions
        /\ loads' \in 0 .. MaxLoads
        /\ initial' \subseteq {<<i, f>> : i \in DOMAIN connections', f \in Families}
    BY <1>1 DEF IInv, TypeOK
  <2>4. \A i \in DOMAIN connections' : connections'[i] \in Connection'
    <3>1. Connection = Connection'
      BY DEF Connection, External, Credential
    <3> QED BY <1>1, <3>1, RowFacts DEF IInv
  <2> QED BY <2>1, <2>2, <2>3, <2>4, TypesNext
<1>3. FoundForAccount'
  <2>1. \A m : Existing(m)' = Existing(m)
    BY <1>1 DEF Existing
  <2> QED BY <2>1 DEF IInv, FoundForAccount
<1>4. ProposedByAccount' /\ OneConnectionPerAccount'
  BY <1>1 DEF IInv, ProposedByAccount, OneConnectionPerAccount
<1>5. CredentialsFit'
  BY <1>1 DEF IInv, CredentialsFit
<1>6. RefreshOfAccount'
  BY <1>1 DEF IInv, RefreshOfAccount
<1> QED BY <1>2, <1>3, <1>4, <1>5, <1>6, ExchangesKept, ConsumedKept DEF IInv

\* A worker that rests keeps the types and holds nothing.
LEMMA WorkerRested ==
  ASSUME IInv, NEW w \in Workers, worker' = [worker EXCEPT ![w] = Resting]
  PROVE  /\ worker' \in [Workers -> Progress]
         /\ \A v \in Workers : worker'[v].stage = "refreshing" => worker'[v] = worker[v]
<1>1. Resting \in Progress /\ Resting.stage = "resting"
  BY DEF Resting, Progress
<1>2. worker \in [Workers -> Progress]
  BY DEF IInv, TypeOK, Progress
<1> QED BY <1>1, <1>2

LEMMA LoadCredentialsInv ==
  ASSUME IInv, NEW w \in Workers, NEW k \in DOMAIN connections, LoadCredentials(w, k)
  PROVE  IInv'
<1> DEFINE n == connections[k].credential.grant
           progress == [stage |-> "refreshing", connection |-> k, grant |-> n]
<1>1. /\ UNCHANGED <<session, transactions, callback, grants, withdrawn, connections>>
      /\ initial' \subseteq initial
      /\ loads < MaxLoads /\ loads' = loads + 1
      /\ worker' = worker \/ worker' = [worker EXCEPT ![w] = progress]
  BY DEF LoadCredentials, google
<1>2. n \in DOMAIN grants /\ ExternalId(n) = connections[k].external
  BY RowFacts DEF IInv, CredentialsFit, Connection, Credential
<1>3. /\ progress \in Progress
      /\ progress.connection = k
      /\ progress.grant = n
  BY <1>2 DEF Progress
<1>4. worker \in [Workers -> Progress]
  BY DEF IInv, TypeOK, Progress
<1> HIDE DEF progress, n
<1>5. /\ worker' \in [Workers -> Progress]
      /\ \A v \in Workers : worker'[v] = worker[v] \/ worker'[v] = progress
  BY <1>1, <1>3, <1>4
<1>6. TypeOK'
  <2>1. callback' \in [Callbacks -> Locals'] /\ worker' \in [Workers -> Progress']
    BY <1>1, <1>5 DEF Locals, Progress, IInv, TypeOK
  <2>2. transactions' \in Seq(Transaction') /\ grants' \in Seq(Grant')
    BY <1>1 DEF Transaction, Grant, IInv, TypeOK
  <2>3. /\ withdrawn' \subseteq DOMAIN grants'
        /\ DOMAIN connections' \subseteq DOMAIN grants'
        /\ session' \in 1 .. MaxSessions
        /\ initial' \subseteq {<<i, f>> : i \in DOMAIN connections', f \in Families}
    BY <1>1 DEF IInv, TypeOK
  <2>4. loads' \in 0 .. MaxLoads
    BY <1>1, ConnectionsAssumption DEF IInv, TypeOK
  <2>5. \A i \in DOMAIN connections' : connections'[i] \in Connection'
    BY <1>1, RowFacts DEF IInv, Connection, External, Credential
  <2> QED BY <2>1, <2>2, <2>3, <2>4, <2>5, TypesNext
<1>7. RefreshOfAccount'
  <2>1. \A m : ExternalId(m)' = ExternalId(m)
    BY <1>1 DEF ExternalId
  <2> QED BY <1>1, <1>2, <1>3, <1>5, <2>1 DEF IInv, RefreshOfAccount
<1> QED BY <1>1, <1>6, <1>7, ConnectionsKept, FoundKept, ExchangesKept, ConsumedKept DEF IInv

LEMMA SaveCredentialsInv ==
  ASSUME IInv, NEW w \in Workers, SaveCredentials(w)
  PROVE  IInv'
<1> DEFINE k == worker[w].connection
           row == [connections[k] EXCEPT !.credential = Encrypted(w)]
<1>1. /\ UNCHANGED <<session, transactions, callback, grants, withdrawn, initial, loads>>
      /\ worker[w].stage = "refreshing"
      /\ connections' = [connections EXCEPT ![k] = row]
      /\ worker' = [worker EXCEPT ![w] = Resting]
  BY DEF SaveCredentials, google
<1>2. /\ k \in DOMAIN connections
      /\ worker[w].grant \in DOMAIN grants
      /\ ExternalId(worker[w].grant) = connections[k].external
  BY <1>1 DEF IInv, RefreshOfAccount
<1>3. k \in DOMAIN grants /\ connections[k] \in Connection
  BY <1>2, RowFacts DEF IInv
<1>4. /\ row \in Connection
      /\ row.external = connections[k].external
      /\ row.credential.for = k
      /\ row.credential.grant = worker[w].grant
  BY <1>2, <1>3 DEF Connection, Credential, Encrypted
<1>5. withdrawn' \subseteq DOMAIN grants
  BY <1>1 DEF IInv, TypeOK
<1> HIDE DEF row, k
<1> QED BY <1>1, <1>2, <1>4, <1>5, WorkerRested, RowWritten

LEMMA RefreshRefusedInv ==
  ASSUME IInv, NEW w \in Workers, RefreshRefused(w)
  PROVE  IInv'
<1> DEFINE k == worker[w].connection
           row == [connections[k] EXCEPT !.status = "reauthorization_required"]
<1>1. /\ UNCHANGED <<session, transactions, callback, grants, withdrawn, initial, loads>>
      /\ worker[w].stage = "refreshing"
      /\ connections' = [connections EXCEPT ![k] = row]
      /\ worker' = [worker EXCEPT ![w] = Resting]
  BY DEF RefreshRefused, google
<1>2. k \in DOMAIN connections
  BY <1>1 DEF IInv, RefreshOfAccount
<1>3. connections[k] \in Connection
  BY <1>2, RowFacts DEF IInv
<1>4. /\ row \in Connection
      /\ row.external = connections[k].external
      /\ row.credential = connections[k].credential
  BY <1>3 DEF Connection
<1>5. /\ connections[k].credential.for = k
      /\ ExternalId(connections[k].credential.grant) = connections[k].external
  BY <1>2 DEF IInv, CredentialsFit
<1>6. withdrawn' \subseteq DOMAIN grants
  BY <1>1 DEF IInv, TypeOK
<1> HIDE DEF row, k
<1> QED BY <1>1, <1>2, <1>4, <1>5, <1>6, WorkerRested, RowWritten

\* Steps that touch neither the transactions nor the rows of connections.
LEMMA NothingWritten ==
  ASSUME IInv,
         UNCHANGED <<session, transactions, callback, grants, connections, initial, loads>>,
         withdrawn' \subseteq DOMAIN grants,
         worker' \in [Workers -> Progress],
         \A v \in Workers : worker'[v].stage = "refreshing" => worker'[v] = worker[v]
  PROVE  IInv'
<1>1. TypeOK'
  <2>1. callback' \in [Callbacks -> Locals'] /\ worker' \in [Workers -> Progress']
    BY DEF Locals, Progress, IInv, TypeOK
  <2>2. transactions' \in Seq(Transaction') /\ grants' \in Seq(Grant')
    BY DEF Transaction, Grant, IInv, TypeOK
  <2>3. /\ withdrawn' \subseteq DOMAIN grants'
        /\ DOMAIN connections' \subseteq DOMAIN grants'
        /\ session' \in 1 .. MaxSessions
        /\ initial' \subseteq {<<i, f>> : i \in DOMAIN connections', f \in Families}
        /\ loads' \in 0 .. MaxLoads
    BY DEF IInv, TypeOK
  <2>4. \A i \in DOMAIN connections' : connections'[i] \in Connection'
    BY RowFacts DEF IInv, Connection, External, Credential
  <2> QED BY <2>1, <2>2, <2>3, <2>4, TypesNext
<1>2. RefreshOfAccount'
  BY DEF IInv, RefreshOfAccount, ExternalId
<1> QED BY <1>1, <1>2, ConnectionsKept, FoundKept, ExchangesKept, ConsumedKept DEF IInv

LEMMA WorkerRestsInv ==
  ASSUME IInv, NEW w \in Workers, WorkerRests(w)
  PROVE  IInv'
<1>1. /\ UNCHANGED <<session, transactions, callback, grants, withdrawn, connections, initial, loads>>
      /\ worker' = [worker EXCEPT ![w] = Resting]
  BY DEF WorkerRests, google
<1>2. withdrawn' \subseteq DOMAIN grants
  BY <1>1 DEF IInv, TypeOK
<1> QED BY <1>1, <1>2, WorkerRested, NothingWritten

LEMMA WithdrawInv ==
  ASSUME IInv, NEW n \in DOMAIN grants, Withdraw(n)
  PROVE  IInv'
<1>1. /\ UNCHANGED <<session, transactions, callback, grants, connections, initial, worker, loads>>
      /\ withdrawn' = withdrawn \cup {n}
  BY DEF Withdraw
<1>2. withdrawn' \subseteq DOMAIN grants /\ worker' \in [Workers -> Progress]
  BY <1>1 DEF IInv, TypeOK, Progress
<1> QED BY <1>1, <1>2, NothingWritten

LEMMA StutterInv == ASSUME IInv, UNCHANGED vars PROVE IInv'
<1>1. /\ UNCHANGED <<session, transactions, callback, grants, connections, initial, worker, loads>>
      /\ UNCHANGED withdrawn
  BY DEF vars, google
<1>2. withdrawn' \subseteq DOMAIN grants /\ worker' \in [Workers -> Progress]
  BY <1>1 DEF IInv, TypeOK, Progress
<1> QED BY <1>1, <1>2, NothingWritten

-----------------------------------------------------------------------------
(* The invariant is preserved. *)

LEMMA NextInv == IInv /\ [Next]_vars => IInv'
<1> SUFFICES ASSUME IInv, [Next]_vars PROVE IInv'
  OBVIOUS
<1>1. CASE SessionRefreshed
  BY <1>1, SessionRefreshedInv
<1>2. ASSUME NEW s \in 1 .. session, NEW families \in SUBSET Families, Start(s, families)
      PROVE  IInv'
  BY <1>2, StartInv
<1>3. ASSUME NEW t \in DOMAIN transactions, TransactionExpires(t) PROVE IInv'
  BY <1>3, TransactionExpiresInv
<1>4. ASSUME NEW n \in DOMAIN grants, Withdraw(n) PROVE IInv'
  BY <1>4, WithdrawInv
<1>5. ASSUME NEW c \in Callbacks, Callback(c) PROVE IInv'
  <2>1. ASSUME NEW t \in DOMAIN transactions, NEW s \in 1 .. session, NEW granted \in BOOLEAN,
               Consume(c, t, s, granted)
        PROVE  IInv'
    BY <2>1, ConsumeInv
  <2>2. ASSUME NEW t \in DOMAIN transactions, RefuseCallback(c, t) PROVE IInv'
    BY <2>2, StutterInv DEF RefuseCallback
  <2>3. ASSUME NEW user \in Users, NEW families \in SUBSET Families, Exchange(c, user, families)
        PROVE  IInv'
    BY <2>3, ExchangeInv
  <2>4. CASE LookUpConnection(c)
    BY <2>4, LookUpConnectionInv
  <2>5. CASE Save(c)
    BY <2>5, SaveInv
  <2>6. CASE CallbackFails(c)
    BY <2>6, CallbackFailsInv
  <2> QED BY <1>5, <2>1, <2>2, <2>3, <2>4, <2>5, <2>6 DEF Callback
<1>6. ASSUME NEW w \in Workers, Work(w) PROVE IInv'
  <2>1. ASSUME NEW k \in DOMAIN connections, LoadCredentials(w, k) PROVE IInv'
    BY <2>1, LoadCredentialsInv
  <2>2. CASE SaveCredentials(w)
    BY <2>2, SaveCredentialsInv
  <2>3. CASE RefreshRefused(w)
    BY <2>3, RefreshRefusedInv
  <2>4. CASE WorkerRests(w)
    BY <2>4, WorkerRestsInv
  <2> QED BY <1>6, <2>1, <2>2, <2>3, <2>4 DEF Work
<1>7. CASE UNCHANGED vars
  BY <1>7, StutterInv
<1> QED BY <1>1, <1>2, <1>3, <1>4, <1>5, <1>6, <1>7 DEF Next

THEOREM Invariant == Spec => []IInv
<1>1. Init => IInv
  BY InitInv
<1>2. IInv /\ [Next]_vars => IInv'
  BY NextInv
<1> QED BY <1>1, <1>2, PTL DEF Spec

\* Transactions, callbacks, grants, connections and workers are well formed; in
\* particular an initial job is queued only for a connection that exists.
THEOREM TypeCorrect == Spec => []TypeOK
<1>1. IInv => TypeOK
  BY DEF IInv
<1> QED BY <1>1, Invariant, PTL

\* However often a callback is delivered, its transaction brings one grant.
THEOREM TransactionsAreExchangedOnce == Spec => []ExchangedOnce
<1>1. IInv => ExchangedOnce
  BY DEF IInv
<1> QED BY <1>1, Invariant, PTL

\* However many callbacks race for an account, it gets one connection.
THEOREM AccountsConnectOnce == Spec => []OneConnectionPerAccount
<1>1. IInv => OneConnectionPerAccount
  BY DEF IInv
<1> QED BY <1>1, Invariant, PTL

\* Whichever callbacks and workers write them, the credentials of a connection can be
\* decrypted and are of its account.
THEOREM CredentialsAlwaysFit == Spec => []CredentialsFit
<1>1. IInv => CredentialsFit
  BY DEF IInv
<1> QED BY <1>1, Invariant, PTL

=============================================================================
