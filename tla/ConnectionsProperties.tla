------------------------ MODULE ConnectionsProperties ------------------------
(***************************************************************************)
(* What the connections of a workspace should guarantee.                   *)
(***************************************************************************)
EXTENDS Connections

External == [user : Users, byAddress : BOOLEAN]
Credential == [grant : DOMAIN grants, for : DOMAIN grants]

\* The type invariant of transactions, callbacks, grants, connections and workers.
TypeOK ==
  /\ session \in 1 .. MaxSessions
  /\ transactions \in Seq([session : 1 .. session, families : (SUBSET Families) \ {{}},
                           state : {"open", "consumed", "expired"}])
  /\ callback \in [Callbacks ->
       [stage : {"free", "consumed", "exchanged", "identified"},
        tx : {0} \cup DOMAIN transactions, grant : {0} \cup DOMAIN grants,
        connection : {0} \cup DOMAIN grants]]
  /\ grants \in Seq([tx : DOMAIN transactions, user : Users, families : SUBSET Families])
  /\ withdrawn \subseteq DOMAIN grants
  /\ DOMAIN connections \subseteq DOMAIN grants
  /\ \A k \in DOMAIN connections :
       connections[k] \in [external : External, scopes : SUBSET Families,
                           credential : Credential,
                           status : {"active", "reauthorization_required"}]
  /\ initial \subseteq {<<k, f>> : k \in DOMAIN connections, f \in Families}
  /\ worker \in [Workers ->
       [stage : {"resting", "refreshing"}, connection : {0} \cup DOMAIN connections,
        grant : {0} \cup DOMAIN grants]]
  /\ loads \in 0 .. MaxLoads

\* A transaction is good for one grant: a callback that comes twice, late, or at the
\* same time in two requests never exchanges a code again under it, and what did not
\* come of an open transaction never does.
ExchangedOnce ==
  /\ \A n, m \in DOMAIN grants : grants[n].tx = grants[m].tx => n = m
  /\ \A n \in DOMAIN grants : transactions[grants[n].tx].state = "consumed"

\* Callbacks that race for an account that is not connected yet connect it once.
OneConnectionPerAccount ==
  \A k, i \in DOMAIN connections : connections[k].external = connections[i].external => k = i

\* The credentials of a connection can be decrypted, for they were encrypted for its
\* id, and are of its own account, whichever callbacks and workers wrote them.
CredentialsFit ==
  \A k \in DOMAIN connections :
    LET credential == connections[k].credential
    IN /\ credential.for = k
       /\ ExternalId(credential.grant) = connections[k].external

\* Documented: the scope rows are exact.  They are the scopes of the credentials they
\* were saved with, for a job refuses credentials whose scopes differ.
CredentialsMatchScopes ==
  \A k \in DOMAIN connections :
    grants[connections[k].credential.grant].families = connections[k].scopes

=============================================================================
