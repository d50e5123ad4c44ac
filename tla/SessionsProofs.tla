--------------------------- MODULE SessionsProofs ----------------------------
(***************************************************************************)
(* Machine-checked proofs about Sessions: for any number of requests,      *)
(* sessions and ticks the session rows are well formed, a family is one    *)
(* chain within the life its login gave it, an account is verified once,   *)
(* a family that has ended stays ended, and Sessions implements            *)
(* SessionFamily.                                                          *)
(***************************************************************************)
EXTENDS SessionsProperties, SequenceTheorems, TLAPS

Stages == {"idle", "mail", "login", "rotating", "replayed", "revoking", "leaving"}

Accounts == [status : {"absent", "pending_verification", "active"}, version : Nat,
             link : {"none", "unsent", "sent", "lost", "used"}, linkExpires : Nat,
             workspaces : Nat]

\* What a request under way knows of the session it works on: while it holds
\* the lock of a session it found usable, nothing else has ended it, and no
\* session has two holders.
LocksHold ==
  /\ \A r \in Requests :
       /\ request[r].stage \in {"rotating", "replayed", "revoking", "leaving"}
            => request[r].session \in Ids
       /\ request[r].stage = "rotating"
            => ~sessions[request[r].session].rotated /\ ~sessions[request[r].session].revoked
  /\ \A r, q \in Requests, s \in Ids : s \in Locks(r) /\ s \in Locks(q) => r = q

\* A family bears the number of its first session.
FamiliesAreOld == \A s \in Ids : sessions[s].family \in 1..s

\* One registration waits for its mail, and sessions belong to an account that
\* is active and whose link has been used.
RegistrationOrder ==
  /\ \A r \in Requests : request[r].stage = "mail" => account.link = "unsent"
  /\ \A r, q \in Requests : request[r].stage = "mail" /\ request[q].stage = "mail" => r = q
  /\ account.status = "absent" <=> account.link = "none"
  /\ account.status = "active" <=> account.link = "used"
  /\ account.status # "active" => sessions = <<>>
  /\ \A r \in Requests : request[r].stage = "login" =>
       account.status = "active" /\ request[r].version = account.version

IInv ==
  /\ account \in Accounts
  /\ TypeOK
  /\ LocksHold
  /\ FamiliesAreOld
  /\ RegistrationOrder
  /\ OneChainPerFamily
  /\ FamilyEnds
  /\ VerifiedOnce

-----------------------------------------------------------------------------
(* What the steps do to the rows. *)

\* A new row is the last one, and the others stay as they are but for those
\* that were changed in place.
LEMMA AppendedRow ==
  ASSUME NEW rows \in Seq(Rows), NEW row \in Rows
  PROVE  /\ Append(rows, row) \in Seq(Rows)
         /\ Len(Append(rows, row)) = Len(rows) + 1
         /\ DOMAIN Append(rows, row) = 1..(Len(rows) + 1)
         /\ Append(rows, row)[Len(rows) + 1] = row
         /\ \A i \in 1..Len(rows) : Append(rows, row)[i] = rows[i]
OBVIOUS

\* Revoking rows keeps their number and everything else about them.
LEMMA RevokedRowsFacts ==
  ASSUME NEW rows \in Seq(Rows), NEW ids
  PROVE  /\ RevokedRows(rows, ids) \in Seq(Rows)
         /\ Len(RevokedRows(rows, ids)) = Len(rows)
         /\ DOMAIN RevokedRows(rows, ids) = 1..Len(rows)
         /\ \A i \in 1..Len(rows) :
              /\ RevokedRows(rows, ids)[i] \in Rows
              /\ RevokedRows(rows, ids)[i].family = rows[i].family
              /\ RevokedRows(rows, ids)[i].expires = rows[i].expires
              /\ RevokedRows(rows, ids)[i].version = rows[i].version
              /\ RevokedRows(rows, ids)[i].issued = rows[i].issued
              /\ RevokedRows(rows, ids)[i].rotated = rows[i].rotated
              /\ RevokedRows(rows, ids)[i].revoked = (i \in ids \/ rows[i].revoked)
<1> DEFINE revoked == RevokedRows(rows, ids)
<1>1. DOMAIN rows = 1..Len(rows) /\ Len(rows) \in Nat
  BY LenProperties
<1>2. \A i \in 1..Len(rows) : rows[i] \in Rows
  BY ElementOfSeq
<1>3. \A i \in 1..Len(rows) : revoked[i] = IF i \in ids THEN [rows[i] EXCEPT !.revoked = TRUE] ELSE rows[i]
  BY <1>1 DEF RevokedRows
<1>4. \A i \in 1..Len(rows) :
        /\ revoked[i] \in Rows
        /\ revoked[i].family = rows[i].family
        /\ revoked[i].expires = rows[i].expires
        /\ revoked[i].version = rows[i].version
        /\ revoked[i].issued = rows[i].issued
        /\ revoked[i].rotated = rows[i].rotated
        /\ revoked[i].revoked = (i \in ids \/ rows[i].revoked)
  BY ZenonT(60), <1>2, <1>3 DEF Rows
<1>5. revoked \in [1..Len(rows) -> Rows]
  BY <1>1, <1>4 DEF RevokedRows
<1>6. revoked \in Seq(Rows)
  BY <1>1, <1>5, SeqDef
<1>7. Len(revoked) = Len(rows) /\ DOMAIN revoked = 1..Len(rows)
  BY <1>1, <1>5, <1>6, LenProperties DEF RevokedRows
<1> HIDE DEF revoked
<1> QED BY <1>4, <1>6, <1>7 DEF revoked

-----------------------------------------------------------------------------
(* The invariant holds initially, and a step that leaves the rows alone keeps *)
(* what is said of the rows.                                                 *)

\* What can be read off the invariant about the numbers of the rows.
LEMMA RowFacts ==
  ASSUME TypeOK
  PROVE  /\ sessions \in Seq(Rows)
         /\ Len(sessions) \in Nat
         /\ Ids = 1..Len(sessions)
         /\ \A s \in Ids : sessions[s] \in Rows
  BY LenProperties, ElementOfSeq DEF TypeOK, Ids

LEMMA InitInv == Init => IInv
<1> SUFFICES ASSUME Init PROVE IInv
  OBVIOUS
<1>1. sessions = <<>> /\ Len(sessions) = 0 /\ Ids = {} /\ sessions \in Seq(Rows)
  BY DEF Init, Ids
<1>2. \A r \in Requests : request[r] = Idle
  BY DEF Init
<1>3. TypeOK
  BY <1>1, <1>2 DEF Init, TypeOK, NoAccount, Idle
<1>4. account \in Accounts
  BY DEF Init, Accounts, NoAccount
<1>5. LocksHold
  BY <1>1, <1>2 DEF LocksHold, Idle
<1>6. RegistrationOrder
  BY <1>1, <1>2 DEF Init, RegistrationOrder, NoAccount, Idle
<1>7. FamiliesAreOld /\ OneChainPerFamily /\ FamilyEnds /\ VerifiedOnce
  BY <1>1 DEF Init, FamiliesAreOld, OneChainPerFamily, FamilyEnds, VerifiedOnce, NoAccount
<1> QED BY <1>3, <1>4, <1>5, <1>6, <1>7 DEF IInv

\* Chains and lives of families are facts of the rows alone.
LEMMA RowsKept ==
  ASSUME IInv, UNCHANGED sessions
  PROVE  FamiliesAreOld' /\ OneChainPerFamily' /\ FamilyEnds'
  BY DEF IInv, FamiliesAreOld, OneChainPerFamily, FamilyEnds, Ids, FamilyOf, Newest

\* So are the locks, of those whose request stays where it is.
LEMMA LocksKept ==
  ASSUME LocksHold, UNCHANGED sessions,
         \A r \in Requests : request'[r].stage \in {"idle", "mail", "login"}
                             \/ request'[r] = request[r]
  PROVE  LocksHold'
<1>1. \A r \in Requests :
        /\ request'[r].stage \in {"rotating", "replayed", "revoking", "leaving"}
             => request'[r].session \in Ids'
        /\ request'[r].stage = "rotating"
             => /\ ~sessions'[request'[r].session].rotated
                /\ ~sessions'[request'[r].session].revoked
  BY DEF LocksHold, Ids
<1>2. \A r \in Requests : Locks(r)' = {} \/ Locks(r)' = Locks(r)
  BY DEF Locks
<1>3. \A r, q \in Requests, s \in Ids' : s \in Locks(r)' /\ s \in Locks(q)' => r = q
  BY <1>2 DEF LocksHold, Ids
<1> QED BY <1>1, <1>3 DEF LocksHold

LEMMA TickInv == IInv /\ Tick => IInv'
<1> SUFFICES ASSUME IInv, Tick PROVE IInv'
  OBVIOUS
<1>1. UNCHANGED <<account, sessions, request>>
  BY DEF Tick
<1>2. TypeOK' /\ (account \in Accounts)'
  BY <1>1 DEF IInv, TypeOK, Tick, Ids
<1>3. LocksHold' /\ RegistrationOrder' /\ VerifiedOnce'
  BY <1>1 DEF IInv, LocksHold, Locks, RegistrationOrder, VerifiedOnce, Ids
<1> QED BY <1>1, <1>2, <1>3, RowsKept DEF IInv

-----------------------------------------------------------------------------
(* Registration and verification. *)

LEMMA RegisterInv ==
  ASSUME IInv, NEW r \in Requests, Register(r)
  PROVE  IInv'
<1>0. clock + VerifyLifetime \in Nat
  BY SessionsAssumption DEF IInv, TypeOK
<1>1. UNCHANGED sessions /\ UNCHANGED clock
  BY DEF Register
<1>2. /\ account' \in Accounts
      /\ account'.status = "pending_verification"
      /\ account'.link = "unsent"
      /\ account'.workspaces = account.workspaces
      /\ account'.version = account.version
      /\ account'.linkExpires \in Nat
  BY <1>0 DEF IInv, Register, Accounts
<1>3. /\ \A q \in Requests \ {r} : request'[q] = request[q]
      /\ request'[r] = [request[r] EXCEPT !.stage = "mail"]
      /\ request'[r].stage = "mail"
  BY DEF IInv, TypeOK, Register, Free
<1>4. account.status = "absent" /\ account.link = "none"
  BY DEF IInv, RegistrationOrder, Register
<1>5. TypeOK'
  BY ZenonT(60), <1>1, <1>2, RowFacts DEF IInv, TypeOK, Register, Accounts, Ids
<1>6. LocksHold'
  BY <1>1, <1>3, LocksKept DEF IInv
<1>7. RegistrationOrder'
  <2>1. \A q \in Requests : request[q].stage # "mail" /\ request[q].stage # "login"
    BY <1>4 DEF IInv, RegistrationOrder
  <2>2. \A q \in Requests : request'[q].stage = "mail" => q = r
    BY <1>3, <2>1
  <2>3. \A q \in Requests : request'[q].stage # "login"
    BY <1>3, <2>1 DEF IInv, TypeOK
  <2> QED BY <1>1, <1>2, <1>4, <2>2, <2>3 DEF IInv, RegistrationOrder
<1>8. VerifiedOnce'
  BY <1>1, <1>2, <1>4 DEF IInv, VerifiedOnce, Ids
<1> QED BY <1>1, <1>2, <1>5, <1>6, <1>7, <1>8, RowsKept DEF IInv

\* A request that ends gives up its locks.
LEMMA Answered ==
  ASSUME IInv, NEW r \in Requests, Answer(r), UNCHANGED sessions
  PROVE  /\ LocksHold'
         /\ request' \in [Requests -> [stage : Stages, session : 0..Len(sessions'),
                                       version : Nat, seen : SUBSET Ids']]
         /\ request'[r].stage = "idle"
         /\ \A q \in Requests \ {r} : request'[q] = request[q]
<1>1. /\ request'[r] = Idle
      /\ \A q \in Requests \ {r} : request'[q] = request[q]
  BY DEF IInv, TypeOK, Answer
<1>2. request' \in [Requests -> [stage : Stages, session : 0..Len(sessions'),
                                 version : Nat, seen : SUBSET Ids']]
  BY <1>1, RowFacts DEF IInv, TypeOK, Answer, Idle, Stages, Ids
<1>3. LocksHold'
  BY <1>1, LocksKept DEF IInv, Idle
<1> QED BY <1>1, <1>2, <1>3 DEF Idle

\* The registration's request ends and its mail is sent or lost.
LEMMA MailEnded ==
  ASSUME IInv, NEW r \in Requests, Answer(r), request[r].stage = "mail",
         UNCHANGED <<sessions, clock>>,
         account' \in Accounts,
         account'.link \in {"sent", "lost"},
         \A f \in {"status", "version", "linkExpires", "workspaces"} : account'[f] = account[f]
  PROVE  IInv'
<1>1. /\ account'.status = account.status
      /\ account'.version = account.version
      /\ account'.workspaces = account.workspaces
  OBVIOUS
<1>2. account.link = "unsent" /\ account.status # "absent" /\ account.status # "active"
  BY DEF IInv, RegistrationOrder
<1>3. /\ LocksHold'
      /\ request'[r].stage = "idle"
      /\ \A q \in Requests \ {r} : request'[q] = request[q]
      /\ request' \in [Requests -> [stage : Stages, session : 0..Len(sessions'),
                                    version : Nat, seen : SUBSET Ids']]
  BY Answered
<1>4. TypeOK'
  BY <1>3 DEF IInv, TypeOK, Stages, Accounts, Ids
<1>5. RegistrationOrder'
  <2>1. \A q \in Requests : request'[q].stage # "mail"
    BY <1>3 DEF IInv, RegistrationOrder
  <2>2. \A q \in Requests : request'[q].stage # "login"
    BY <1>2, <1>3 DEF IInv, RegistrationOrder
  <2> QED BY <1>1, <1>2, <2>1, <2>2 DEF IInv, RegistrationOrder
<1>6. VerifiedOnce'
  BY <1>1 DEF IInv, VerifiedOnce, Ids
<1> QED BY <1>3, <1>4, <1>5, <1>6, RowsKept DEF IInv

LEMMA SendVerificationInv ==
  ASSUME IInv, NEW r \in Requests, NEW delivered \in BOOLEAN, SendVerification(r, delivered)
  PROVE  IInv'
<1>1. UNCHANGED sessions /\ UNCHANGED clock /\ Answer(r) /\ request[r].stage = "mail"
  BY DEF SendVerification
<1>2. /\ account' \in Accounts
      /\ account'.link \in {"sent", "lost"}
      /\ \A f \in {"status", "version", "linkExpires", "workspaces"} : account'[f] = account[f]
  BY DEF IInv, SendVerification, Accounts
<1> QED BY <1>1, <1>2, MailEnded DEF IInv

LEMMA VerifyEmailInv ==
  ASSUME IInv, NEW r \in Requests, VerifyEmail(r)
  PROVE  IInv'
<1>0. account.version + 1 \in Nat /\ account.workspaces + 1 \in Nat
  BY DEF IInv, Accounts
<1>1. UNCHANGED <<sessions, request, clock>>
  BY DEF VerifyEmail
<1>2. account.link = "sent" /\ account.status # "active" /\ account.status # "absent"
  BY DEF IInv, RegistrationOrder, VerifyEmail, LinkValid
<1>3. /\ account' \in Accounts
      /\ account'.status = "active"
      /\ account'.link = "used"
      /\ account'.workspaces = account.workspaces + 1
  BY <1>0 DEF IInv, VerifyEmail, Accounts
<1>4. sessions = <<>> /\ Ids = {}
  BY <1>2 DEF IInv, RegistrationOrder, Ids
<1>5. \A q \in Requests : request[q].stage # "mail" /\ request[q].stage # "login"
  BY <1>2 DEF IInv, RegistrationOrder
<1>6. TypeOK'
  BY <1>1, <1>3 DEF IInv, TypeOK, Accounts, Ids
<1>7. LocksHold'
  BY <1>1 DEF IInv, LocksHold, Locks, Ids
<1>8. RegistrationOrder'
  BY <1>1, <1>3, <1>4, <1>5 DEF RegistrationOrder
<1>9. VerifiedOnce'
  BY <1>1, <1>2, <1>3, <1>4 DEF IInv, VerifiedOnce, Ids
<1> QED BY <1>1, <1>3, <1>6, <1>7, <1>8, <1>9, RowsKept DEF IInv

-----------------------------------------------------------------------------
(* Requests that read, and requests that end without writing. *)

\* A request goes on to a stage that is not the sending of mail, while account,
\* sessions and clock stay as they are: what remains to show is that the
\* request and its locks are in order.
LEMMA OnlyRequestMoves ==
  ASSUME IInv, NEW r \in Requests,
         UNCHANGED <<account, sessions, clock>>,
         request' \in [Requests -> [stage : Stages, session : 0..Len(sessions),
                                    version : Nat, seen : SUBSET Ids]],
         \A q \in Requests \ {r} : request'[q] = request[q],
         request'[r].stage # "mail",
         request'[r].stage = "login"
           => account.status = "active" /\ request'[r].version = account.version,
         LocksHold'
  PROVE  IInv'
<1>1. TypeOK'
  BY DEF IInv, TypeOK, Stages, Ids
<1>2. RegistrationOrder'
  BY DEF IInv, RegistrationOrder
<1>3. VerifiedOnce'
  BY DEF IInv, VerifiedOnce, Ids
<1> QED BY <1>1, <1>2, <1>3, RowsKept DEF IInv

LEMMA LoginLookupInv ==
  ASSUME IInv, NEW r \in Requests, LoginLookup(r)
  PROVE  IInv'
<1>1. UNCHANGED <<account, sessions, clock>> /\ account.status = "active" /\ request[r].stage = "idle"
  BY DEF LoginLookup, Free
<1>2. account.version \in Nat
  BY DEF IInv, Accounts
<1>3. /\ request'[r].stage = "login"
      /\ request'[r].version = account.version
      /\ \A q \in Requests \ {r} : request'[q] = request[q]
      /\ request' \in [Requests -> [stage : Stages, session : 0..Len(sessions),
                                    version : Nat, seen : SUBSET Ids]]
  BY <1>2 DEF IInv, TypeOK, LoginLookup, Stages
<1>4. LocksHold'
  BY <1>1, <1>3 DEF IInv, LocksHold, Locks, Ids
<1> QED BY <1>1, <1>3, <1>4, OnlyRequestMoves

LEMMA RefreshLookupInv ==
  ASSUME IInv, NEW r \in Requests, NEW s \in Ids, RefreshLookup(r, s)
  PROVE  IInv'
<1>1. /\ UNCHANGED <<account, sessions, clock>>
      /\ request[r].stage = "idle"
      /\ request' = [request EXCEPT ![r] = [request[r] EXCEPT
           !.stage = IF sessions[s].rotated THEN "replayed" ELSE "rotating", !.session = s]]
  BY DEF RefreshLookup, Free
<1>2. s \in 0..Len(sessions)
  BY RowFacts DEF IInv
<1>3. /\ request'[r].stage \in {"replayed", "rotating"}
      /\ request'[r].session = s
      /\ \A q \in Requests \ {r} : request'[q] = request[q]
      /\ request' \in [Requests -> [stage : Stages, session : 0..Len(sessions),
                                    version : Nat, seen : SUBSET Ids]]
  BY ZenonT(60), <1>1, <1>2 DEF IInv, TypeOK, Stages
<1>4. request'[r].stage = "rotating" => ~sessions[s].rotated /\ ~sessions[s].revoked
  BY <1>1 DEF IInv, TypeOK, RefreshLookup, Usable
<1>5. \A q \in Requests \ {r} : s \notin Locks(q)
  BY DEF RefreshLookup, Unlocked
<1>6. Locks(r)' = {s} /\ \A q \in Requests \ {r} : Locks(q)' = Locks(q)
  BY <1>3 DEF Locks
<1>7. LocksHold'
  <2>1. \A q \in Requests :
          /\ request'[q].stage \in {"rotating", "replayed", "revoking", "leaving"}
               => request'[q].session \in Ids'
          /\ request'[q].stage = "rotating"
               => /\ ~sessions'[request'[q].session].rotated
                  /\ ~sessions'[request'[q].session].revoked
    BY <1>1, <1>3, <1>4 DEF IInv, LocksHold, Ids
  <2>2. \A p, q \in Requests, t \in Ids' : t \in Locks(p)' /\ t \in Locks(q)' => p = q
    BY <1>1, <1>5, <1>6 DEF IInv, LocksHold, Ids
  <2> QED BY <2>1, <2>2 DEF LocksHold
<1> QED BY <1>1, <1>3, <1>7, OnlyRequestMoves

LEMMA RevokeSnapshotInv ==
  ASSUME IInv, NEW r \in Requests, RevokeSnapshot(r)
  PROVE  IInv'
<1>1. UNCHANGED <<account, sessions, clock>> /\ request[r].stage = "replayed"
  BY DEF RevokeSnapshot
<1>2. /\ request'[r].stage = "revoking"
      /\ request'[r].session = request[r].session
      /\ \A q \in Requests \ {r} : request'[q] = request[q]
      /\ request' \in [Requests -> [stage : Stages, session : 0..Len(sessions),
                                    version : Nat, seen : SUBSET Ids]]
  BY ZenonT(60) DEF IInv, TypeOK, RevokeSnapshot, Stages, FamilyOf
<1>3. \A q \in Requests : Locks(q)' = Locks(q)
  BY <1>1, <1>2 DEF Locks
<1>4. LocksHold'
  <2>1. \A q \in Requests :
          /\ request'[q].stage \in {"rotating", "replayed", "revoking", "leaving"}
               => request'[q].session \in Ids'
          /\ request'[q].stage = "rotating"
               => /\ ~sessions'[request'[q].session].rotated
                  /\ ~sessions'[request'[q].session].revoked
    BY <1>1, <1>2 DEF IInv, LocksHold, Ids
  <2>2. \A p, q \in Requests, t \in Ids' : t \in Locks(p)' /\ t \in Locks(q)' => p = q
    BY <1>1, <1>3 DEF IInv, LocksHold, Ids
  <2> QED BY <2>1, <2>2 DEF LocksHold
<1> QED BY <1>1, <1>2, <1>4, OnlyRequestMoves

LEMMA LogoutCheckInv ==
  ASSUME IInv, NEW r \in Requests, NEW s \in Ids, LogoutCheck(r, s)
  PROVE  IInv'
<1>1. /\ UNCHANGED <<account, sessions, clock>>
      /\ request[r].stage = "idle"
      /\ request' = [request EXCEPT ![r] = [request[r] EXCEPT !.stage = "leaving", !.session = s]]
  BY DEF LogoutCheck, Free
<1>2. s \in 0..Len(sessions)
  BY RowFacts DEF IInv
<1>3. /\ request'[r].stage = "leaving"
      /\ request'[r].session = s
      /\ \A q \in Requests \ {r} : request'[q] = request[q]
      /\ request' \in [Requests -> [stage : Stages, session : 0..Len(sessions),
                                    version : Nat, seen : SUBSET Ids]]
  BY <1>1, <1>2 DEF IInv, TypeOK, Stages
<1>4. LocksHold'
  BY <1>1, <1>3 DEF IInv, LocksHold, Locks, Ids
<1> QED BY <1>1, <1>3, <1>4, OnlyRequestMoves

LEMMA AbortInv ==
  ASSUME IInv, NEW r \in Requests, Abort(r)
  PROVE  IInv'
<1>1. UNCHANGED <<sessions, clock>> /\ Answer(r)
  BY DEF Abort
<1>2. CASE request[r].stage = "mail"
  <2>1. /\ account' \in Accounts
        /\ account'.link \in {"sent", "lost"}
        /\ \A f \in {"status", "version", "linkExpires", "workspaces"} : account'[f] = account[f]
    BY <1>2 DEF IInv, Abort, Accounts
  <2> QED BY <1>1, <1>2, <2>1, MailEnded
<1>3. CASE request[r].stage # "mail"
  <2>1. UNCHANGED account
    BY <1>3 DEF Abort
  <2>2. /\ LocksHold'
        /\ request'[r].stage = "idle"
        /\ \A q \in Requests \ {r} : request'[q] = request[q]
        /\ request' \in [Requests -> [stage : Stages, session : 0..Len(sessions),
                                      version : Nat, seen : SUBSET Ids]]
    BY <1>1, Answered DEF Ids
  <2> QED BY <1>1, <2>1, <2>2, OnlyRequestMoves
<1> QED BY <1>2, <1>3

-----------------------------------------------------------------------------
(* Requests that write sessions. *)

\* A row is added behind the others, by a login to a family of its own or by a
\* rotation to the family of the row it replaces.
LEMMA RowAdded ==
  ASSUME IInv, NEW r \in Requests, Answer(r), UNCHANGED <<account, clock>>,
         NEW rows \in Seq(Rows), Len(rows) = Len(sessions),
         NEW row \in Rows, sessions' = Append(rows, row),
         row.issued < row.expires,
         row.version = account.version, account.status = "active",
         row.family \in 1..(Len(sessions) + 1),
         row.family # Len(sessions) + 1 => row.expires <= sessions[row.family].expires,
         \A s \in Ids :
           /\ \A f \in {"family", "expires", "version", "issued", "revoked"} : rows[s][f] = sessions[s][f]
           /\ rows[s].rotated = sessions[s].rotated
              \/ \A q \in Requests \ {r} : s \notin Locks(q)
           /\ sessions[s].rotated => rows[s].rotated
           /\ rows[s].family = row.family => rows[s].rotated
  PROVE  IInv'
<1> DEFINE n == Len(sessions) + 1
<1>1. /\ Len(sessions) \in Nat
      /\ Ids = 1..Len(sessions)
      /\ Ids' = 1..n
      /\ Len(sessions') = n
      /\ sessions' \in Seq(Rows)
      /\ sessions'[n] = row
      /\ \A s \in Ids : sessions'[s] = rows[s]
  BY RowFacts, AppendedRow DEF IInv, Ids
<1>2. \A s \in Ids : /\ sessions'[s].family = sessions[s].family
                     /\ sessions'[s].expires = sessions[s].expires
                     /\ sessions'[s].version = sessions[s].version
                     /\ sessions'[s].issued = sessions[s].issued
                     /\ sessions'[s].revoked = sessions[s].revoked
  BY <1>1
<1>3. Ids' = Ids \cup {n} /\ n \notin Ids
  BY <1>1
<1>4. /\ request'[r] = Idle
      /\ request'[r].stage = "idle"
      /\ \A q \in Requests \ {r} : request'[q] = request[q]
  BY DEF IInv, TypeOK, Answer, Idle
<1>5. TypeOK'
  <2>1. request' \in [Requests ->
          [stage : {"idle", "mail", "login", "rotating", "replayed", "revoking", "leaving"},
           session : 0..Len(sessions'), version : Nat, seen : SUBSET Ids']]
    <3>1. Idle \in [stage : {"idle", "mail", "login", "rotating", "replayed", "revoking", "leaving"},
                    session : 0..Len(sessions'), version : Nat, seen : SUBSET Ids']
      BY <1>1 DEF Idle
    <3>2. \A q \in Requests :
            request[q] \in [stage : {"idle", "mail", "login", "rotating", "replayed", "revoking", "leaving"},
                            session : 0..Len(sessions'), version : Nat, seen : SUBSET Ids']
      <4>1. \A q \in Requests :
              request[q] \in [stage : {"idle", "mail", "login", "rotating", "replayed", "revoking", "leaving"},
                              session : 0..Len(sessions), version : Nat, seen : SUBSET Ids]
        BY DEF IInv, TypeOK
      <4>2. 0..Len(sessions) \subseteq 0..Len(sessions') /\ SUBSET Ids \subseteq SUBSET Ids'
        BY <1>1, <1>3
      <4> QED BY <4>1, <4>2
    <3> QED BY <3>1, <3>2 DEF IInv, TypeOK, Answer
  <2>2. \A s \in Ids' : sessions'[s].issued < sessions'[s].expires
    BY <1>1, <1>2, <1>3 DEF IInv, TypeOK
  <2> QED BY <1>1, <2>1, <2>2 DEF IInv, TypeOK
<1>6. LocksHold'
  <2>1. Locks(r)' = {}
    BY <1>4 DEF Locks
  <2>2. \A q \in Requests \ {r} : Locks(q)' = Locks(q)
    BY <1>4 DEF Locks
  <2>3. ASSUME NEW q \in Requests \ {r}
        PROVE  /\ request[q].stage \in {"rotating", "replayed", "revoking", "leaving"}
                    => request[q].session \in Ids'
               /\ request[q].stage = "rotating"
                    => /\ ~sessions'[request[q].session].rotated
                       /\ ~sessions'[request[q].session].revoked
    <3>1. /\ request[q].stage \in {"rotating", "replayed", "revoking", "leaving"}
               => request[q].session \in Ids
          /\ request[q].stage = "rotating"
               => /\ ~sessions[request[q].session].rotated
                  /\ ~sessions[request[q].session].revoked
                  /\ request[q].session \in Locks(q)
      BY DEF IInv, LocksHold, Locks
    <3> QED BY <1>1, <1>2, <1>3, <3>1
  <2>4. \A p, q \in Requests, s \in Ids' : s \in Locks(p)' /\ s \in Locks(q)' => p = q
    <3>1. \A q \in Requests : Locks(q) \subseteq Ids
      BY DEF IInv, LocksHold, Locks
    <3> QED BY <2>2, <2>1, <3>1 DEF IInv, LocksHold
  <2>5. \A q \in Requests :
          /\ request'[q].stage \in {"rotating", "replayed", "revoking", "leaving"}
               => request'[q].session \in Ids'
          /\ request'[q].stage = "rotating"
               => /\ ~sessions'[request'[q].session].rotated
                  /\ ~sessions'[request'[q].session].revoked
    <3> TAKE q \in Requests
    <3>1. CASE q = r
      BY <1>4, <3>1
    <3>2. CASE q # r
      <4>1. request'[q] = request[q]
        BY <1>4, <3>2
      <4> QED BY ZenonT(60), <2>3, <3>2, <4>1
    <3> QED BY <3>1, <3>2
  <2> QED BY <2>4, <2>5 DEF LocksHold
<1>7. FamiliesAreOld'
  BY <1>1, <1>2, <1>3 DEF IInv, FamiliesAreOld
<1>8. RegistrationOrder'
  BY <1>4 DEF IInv, RegistrationOrder, Idle
<1>9. OneChainPerFamily'
  <2>1. \A s \in Ids : sessions'[s].family = row.family => sessions'[s].rotated
    BY <1>1
  <2>2. \A s \in Ids : ~sessions'[s].rotated => ~sessions[s].rotated
    BY <1>1
  <2> QED BY <1>1, <1>2, <1>3, <2>1, <2>2 DEF IInv, OneChainPerFamily, Newest, FamilyOf
<1>10. FamilyEnds'
  <2>1. \A s \in Ids : sessions[s].family \in Ids
    BY <1>1 DEF IInv, FamiliesAreOld
  <2>2. \A s \in Ids : sessions'[s].expires <= sessions'[sessions'[s].family].expires
    BY ZenonT(60), <1>2, <2>1 DEF IInv, FamilyEnds
  <2>3. row.expires <= sessions'[row.family].expires
    <3>1. CASE row.family = n
      BY <1>1, <3>1 DEF Rows
    <3>2. CASE row.family # n
      <4>1. row.family \in Ids
        BY <1>1, <3>2
      <4> QED BY <1>2, <3>2, <4>1
    <3> QED BY <3>1, <3>2
  <2> QED BY <1>1, <1>3, <2>2, <2>3 DEF FamilyEnds
<1>11. VerifiedOnce'
  BY <1>1, <1>2, <1>3 DEF IInv, VerifiedOnce
<1> QED BY <1>5, <1>6, <1>7, <1>8, <1>9, <1>10, <1>11 DEF IInv

LEMMA CreateSessionInv ==
  ASSUME IInv, NEW r \in Requests, CreateSession(r)
  PROVE  IInv'
<1> DEFINE row == NewRow(Len(sessions) + 1, clock + SessionLifetime, request[r].version)
<1>1. /\ Answer(r)
      /\ UNCHANGED <<account, clock>>
      /\ sessions' = Append(sessions, row)
      /\ account.status = "active"
      /\ request[r].version = account.version
  BY DEF CreateSession, IInv, RegistrationOrder
<1>2. /\ clock \in Nat
      /\ clock + SessionLifetime \in Nat
      /\ clock < clock + SessionLifetime
      /\ Len(sessions) \in Nat
      /\ Ids = 1..Len(sessions)
      /\ sessions \in Seq(Rows)
      /\ account.version \in Nat
  BY SMTT(60), SessionsAssumption, RowFacts DEF IInv, TypeOK
<1>3. /\ row \in Rows
      /\ row.issued < row.expires
      /\ row.version = account.version
      /\ row.family = Len(sessions) + 1
  BY <1>1, <1>2 DEF NewRow, Rows
<1>4. \A s \in Ids : sessions[s].family # row.family
  BY <1>2, <1>3 DEF IInv, FamiliesAreOld
<1> HIDE DEF row
<1> QED BY <1>1, <1>2, <1>3, <1>4, RowAdded

LEMMA RotateInv ==
  ASSUME IInv, NEW r \in Requests, Rotate(r)
  PROVE  IInv'
<1> DEFINE s == request[r].session
           rows == [sessions EXCEPT ![s].rotated = TRUE]
           row == NewRow(sessions[s].family, SuccessorExpiry(s), sessions[s].version)
<1>1. /\ Answer(r)
      /\ UNCHANGED <<account, clock>>
      /\ sessions' = Append(rows, row)
      /\ request[r].stage = "rotating"
      /\ clock < SuccessorExpiry(s)
  BY DEF Rotate, BornAlive
<1>2. /\ s \in Ids
      /\ ~sessions[s].rotated
      /\ s \in Locks(r)
  BY <1>1 DEF IInv, LocksHold, Locks
<1>3. /\ clock \in Nat
      /\ clock + SessionLifetime \in Nat
      /\ Len(sessions) \in Nat
      /\ Ids = 1..Len(sessions)
      /\ sessions \in Seq(Rows)
      /\ sessions[s] \in Rows
  BY SMTT(60), <1>2, SessionsAssumption, RowFacts DEF IInv, TypeOK
<1>4. SuccessorExpiry(s) \in Nat /\ SuccessorExpiry(s) <= sessions[s].expires
  BY SMTT(60), <1>3 DEF SuccessorExpiry, Rows
<1>5. /\ row \in Rows
      /\ row.issued < row.expires
      /\ row.version = account.version
      /\ row.family = sessions[s].family
      /\ row.expires <= sessions[s].expires
  BY <1>1, <1>2, <1>3, <1>4 DEF NewRow, Rows, IInv, VerifiedOnce
<1>6. /\ row.family \in Ids
      /\ row.expires <= sessions[row.family].expires
  <2>1. row.family \in Ids /\ sessions[s].expires <= sessions[row.family].expires
    BY <1>2, <1>3, <1>5 DEF IInv, FamiliesAreOld, FamilyEnds
  <2>2. sessions[row.family] \in Rows
    BY <2>1, RowFacts DEF IInv
  <2>3. row.expires \in Nat /\ sessions[s].expires \in Nat /\ sessions[row.family].expires \in Nat
    BY <1>3, <1>5, <2>2 DEF Rows
  <2> HIDE DEF row, s
  <2> QED BY <1>5, <2>1, <2>3
<1>7. rows \in Seq(Rows) /\ Len(rows) = Len(sessions)
  <2>1. [sessions[s] EXCEPT !.rotated = TRUE] \in Rows
    BY <1>3 DEF Rows
  <2>2. rows = [sessions EXCEPT ![s] = [sessions[s] EXCEPT !.rotated = TRUE]]
    OBVIOUS
  <2> HIDE DEF rows
  <2> QED BY <1>2, <1>3, <2>1, <2>2, ExceptSeq DEF Ids
<1>8. account.status = "active"
  BY <1>2 DEF IInv, RegistrationOrder, Ids
<1>9. \A t \in Ids :
        /\ \A f \in {"family", "expires", "version", "issued", "revoked"} : rows[t][f] = sessions[t][f]
        /\ t # s => rows[t].rotated = sessions[t].rotated
        /\ rows[s].rotated
  BY <1>2, RowFacts DEF IInv, Rows, Ids
<1>10. \A q \in Requests \ {r} : s \notin Locks(q)
  BY <1>2 DEF IInv, LocksHold
<1>11. \A t \in Ids : sessions[t].family = row.family /\ t # s => sessions[t].rotated
  BY <1>2, <1>5 DEF IInv, OneChainPerFamily, Newest, FamilyOf
<1>12. \A t \in Ids :
         /\ rows[t].rotated = sessions[t].rotated \/ \A q \in Requests \ {r} : t \notin Locks(q)
         /\ sessions[t].rotated => rows[t].rotated
         /\ rows[t].family = row.family => rows[t].rotated
  <2> TAKE t \in Ids
  <2>1. CASE t = s
    BY <1>2, <1>9, <1>10, <2>1
  <2>2. CASE t # s
    BY <1>9, <1>11, <2>2
  <2> QED BY <2>1, <2>2
<1>13. row.family \in 1..(Len(sessions) + 1)
  BY <1>3, <1>6
<1> HIDE DEF rows, row, s
<1>14. \A t \in Ids :
         /\ \A f \in {"family", "expires", "version", "issued", "revoked"} : rows[t][f] = sessions[t][f]
         /\ rows[t].rotated = sessions[t].rotated \/ \A q \in Requests \ {r} : t \notin Locks(q)
         /\ sessions[t].rotated => rows[t].rotated
         /\ rows[t].family = row.family => rows[t].rotated
  BY Zenon, <1>9, <1>12
<1>15. row.family # Len(sessions) + 1 => row.expires <= sessions[row.family].expires
  BY Zenon, <1>6
<1>16. Answer(r) /\ UNCHANGED <<account, clock>> /\ sessions' = Append(rows, row)
  BY Zenon, <1>1
<1> QED BY SMTT(60), <1>5, <1>7, <1>8, <1>13, <1>14, <1>15, <1>16, RowAdded

\* Rows that nobody else holds are revoked.
LEMMA RowsRevoked ==
  ASSUME IInv, NEW r \in Requests, Answer(r), UNCHANGED <<account, clock>>,
         NEW ids, sessions' = RevokedRows(sessions, ids),
         \A s \in ids, q \in Requests \ {r} : s \notin Locks(q)
  PROVE  IInv'
<1>1. /\ sessions \in Seq(Rows)
      /\ Len(sessions) \in Nat
      /\ Ids = 1..Len(sessions)
  BY RowFacts DEF IInv
<1>2. /\ sessions' \in Seq(Rows)
      /\ Len(sessions') = Len(sessions)
      /\ Ids' = Ids
      /\ \A s \in Ids : /\ sessions'[s].family = sessions[s].family
                        /\ sessions'[s].expires = sessions[s].expires
                        /\ sessions'[s].version = sessions[s].version
                        /\ sessions'[s].issued = sessions[s].issued
                        /\ sessions'[s].rotated = sessions[s].rotated
                        /\ sessions'[s].revoked = (s \in ids \/ sessions[s].revoked)
  BY <1>1, RevokedRowsFacts DEF Ids
<1>3. /\ request'[r] = Idle
      /\ request'[r].stage = "idle"
      /\ \A q \in Requests \ {r} : request'[q] = request[q]
  BY DEF IInv, TypeOK, Answer, Idle
<1>4. TypeOK'
  <2>1. Idle \in [stage : {"idle", "mail", "login", "rotating", "replayed", "revoking", "leaving"},
                  session : 0..Len(sessions), version : Nat, seen : SUBSET Ids]
    BY <1>1 DEF Idle
  <2>2. request' \in [Requests ->
          [stage : {"idle", "mail", "login", "rotating", "replayed", "revoking", "leaving"},
           session : 0..Len(sessions), version : Nat, seen : SUBSET Ids]]
    BY <2>1 DEF IInv, TypeOK, Answer
  <2>3. \A s \in Ids : sessions'[s].issued < sessions'[s].expires
    BY <1>2 DEF IInv, TypeOK
  <2> QED BY <1>2, <2>2, <2>3 DEF IInv, TypeOK
<1>5. LocksHold'
  <2>1. Locks(r)' = {}
    BY <1>3 DEF Locks
  <2>2. \A q \in Requests \ {r} : Locks(q)' = Locks(q)
    BY <1>3 DEF Locks
  <2>3. \A q \in Requests \ {r} :
          /\ request[q].stage \in {"rotating", "replayed", "revoking", "leaving"}
               => request[q].session \in Ids
          /\ request[q].stage = "rotating"
               => /\ ~sessions'[request[q].session].rotated
                  /\ ~sessions'[request[q].session].revoked
    BY ZenonT(60), <1>2 DEF IInv, LocksHold, Locks
  <2>4. \A p, q \in Requests, s \in Ids : s \in Locks(p)' /\ s \in Locks(q)' => p = q
    BY <2>2, <2>1 DEF IInv, LocksHold
  <2> QED BY <1>2, <1>3, <2>3, <2>4 DEF LocksHold, Idle
<1>6. FamiliesAreOld' /\ OneChainPerFamily' /\ FamilyEnds'
  <2>1. \A s \in Ids : sessions[s].family \in Ids
    BY <1>1 DEF IInv, FamiliesAreOld
  <2>2. FamiliesAreOld'
    BY <1>2 DEF IInv, FamiliesAreOld
  <2>3. OneChainPerFamily'
    BY <1>2 DEF IInv, OneChainPerFamily, Newest, FamilyOf
  <2>4. FamilyEnds'
    BY <1>2, <2>1 DEF IInv, FamilyEnds
  <2> QED BY <2>2, <2>3, <2>4
<1>7. RegistrationOrder'
  <2>1. sessions = <<>> => sessions' = <<>>
    BY <1>2
  <2> QED BY <1>3, <2>1 DEF IInv, RegistrationOrder, Idle
<1>8. VerifiedOnce'
  BY <1>2 DEF IInv, VerifiedOnce
<1> QED BY <1>4, <1>5, <1>6, <1>7, <1>8 DEF IInv

LEMMA RevokeFamilyInv ==
  ASSUME IInv, NEW r \in Requests, RevokeFamily(r)
  PROVE  IInv'
<1>1. /\ Answer(r)
      /\ UNCHANGED <<account, clock>>
      /\ sessions' = RevokedRows(sessions, Revocation(r))
  BY DEF RevokeFamily
<1>2. \A s \in Revocation(r), q \in Requests \ {r} : s \notin Locks(q)
  BY DEF RevokeFamily, Revocation, Unlocked
<1> QED BY <1>1, <1>2, RowsRevoked

LEMMA RevokeSessionInv ==
  ASSUME IInv, NEW r \in Requests, RevokeSession(r)
  PROVE  IInv'
<1>1. /\ Answer(r)
      /\ UNCHANGED <<account, clock>>
      /\ sessions' = RevokedRows(sessions, {request[r].session})
  BY DEF RevokeSession
<1>2. \A s \in {request[r].session}, q \in Requests \ {r} : s \notin Locks(q)
  BY DEF RevokeSession, Unlocked
<1> QED BY <1>1, <1>2, RowsRevoked

-----------------------------------------------------------------------------
(* The invariant is preserved. *)

LEMMA StutterInv == IInv /\ UNCHANGED accountVars => IInv'
<1> SUFFICES ASSUME IInv, UNCHANGED <<account, sessions, request, clock>> PROVE IInv'
  BY DEF accountVars
<1>1. TypeOK' /\ (account \in Accounts)'
  BY DEF IInv, TypeOK, Ids
<1>2. LocksHold' /\ RegistrationOrder' /\ VerifiedOnce'
  BY DEF IInv, LocksHold, Locks, RegistrationOrder, VerifiedOnce, Ids
<1> QED BY <1>1, <1>2, RowsKept DEF IInv

LEMMA NextInv == IInv /\ [Next]_accountVars => IInv'
<1> SUFFICES ASSUME IInv, [Next]_accountVars PROVE IInv'
  OBVIOUS
<1>1. CASE Tick
  BY <1>1, TickInv
<1>2. ASSUME NEW r \in Requests, Serve(r) PROVE IInv'
  <2>1. CASE Register(r)
    BY <2>1, RegisterInv
  <2>2. CASE RegisterAgain(r)
    BY <2>2, StutterInv DEF RegisterAgain
  <2>3. ASSUME NEW delivered \in BOOLEAN, SendVerification(r, delivered) PROVE IInv'
    BY <2>3, SendVerificationInv
  <2>4. CASE VerifyEmail(r)
    BY <2>4, VerifyEmailInv
  <2>5. CASE LoginLookup(r)
    BY <2>5, LoginLookupInv
  <2>6. CASE CreateSession(r)
    BY <2>6, CreateSessionInv
  <2>7. ASSUME NEW s \in Ids, RefreshLookup(r, s) PROVE IInv'
    BY <2>7, RefreshLookupInv
  <2>8. ASSUME NEW s \in Ids, LogoutCheck(r, s) PROVE IInv'
    BY <2>8, LogoutCheckInv
  <2>9. CASE Rotate(r)
    BY <2>9, RotateInv
  <2>10. CASE RevokeSnapshot(r)
    BY <2>10, RevokeSnapshotInv
  <2>11. CASE RevokeFamily(r)
    BY <2>11, RevokeFamilyInv
  <2>12. CASE RevokeSession(r)
    BY <2>12, RevokeSessionInv
  <2>13. CASE Abort(r)
    BY <2>13, AbortInv
  <2> QED BY <1>2, <2>1, <2>2, <2>3, <2>4, <2>5, <2>6, <2>7, <2>8, <2>9, <2>10, <2>11,
             <2>12, <2>13 DEF Serve
<1>3. CASE UNCHANGED accountVars
  BY <1>3, StutterInv
<1> QED BY <1>1, <1>2, <1>3 DEF Next

THEOREM Invariant == Spec => []IInv
<1>1. Init => IInv
  BY InitInv
<1>2. IInv /\ [Next]_accountVars => IInv'
  BY NextInv
<1> QED BY <1>1, <1>2, PTL DEF Spec

\* The account, its session rows and the requests over them are well formed; in
\* particular no session is inserted that has already expired.
THEOREM TypeCorrect == Spec => []TypeOK
<1>1. IInv => TypeOK
  BY DEF IInv
<1> QED BY <1>1, Invariant, PTL

\* However many requests present a refresh token at once, one of them exchanges it.
THEOREM ChainsStayChains == Spec => []OneChainPerFamily
<1>1. IInv => OneChainPerFamily
  BY DEF IInv
<1> QED BY <1>1, Invariant, PTL

\* No number of rotations extends a family beyond the life its login gave it.
THEOREM FamiliesEnd == Spec => []FamilyEnds
<1>1. IInv => FamilyEnds
  BY DEF IInv
<1> QED BY <1>1, Invariant, PTL

\* The link of a registration works once, and no session outlives a change of the
\* account's version.
THEOREM VerificationIsOnce == Spec => []VerifiedOnce
<1>1. IInv => VerifiedOnce
  BY DEF IInv
<1> QED BY <1>1, Invariant, PTL

-----------------------------------------------------------------------------
(* What no step does. *)

\* A step that writes sessions adds one to a family that has not ended, or
\* revokes some.
LEMMA WritesOfSessions ==
  ASSUME IInv, [Next]_accountVars
  PROVE  \/ UNCHANGED sessions
         \/ \E r \in Requests : CreateSession(r) \/ Rotate(r) \/ RevokeFamily(r) \/ RevokeSession(r)
BY DEF Next, Serve, accountVars, Tick, Register, RegisterAgain, SendVerification, VerifyEmail,
       LoginLookup, RefreshLookup, RevokeSnapshot, LogoutCheck, Abort

\* A revocation brings no family back.
LEMMA EndedAfterRevocation ==
  ASSUME IInv, NEW ids, sessions' = RevokedRows(sessions, ids), NEW f \in Ids, Ended(f)
  PROVE  Ended(f)'
<1>1. sessions \in Seq(Rows) /\ Ids = 1..Len(sessions)
  BY RowFacts DEF IInv
<1>2. /\ Ids' = Ids
      /\ \A s \in Ids : /\ sessions'[s].family = sessions[s].family
                        /\ sessions'[s].rotated = sessions[s].rotated
                        /\ sessions'[s].revoked = (s \in ids \/ sessions[s].revoked)
  BY <1>1, RevokedRowsFacts DEF Ids
<1>3. \A s \in Ids : sessions[s].revoked => sessions'[s].revoked
  BY <1>2
<1> QED BY <1>2, <1>3 DEF Ended, Newest, FamilyOf

\* A family that has ended gets no session that is not revoked.
THEOREM EndedFamiliesStayEnded == Spec => EndedFamilyStaysEnded
<1>1. ASSUME IInv, [Next]_accountVars, NEW f \in Ids, Ended(f)
      PROVE  Ended(f)'
  <2>0. /\ Len(sessions) \in Nat
        /\ Ids = 1..Len(sessions)
        /\ sessions \in Seq(Rows)
    BY <1>1, RowFacts DEF IInv
  <2>1. CASE UNCHANGED sessions
    BY <1>1, <2>1 DEF Ended, Newest, FamilyOf, Ids
  <2>2. ASSUME NEW r \in Requests, CreateSession(r) PROVE Ended(f)'
    <3> DEFINE row == NewRow(Len(sessions) + 1, clock + SessionLifetime, request[r].version)
    <3>1. sessions' = Append(sessions, row) /\ row.family = Len(sessions) + 1
      BY <2>2 DEF CreateSession, NewRow
    <3>2. /\ Ids' = Ids \cup {Len(sessions) + 1}
          /\ \A s \in Ids : sessions'[s] = sessions[s]
          /\ sessions'[Len(sessions) + 1] = row
      BY <2>0, <3>1 DEF Ids
    <3>3. sessions[f].family # row.family
      BY <1>1, <2>0, <3>1 DEF IInv, FamiliesAreOld
    <3> HIDE DEF row
    <3> QED BY <1>1, <3>2, <3>3 DEF Ended, Newest, FamilyOf
  <2>3. ASSUME NEW r \in Requests, Rotate(r) PROVE Ended(f)'
    <3> DEFINE s == request[r].session
               rows == [sessions EXCEPT ![s].rotated = TRUE]
               row == NewRow(sessions[s].family, SuccessorExpiry(s), sessions[s].version)
    <3>1. /\ sessions' = Append(rows, row)
          /\ row.family = sessions[s].family
          /\ request[r].stage = "rotating"
      BY <2>3 DEF Rotate, NewRow
    <3>2. s \in Ids /\ ~sessions[s].rotated /\ ~sessions[s].revoked
      BY <1>1, <3>1 DEF IInv, LocksHold
    <3>3. /\ Len(rows) = Len(sessions)
          /\ DOMAIN rows = Ids
          /\ \A t \in Ids : t # s => rows[t] = sessions[t]
          /\ rows[s].family = sessions[s].family
          /\ rows[s].rotated
      <4>1. sessions[s] \in Rows
        BY <1>1, <3>2, RowFacts DEF IInv
      <4> QED BY <2>0, <3>2, <4>1 DEF Rows, Ids
    <3>4. /\ Ids' = Ids \cup {Len(sessions) + 1}
          /\ \A t \in Ids : sessions'[t] = rows[t]
          /\ sessions'[Len(sessions) + 1] = row
      BY <2>0, <3>1, <3>3 DEF Ids
    <3>5. sessions[f].family # row.family
      BY <1>1, <3>1, <3>2 DEF Ended, Newest, FamilyOf
    <3> HIDE DEF row, rows, s
    <3>6. \A t \in Ids : sessions'[t].family = sessions[t].family
      BY <3>3, <3>4
    <3>7. \A t \in Ids : sessions'[t].family = sessions[f].family => sessions'[t] = sessions[t]
      BY <3>1, <3>3, <3>4, <3>5, <3>6
    <3> QED BY <1>1, <3>4, <3>5, <3>6, <3>7 DEF Ended, Newest, FamilyOf
  <2>4. ASSUME NEW r \in Requests, RevokeFamily(r) PROVE Ended(f)'
    BY <1>1, <2>4, EndedAfterRevocation DEF RevokeFamily
  <2>5. ASSUME NEW r \in Requests, RevokeSession(r) PROVE Ended(f)'
    BY <1>1, <2>5, EndedAfterRevocation DEF RevokeSession
  <2> QED BY <1>1, <2>1, <2>2, <2>3, <2>4, <2>5, WritesOfSessions
<1>2. IInv /\ [Next]_accountVars => [\A f \in Ids : Ended(f) => Ended(f)']_accountVars
  BY <1>1
<1> QED BY <1>2, Invariant, PTL DEF Spec, EndedFamilyStaysEnded

-----------------------------------------------------------------------------
(* Sessions implements SessionFamily. *)

\* What a revocation has seen is of the family it is to revoke.
SeenIsOneFamily ==
  \A r \in Requests : request[r].stage = "revoking" =>
    request[r].seen \subseteq FamilyOf(request[r].session)

\* A login adds a session that is a family of its own.
LEMMA CreatedRow ==
  ASSUME IInv, NEW r \in Requests, CreateSession(r),
         NEW n, n = Len(sessions) + 1
  PROVE  /\ n \in 1..MaxSessions /\ n \notin Ids /\ Ids' = Ids \cup {n}
         /\ \A s \in Ids : sessions'[s] = sessions[s]
         /\ sessions'[n].family = n
         /\ sessions'[n].expires = clock + SessionLifetime
         /\ ~sessions'[n].rotated /\ ~sessions'[n].revoked
         /\ UNCHANGED clock
         /\ Answer(r)
<1> DEFINE row == NewRow(n, clock + SessionLifetime, request[r].version)
<1>1. /\ sessions \in Seq(Rows) /\ Len(sessions) \in Nat /\ Ids = 1..Len(sessions)
  BY RowFacts DEF IInv
<1>2. sessions' = Append(sessions, row) /\ Len(sessions) < MaxSessions
      /\ UNCHANGED clock /\ Answer(r)
  BY DEF CreateSession
<1>3. /\ row.family = n /\ row.expires = clock + SessionLifetime
      /\ ~row.rotated /\ ~row.revoked
  BY DEF NewRow
<1> HIDE DEF row
<1>4. n \in 1..MaxSessions /\ n \notin Ids
  BY <1>1, <1>2, SessionsAssumption
<1>5. /\ Ids' = Ids \cup {n}
      /\ \A s \in Ids : sessions'[s] = sessions[s]
      /\ sessions'[n] = row
  BY <1>1, <1>2 DEF Ids
<1> QED BY <1>2, <1>3, <1>4, <1>5

\* A rotation replaces the one session of its family that can be refreshed, in
\* time, by another one.
LEMMA RotatedRow ==
  ASSUME IInv, NEW r \in Requests, Rotate(r),
         NEW n, n = Len(sessions) + 1,
         NEW s, s = request[r].session
  PROVE  /\ n \in 1..MaxSessions /\ n \notin Ids /\ Ids' = Ids \cup {n}
         /\ s \in Ids /\ ~sessions[s].rotated /\ ~sessions[s].revoked
         /\ sessions'[s].rotated
         /\ \A t \in Ids : /\ sessions'[t].family = sessions[t].family
                           /\ sessions'[t].expires = sessions[t].expires
                           /\ sessions'[t].revoked = sessions[t].revoked
                           /\ t # s => sessions'[t].rotated = sessions[t].rotated
         /\ sessions'[n].family = sessions[s].family
         /\ ~sessions'[n].rotated /\ ~sessions'[n].revoked
         /\ clock < sessions[s].expires
         /\ UNCHANGED clock
         /\ Answer(r)
<1> DEFINE rows == [sessions EXCEPT ![s].rotated = TRUE]
           row == NewRow(sessions[s].family, SuccessorExpiry(s), sessions[s].version)
<1>1. /\ sessions \in Seq(Rows) /\ Len(sessions) \in Nat /\ Ids = 1..Len(sessions)
  BY RowFacts DEF IInv
<1>2. /\ sessions' = Append(rows, row) /\ Len(sessions) < MaxSessions
      /\ request[r].stage = "rotating" /\ clock < SuccessorExpiry(s)
      /\ UNCHANGED clock /\ Answer(r)
  BY DEF Rotate, BornAlive
<1>3. s \in Ids /\ ~sessions[s].rotated /\ ~sessions[s].revoked
  BY <1>2 DEF IInv, LocksHold
<1>4. \A t \in Ids : sessions[t] \in Rows
  BY RowFacts DEF IInv
<1>5. clock < sessions[s].expires
  <2>1. clock \in Nat /\ SessionLifetime \in Nat /\ sessions[s].expires \in Nat
    BY <1>3, <1>4, SessionsAssumption DEF IInv, TypeOK, Rows
  <2> QED BY <1>2, <2>1 DEF SuccessorExpiry
<1>6. row.family = sessions[s].family /\ ~row.rotated /\ ~row.revoked
  BY DEF NewRow
<1>7. /\ Len(rows) = Len(sessions)
      /\ DOMAIN rows = Ids
      /\ \A t \in Ids : t # s => rows[t] = sessions[t]
      /\ rows[s] = [sessions[s] EXCEPT !.rotated = TRUE]
  <2>1. rows = [t \in Ids |-> IF t = s THEN [sessions[s] EXCEPT !.rotated = TRUE]
                                       ELSE sessions[t]]
    BY <1>3 DEF Ids
  <2> HIDE DEF rows
  <2>2. rows \in Seq(Rows) /\ Len(rows) = Len(sessions)
    <3>1. [sessions[s] EXCEPT !.rotated = TRUE] \in Rows
      BY <1>3, <1>4 DEF Rows
    <3>2. rows = [sessions EXCEPT ![s] = [sessions[s] EXCEPT !.rotated = TRUE]]
      BY DEF rows
    <3> QED BY <1>1, <1>3, <3>1, <3>2, ExceptSeq DEF Ids
  <2> QED BY <1>3, <2>1, <2>2
<1>8. /\ rows[s].family = sessions[s].family
      /\ rows[s].expires = sessions[s].expires
      /\ rows[s].revoked = sessions[s].revoked
      /\ rows[s].rotated
  <2>1. sessions[s] \in Rows
    BY <1>3, <1>4
  <2> HIDE DEF rows
  <2> QED BY <1>7, <2>1 DEF Rows
<1> HIDE DEF rows, row
<1>9. n \in 1..MaxSessions /\ n \notin Ids
  BY <1>1, <1>2, SessionsAssumption
<1>10. /\ Ids' = Ids \cup {n}
       /\ \A t \in Ids : sessions'[t] = rows[t]
       /\ sessions'[n] = row
  BY <1>1, <1>2, <1>7 DEF Ids
<1>11. \A t \in Ids : /\ sessions'[t].family = sessions[t].family
                      /\ sessions'[t].expires = sessions[t].expires
                      /\ sessions'[t].revoked = sessions[t].revoked
                      /\ t # s => sessions'[t].rotated = sessions[t].rotated
  <2> TAKE t \in Ids
  <2>1. CASE t = s
    BY <1>8, <1>10, <2>1
  <2>2. CASE t # s
    BY <1>7, <1>10, <2>2
  <2> QED BY <2>1, <2>2
<1> QED BY <1>2, <1>3, <1>5, <1>6, <1>8, <1>9, <1>10, <1>11

\* A logout or a replay revokes sessions of the family it is about.
LEMMA RevokedOfOneFamily ==
  ASSUME IInv, SeenIsOneFamily, NEW r \in Requests, RevokeFamily(r) \/ RevokeSession(r)
  PROVE  \E ids \in SUBSET FamilyOf(request[r].session) :
           /\ request[r].session \in Ids
           /\ Ids' = Ids
           /\ \A t \in Ids : /\ sessions'[t].family = sessions[t].family
                             /\ sessions'[t].expires = sessions[t].expires
                             /\ sessions'[t].rotated = sessions[t].rotated
                             /\ sessions'[t].revoked = (t \in ids \/ sessions[t].revoked)
           /\ UNCHANGED clock
           /\ Answer(r)
<1> DEFINE ids == IF request[r].stage = "revoking" THEN request[r].seen
                                                   ELSE {request[r].session}
<1>1. /\ sessions \in Seq(Rows) /\ Len(sessions) \in Nat /\ Ids = 1..Len(sessions)
  BY RowFacts DEF IInv
<1>2. request[r].stage \in {"revoking", "leaving"} /\ UNCHANGED clock /\ Answer(r)
  BY DEF RevokeFamily, RevokeSession
<1>3. request[r].session \in Ids
  BY <1>2 DEF IInv, LocksHold
<1>4. ids \in SUBSET FamilyOf(request[r].session)
  BY <1>2, <1>3 DEF SeenIsOneFamily, FamilyOf
<1>5. sessions' = RevokedRows(sessions, ids)
  BY DEF RevokeFamily, RevokeSession, Revocation
<1> HIDE DEF ids
<1>6. /\ Ids' = Ids
      /\ \A t \in Ids : /\ sessions'[t].family = sessions[t].family
                        /\ sessions'[t].expires = sessions[t].expires
                        /\ sessions'[t].rotated = sessions[t].rotated
                        /\ sessions'[t].revoked = (t \in ids \/ sessions[t].revoked)
  BY <1>1, <1>5, RevokedRowsFacts DEF Ids
<1> QED BY <1>2, <1>3, <1>4, <1>6

\* Sessions stay in the family they were born in.
LEMMA FamiliesKept ==
  ASSUME IInv, SeenIsOneFamily, [Next]_accountVars
  PROVE  /\ Ids \subseteq Ids'
         /\ \A s \in Ids : sessions'[s].family = sessions[s].family
<1>1. CASE UNCHANGED sessions
  BY <1>1 DEF Ids
<1>2. ASSUME NEW r \in Requests, CreateSession(r)
      PROVE  Ids \subseteq Ids' /\ \A s \in Ids : sessions'[s].family = sessions[s].family
  BY <1>2, CreatedRow
<1>3. ASSUME NEW r \in Requests, Rotate(r)
      PROVE  Ids \subseteq Ids' /\ \A s \in Ids : sessions'[s].family = sessions[s].family
  BY <1>3, RotatedRow
<1>4. ASSUME NEW r \in Requests, RevokeFamily(r) \/ RevokeSession(r)
      PROVE  Ids \subseteq Ids' /\ \A s \in Ids : sessions'[s].family = sessions[s].family
  BY <1>4, RevokedOfOneFamily
<1> QED BY <1>1, <1>2, <1>3, <1>4, WritesOfSessions

LEMMA SeenStaysOneFamily ==
  IInv /\ SeenIsOneFamily /\ [Next]_accountVars => SeenIsOneFamily'
<1> SUFFICES ASSUME IInv, SeenIsOneFamily, [Next]_accountVars,
                    NEW q \in Requests, request'[q].stage = "revoking"
             PROVE  request'[q].seen \subseteq FamilyOf(request[q].session)'
  BY DEF SeenIsOneFamily
<1>1. \A s \in Ids : FamilyOf(s) \subseteq FamilyOf(s)'
  BY FamiliesKept DEF FamilyOf
<1>2. CASE request'[q] = request[q]
  <2>1. request[q].session \in Ids
    BY <1>2 DEF IInv, LocksHold
  <2>2. request[q].seen \subseteq FamilyOf(request[q].session)
    BY <1>2 DEF SeenIsOneFamily
  <2>3. PICK s \in Ids : s = request[q].session
    BY <2>1
  <2>4. FamilyOf(request[q].session)' = FamilyOf(s)'
    BY <1>2, <2>3 DEF FamilyOf
  <2> QED BY <1>1, <1>2, <2>2, <2>3, <2>4
<1>3. CASE RevokeSnapshot(q)
  <2>1. /\ request'[q].seen = FamilyOf(request[q].session)
        /\ request'[q].session = request[q].session
        /\ UNCHANGED sessions
    BY <1>3 DEF RevokeSnapshot, IInv, TypeOK
  <2> QED BY <2>1 DEF FamilyOf, Ids
<1>4. request'[q] = request[q] \/ RevokeSnapshot(q)
  <2>1. CASE UNCHANGED request
    BY <2>1
  <2>2. ASSUME NEW r \in Requests, Serve(r) PROVE request'[q] = request[q] \/ RevokeSnapshot(q)
    <3>1. CASE r # q
      <4>1. CASE RegisterAgain(r) \/ VerifyEmail(r)
        BY <4>1 DEF RegisterAgain, VerifyEmail, accountVars
      <4>2. CASE Answer(r)
        BY <3>1, <4>2 DEF Answer, IInv, TypeOK
      <4>3. CASE Register(r) \/ LoginLookup(r) \/ RevokeSnapshot(r)
        BY <3>1, <4>3 DEF Register, LoginLookup, RevokeSnapshot, IInv, TypeOK
      <4>4. ASSUME NEW s \in Ids, RefreshLookup(r, s) \/ LogoutCheck(r, s)
            PROVE  request'[q] = request[q]
        <5>1. DOMAIN request = Requests
          BY DEF IInv, TypeOK
        <5> QED BY <3>1, <4>4, <5>1 DEF RefreshLookup, LogoutCheck
      <4>5. Answer(r) \/ Register(r) \/ RegisterAgain(r) \/ VerifyEmail(r) \/ LoginLookup(r)
            \/ RevokeSnapshot(r) \/ \E s \in Ids : RefreshLookup(r, s) \/ LogoutCheck(r, s)
        BY <2>2 DEF Serve, SendVerification, CreateSession, Rotate, RevokeFamily,
           RevokeSession, Abort
      <4> QED BY <4>1, <4>2, <4>3, <4>4, <4>5
    <3>2. CASE r = q
      <4>2. CASE RegisterAgain(r) \/ VerifyEmail(r)
        BY <4>2 DEF RegisterAgain, VerifyEmail, accountVars
      <4>0. request[r] \in [stage : Stages, session : 0..Len(sessions),
                            version : Nat, seen : SUBSET Ids]
        BY DEF IInv, TypeOK, Stages
      <4>1. DOMAIN request = Requests
        BY DEF IInv, TypeOK
      <4>3. ~Register(r) /\ ~LoginLookup(r)
        <5>1. Register(r) => request'[r].stage = "mail"
          BY <4>0, <4>1 DEF Register
        <5>2. LoginLookup(r) => request'[r].stage = "login"
          BY <4>0, <4>1 DEF LoginLookup
        <5> QED BY <3>2, <5>1, <5>2
      <4>6. ASSUME NEW s \in Ids PROVE ~RefreshLookup(r, s) /\ ~LogoutCheck(r, s)
        <5>1. RefreshLookup(r, s) => request'[r].stage \in {"replayed", "rotating"}
          BY <4>0, <4>1 DEF RefreshLookup
        <5>2. LogoutCheck(r, s) => request'[r].stage = "leaving"
          BY <4>0, <4>1 DEF LogoutCheck
        <5> QED BY <3>2, <5>1, <5>2
      <4>4. CASE Answer(r)
        BY <3>2, <4>4 DEF Answer, Idle, IInv, TypeOK
      <4>5. CASE RevokeSnapshot(r)
        BY <3>2, <4>5
      <4> QED BY <2>2, <4>2, <4>3, <4>4, <4>5, <4>6 DEF Serve, SendVerification,
                 CreateSession, Rotate, RevokeFamily, RevokeSession, Abort
    <3> QED BY <3>1, <3>2
  <2> QED BY <2>1, <2>2 DEF Next, Tick, accountVars
<1> QED BY <1>2, <1>3, <1>4

\* Every token that has been issued is a session.
LEMMA IssuedAreSessions == RefreshTokens!Issued \subseteq Ids
BY DEF RefreshTokens!Issued, Refreshable, Void

\* A family is known by its first session.
LEMMA FamiliesAreSessions == IInv => Families \subseteq Ids
BY RowFacts DEF IInv, FamiliesAreOld, Families

\* Nobody signed in.
LEMMA NoTokens == Init => RefreshTokens!Init
<1> SUFFICES ASSUME Init PROVE RefreshTokens!Init
  OBVIOUS
<1>1. Ids = {} /\ clock = 0
  BY DEF Init, Ids
<1>2. Families = {} /\ Void = {}
  BY <1>1 DEF Families, Void
<1> QED BY <1>1, <1>2 DEF RefreshTokens!Init, RefreshTokens!Empty

\* A login gives a token to a new family.
LEMMA LoginGivesToken ==
  ASSUME IInv, NEW r \in Requests, CreateSession(r)
  PROVE  RefreshTokens!Next
<1>0. PICK n : n = Len(sessions) + 1
  OBVIOUS
<1>1. /\ n \in 1..MaxSessions /\ n \notin Ids /\ Ids' = Ids \cup {n}
      /\ \A s \in Ids : sessions'[s] = sessions[s]
      /\ sessions'[n].family = n
      /\ sessions'[n].expires = clock + SessionLifetime
      /\ ~sessions'[n].rotated /\ ~sessions'[n].revoked
      /\ UNCHANGED clock
  BY <1>0, CreatedRow
<1>2. n \notin Families /\ Families \subseteq Ids
  BY <1>1, FamiliesAreSessions
<1>3. Families' = Families \cup {n}
  BY <1>1 DEF Families
<1>4. Void' = Void
  BY <1>1 DEF Void
<1>5. \A f \in Families : Refreshable(f)' = Refreshable(f)
  BY <1>1, <1>2 DEF Refreshable, Newest
<1>6. Refreshable(n)' = {n}
  BY <1>1, <1>2 DEF Refreshable, Newest, Families
<1>7. RefreshTokens!Login(n, n)
  <2>1. n \notin RefreshTokens!Issued
    BY <1>1, IssuedAreSessions
  <2>2. [f \in Families |-> Refreshable(f)]'
          = RefreshTokens!Extended([f \in Families |-> Refreshable(f)], n, {n})
    BY <1>2, <1>3, <1>5, <1>6 DEF RefreshTokens!Extended
  <2>3. [f \in Families |-> sessions[f].expires]'
          = RefreshTokens!Extended([f \in Families |-> sessions[f].expires], n,
                                   clock + SessionLifetime)
    BY <1>1, <1>2, <1>3 DEF RefreshTokens!Extended
  <2> QED BY <1>1, <1>2, <1>4, <2>1, <2>2, <2>3 DEF RefreshTokens!Login
<1> QED BY <1>1, <1>7 DEF RefreshTokens!Next

\* A rotation gives one token of a family for another, before the family expires.
LEMMA RotationIsExchange ==
  ASSUME IInv, NEW r \in Requests, Rotate(r)
  PROVE  RefreshTokens!Next
<1>0. PICK n, s : n = Len(sessions) + 1 /\ s = request[r].session
  OBVIOUS
<1>1. /\ n \in 1..MaxSessions /\ n \notin Ids /\ Ids' = Ids \cup {n}
      /\ s \in Ids /\ ~sessions[s].rotated /\ ~sessions[s].revoked
      /\ sessions'[s].rotated
      /\ \A t \in Ids : /\ sessions'[t].family = sessions[t].family
                        /\ sessions'[t].expires = sessions[t].expires
                        /\ sessions'[t].revoked = sessions[t].revoked
                        /\ t # s => sessions'[t].rotated = sessions[t].rotated
      /\ sessions'[n].family = sessions[s].family
      /\ ~sessions'[n].rotated /\ ~sessions'[n].revoked
      /\ clock < sessions[s].expires
      /\ UNCHANGED clock
  BY <1>0, RotatedRow
<1>2. PICK f \in Families : f = sessions[s].family
  BY <1>1 DEF Families
<1>3. Families \subseteq Ids /\ Families' = Families
  <2>1. Families \subseteq Ids
    BY FamiliesAreSessions
  <2> QED BY <1>1, <2>1 DEF Families
<1>4. Refreshable(f) = {s} /\ Refreshable(f)' = {n}
  <2>1. \A t \in Ids : sessions[t].family = f /\ ~sessions[t].rotated => t = s
    BY <1>1, <1>2 DEF IInv, OneChainPerFamily, Newest, FamilyOf
  <2> QED BY <1>1, <1>2, <2>1 DEF Refreshable, Newest
<1>5. \A g \in Families : g # f => Refreshable(g)' = Refreshable(g)
  BY <1>1, <1>2 DEF Refreshable, Newest
<1>6. Void' = Void \cup {s}
  BY <1>1 DEF Void
<1>7. \A g \in Families : sessions'[g].expires = sessions[g].expires
  BY <1>1, <1>3
<1>8. clock < sessions[f].expires
  <2>1. /\ sessions[s].expires <= sessions[f].expires
        /\ sessions[s] \in Rows /\ sessions[f] \in Rows
    BY <1>1, <1>2, <1>3, RowFacts DEF IInv, FamilyEnds
  <2>2. clock \in Nat /\ sessions[s].expires \in Nat /\ sessions[f].expires \in Nat
    BY <2>1 DEF IInv, TypeOK, Rows
  <2> QED BY <1>1, <2>1, <2>2
<1>9. RefreshTokens!Exchange(f, n)
  <2>1. n \notin RefreshTokens!Issued
    BY <1>1, IssuedAreSessions
  <2>2. [g \in Families |-> Refreshable(g)]'
          = [[g \in Families |-> Refreshable(g)] EXCEPT ![f] = {n}]
    BY <1>2, <1>3, <1>4, <1>5
  <2>3. [g \in Families |-> sessions[g].expires]' = [g \in Families |-> sessions[g].expires]
    BY <1>3, <1>7
  <2> QED BY <1>1, <1>2, <1>4, <1>6, <1>8, <2>1, <2>2, <2>3 DEF RefreshTokens!Exchange
<1> QED BY <1>1, <1>2, <1>9 DEF RefreshTokens!Next

\* A revocation ends one family, or finds nothing in it to refresh.
LEMMA RevocationIsEnd ==
  ASSUME IInv, SeenIsOneFamily, NEW r \in Requests, RevokeFamily(r) \/ RevokeSession(r)
  PROVE  [RefreshTokens!Next]_(RefreshTokens!vars)
<1>0. PICK s : s = request[r].session
  OBVIOUS
<1>1. PICK ids \in SUBSET FamilyOf(s) :
        /\ s \in Ids
        /\ Ids' = Ids
        /\ \A t \in Ids : /\ sessions'[t].family = sessions[t].family
                          /\ sessions'[t].expires = sessions[t].expires
                          /\ sessions'[t].rotated = sessions[t].rotated
                          /\ sessions'[t].revoked = (t \in ids \/ sessions[t].revoked)
        /\ UNCHANGED clock
  BY <1>0, RevokedOfOneFamily
<1>2. PICK f \in Families : f = sessions[s].family
  BY <1>1 DEF Families
<1>3. Families \subseteq Ids /\ Families' = Families
  <2>1. Families \subseteq Ids
    BY FamiliesAreSessions
  <2> QED BY <1>1, <2>1 DEF Families
<1>4. \A t \in ids : t \in Ids /\ sessions[t].family = f
  BY <1>1, <1>2 DEF FamilyOf
<1>5. \A g \in Families : g # f => Refreshable(g)' = Refreshable(g)
  BY <1>1, <1>4 DEF Refreshable, Newest
<1>6. Refreshable(f)' = Refreshable(f) \ ids
  BY <1>1 DEF Refreshable, Newest
<1>7. Void' = Void \cup (Refreshable(f) \cap ids)
  BY <1>1, <1>4 DEF Void, Refreshable, Newest
<1>8. [g \in Families |-> sessions[g].expires]' = [g \in Families |-> sessions[g].expires]
  BY <1>1, <1>3
<1>9. CASE Refreshable(f) \cap ids = {}
  <2>1. [g \in Families |-> Refreshable(g)]' = [g \in Families |-> Refreshable(g)]
    BY <1>3, <1>5, <1>6, <1>9
  <2> QED BY <1>1, <1>7, <1>8, <1>9, <2>1 DEF RefreshTokens!vars
<1>10. CASE Refreshable(f) \cap ids # {}
  <2>1. \A t, u \in Refreshable(f) : t = u
    BY DEF IInv, OneChainPerFamily, Refreshable, Newest, FamilyOf
  <2>2. Refreshable(f) # {} /\ Refreshable(f) \subseteq ids
    BY <1>10, <2>1
  <2>3. [g \in Families |-> Refreshable(g)]'
          = [[g \in Families |-> Refreshable(g)] EXCEPT ![f] = {}]
    BY <1>2, <1>3, <1>5, <1>6, <2>2
  <2>4. Void' = Void \cup Refreshable(f)
    BY <1>7, <2>2
  <2>5. RefreshTokens!End(f)
    BY <1>1, <1>2, <1>8, <2>2, <2>3, <2>4 DEF RefreshTokens!End
  <2> QED BY <1>2, <2>5 DEF RefreshTokens!Next
<1> QED BY <1>9, <1>10

\* Sessions implements SessionFamily: every statement that writes sessions gives
\* one token for another in one family, or ends one family.
THEOREM ImplementsSessionFamily == Spec => FamilyImplementation
<1>1. Init => SeenIsOneFamily
  BY DEF Init, SeenIsOneFamily, Idle
<1>2. IInv /\ SeenIsOneFamily /\ [Next]_accountVars => [RefreshTokens!Next]_(RefreshTokens!vars)
  <2> SUFFICES ASSUME IInv, SeenIsOneFamily, [Next]_accountVars
               PROVE  [RefreshTokens!Next]_(RefreshTokens!vars)
    OBVIOUS
  <2>1. ASSUME NEW r \in Requests, CreateSession(r) PROVE RefreshTokens!Next
    BY <2>1, LoginGivesToken
  <2>2. ASSUME NEW r \in Requests, Rotate(r) PROVE RefreshTokens!Next
    BY <2>2, RotationIsExchange
  <2>3. ASSUME NEW r \in Requests, RevokeFamily(r) \/ RevokeSession(r)
        PROVE  [RefreshTokens!Next]_(RefreshTokens!vars)
    BY <2>3, RevocationIsEnd
  <2>4. CASE UNCHANGED sessions
    <3>1. /\ [f \in Families |-> Refreshable(f)]' = [f \in Families |-> Refreshable(f)]
          /\ [f \in Families |-> sessions[f].expires]' = [f \in Families |-> sessions[f].expires]
          /\ Void' = Void
      BY <2>4 DEF Families, Refreshable, Newest, Void, Ids
    <3>2. clock' = clock \/ clock' = clock + 1
      BY DEF Next, Serve, accountVars, Tick, Register, RegisterAgain, SendVerification,
             VerifyEmail, LoginLookup, CreateSession, RefreshLookup, LogoutCheck, Rotate,
             RevokeSnapshot, RevokeFamily, RevokeSession, Abort
    <3> QED BY <3>1, <3>2 DEF RefreshTokens!Next, RefreshTokens!Wait, RefreshTokens!vars
  <2> QED BY <2>1, <2>2, <2>3, <2>4, WritesOfSessions
<1>3. Init => RefreshTokens!Init
  BY NoTokens
<1>4. IInv /\ SeenIsOneFamily /\ [Next]_accountVars => SeenIsOneFamily'
  BY SeenStaysOneFamily
<1> QED BY <1>1, <1>2, <1>3, <1>4, Invariant, PTL DEF Spec, FamilyImplementation, RefreshTokens!Spec

=============================================================================
