------------------------------ MODULE Sessions -------------------------------
(***************************************************************************)
(* One account: its registration and verification, and the sessions it is  *)
(* signed in with.  Every login starts a family of sessions; a refresh      *)
(* replaces a session by a successor of the same family; presenting the     *)
(* refresh token of a session that was replaced revokes the family.         *)
(*                                                                         *)
(* A request of the API is several statements of one or two transactions.   *)
(* What a transaction has locked (auth_refresh_lookup is FOR UPDATE OF      *)
(* sessions) and the rows a statement has seen (its snapshot) are kept in   *)
(* the request, so that requests interleave as PostgreSQL lets them under   *)
(* READ COMMITTED.  Tokens are unguessable, so presenting one is naming the *)
(* session it belongs to; any token ever issued may be presented again.     *)
(***************************************************************************)
EXTENDS Integers, Sequences, FiniteSets

CONSTANTS
  Requests,          \* requests the API serves at the same time
  VerifyLifetime,    \* 24 hours, in ticks
  SessionLifetime,   \* 30 days, in ticks
  AccessLifetime,    \* 15 minutes, in ticks
  MaxSessions,       \* bound: rows of app.sessions
  MaxClock           \* bound: ticks

ASSUME SessionsAssumption ==
  /\ Requests # {}
  /\ {VerifyLifetime, SessionLifetime, AccessLifetime} \subseteq Nat \ {0}
  /\ {MaxSessions, MaxClock} \subseteq Nat

VARIABLES
  account,    \* the row of app.users, its one_time_token and its workspaces
  sessions,   \* rows of app.sessions in the order of their insertion
  request,    \* the locals and locks of every request
  clock

accountVars == <<account, sessions, request, clock>>

Idle == [stage |-> "idle", session |-> 0, version |-> 0, seen |-> {}]

NoAccount == [status |-> "absent", version |-> 1, link |-> "none", linkExpires |-> 0,
              workspaces |-> 0]

Init ==
  /\ account = NoAccount
  /\ sessions = <<>>
  /\ request = [r \in Requests |-> Idle]
  /\ clock = 0

Ids == DOMAIN sessions
FamilyOf(s) == {i \in Ids : sessions[i].family = sessions[s].family}
Free(r) == request[r].stage = "idle"
Answer(r) == request' = [request EXCEPT ![r] = Idle]

Tick ==
  /\ clock < MaxClock
  /\ clock' = clock + 1
  /\ UNCHANGED <<account, sessions, request>>

-----------------------------------------------------------------------------
(* Registration and verification.                                           *)

\* auth_register_user, ON CONFLICT (email) DO NOTHING.
Register(r) ==
  /\ Free(r)
  /\ account.status = "absent"
  /\ account' = [account EXCEPT !.status = "pending_verification", !.link = "unsent",
                                !.linkExpires = clock + VerifyLifetime]
  /\ request' = [request EXCEPT ![r].stage = "mail"]
  /\ UNCHANGED <<sessions, clock>>

\* The same for an account that exists, in whatever state: nothing, and the answer
\* is the same.
RegisterAgain(r) ==
  /\ Free(r)
  /\ account.status # "absent"
  /\ UNCHANGED accountVars

\* send_verification, after the registration has committed.
SendVerification(r, delivered) ==
  /\ request[r].stage = "mail"
  /\ account' = [account EXCEPT !.link = IF delivered THEN "sent" ELSE "lost"]
  /\ Answer(r)
  /\ UNCHANGED <<sessions, clock>>

\* Defective: consumed_at is not looked at.
LinkValidAgain == account.link \in {"sent", "used"} /\ clock < account.linkExpires

LinkValid == account.link = "sent" /\ clock < account.linkExpires

\* auth_verify_email: token, user, workspace, membership and usage in one
\* transaction, under the locks of token and user.
VerifyEmail(r) ==
  /\ Free(r)
  /\ LinkValid
  /\ account' = [account EXCEPT !.status = "active", !.link = "used",
                                !.version = @ + 1, !.workspaces = @ + 1]
  /\ UNCHANGED <<sessions, request, clock>>

-----------------------------------------------------------------------------
(* Login: the account is read in one transaction, the session inserted in   *)
(* another.                                                                 *)

LoginLookup(r) ==
  /\ Free(r)
  /\ account.status = "active"
  /\ request' = [request EXCEPT ![r].stage = "login", ![r].version = account.version]
  /\ UNCHANGED <<account, sessions, clock>>

NewRow(family, expires, version) ==
  [family |-> family, expires |-> expires, version |-> version, issued |-> clock,
   rotated |-> FALSE, revoked |-> FALSE]

CreateSession(r) ==
  /\ request[r].stage = "login"
  /\ Len(sessions) < MaxSessions
  /\ sessions' = Append(sessions,
       NewRow(Len(sessions) + 1, clock + SessionLifetime, request[r].version))
  /\ Answer(r)
  /\ UNCHANGED <<account, clock>>

-----------------------------------------------------------------------------
(* Rotation.                                                                *)

Locks(r) == IF request[r].stage \in {"rotating", "replayed", "revoking"}
            THEN {request[r].session} ELSE {}

\* Defective: the lookup does not lock what it reads.
UnlockedByAnyone(r, s) == s \in Ids

Unlocked(r, s) == \A other \in Requests \ {r} : s \notin Locks(other)

\* Defective: a successor always lives for the full thirty days.
SuccessorExpiryRenewed(s) == clock + SessionLifetime

SuccessorExpiry(s) ==
  LET renewed == clock + SessionLifetime
  IN IF renewed < sessions[s].expires THEN renewed ELSE sessions[s].expires

\* What validate_session and rotate_session ask of a session and its account.
Usable(s) ==
  /\ ~sessions[s].revoked
  /\ clock < sessions[s].expires
  /\ sessions[s].version = account.version
  /\ account.status = "active"

\* auth_refresh_lookup and the decision on the row it returns: a session that was
\* replaced is a replay whatever else holds, an unusable one (or a wrong CSRF
\* token) changes nothing.
RefreshLookup(r, s) ==
  /\ Free(r)
  /\ Unlocked(r, s)
  /\ sessions[s].rotated \/ Usable(s)
  /\ request' = [request EXCEPT
       ![r].stage = IF sessions[s].rotated THEN "replayed" ELSE "rotating",
       ![r].session = s]
  /\ UNCHANGED <<account, sessions, clock>>

\* Defective: a slow rotation may give a successor that has expired already.
BornAnyway(s) == sessions[s].expires > 0

\* ck_sessions_expiry.
BornAlive(s) == SuccessorExpiry(s) > clock

\* The successor is inserted, the session marked and the transaction committed.
Rotate(r) ==
  LET s == request[r].session
  IN /\ request[r].stage = "rotating"
     /\ Len(sessions) < MaxSessions
     /\ BornAlive(s)
     /\ sessions' = Append([sessions EXCEPT ![s].rotated = TRUE],
          NewRow(sessions[s].family, SuccessorExpiry(s), sessions[s].version))
     /\ Answer(r)
     /\ UNCHANGED <<account, clock>>

\* The UPDATE of the family begins: it will revoke the rows of its snapshot.
RevokeSnapshot(r) ==
  /\ request[r].stage = "replayed"
  /\ request' = [request EXCEPT ![r].stage = "revoking",
                                ![r].seen = FamilyOf(request[r].session)]
  /\ UNCHANGED <<account, sessions, clock>>

RevokedRows(rows, ids) ==
  [s \in DOMAIN rows |-> IF s \in ids THEN [rows[s] EXCEPT !.revoked = TRUE] ELSE rows[s]]

\* Defective: every session of the account is revoked.
RevocationOfAll(r) == Ids

Revocation(r) == request[r].seen

\* The UPDATE waits for every row another transaction has locked, then commits.
RevokeFamily(r) ==
  /\ request[r].stage = "revoking"
  /\ \A s \in request[r].seen : Unlocked(r, s)
  /\ sessions' = RevokedRows(sessions, Revocation(r))
  /\ Answer(r)
  /\ UNCHANGED <<account, clock>>

-----------------------------------------------------------------------------
(* Logout: the access token is checked in one transaction, the session       *)
(* revoked in another.                                                      *)

\* An access token is issued with every session; rotated_at is not looked at.
Authenticates(s) ==
  /\ clock < sessions[s].issued + AccessLifetime
  /\ Usable(s)

LogoutCheck(r, s) ==
  /\ Free(r)
  /\ Authenticates(s)
  /\ request' = [request EXCEPT ![r].stage = "leaving", ![r].session = s]
  /\ UNCHANGED <<account, sessions, clock>>

RevokeSession(r) ==
  /\ request[r].stage = "leaving"
  /\ Unlocked(r, request[r].session)
  /\ sessions' = RevokedRows(sessions, {request[r].session})
  /\ Answer(r)
  /\ UNCHANGED <<account, clock>>

\* The process or the connection to the database ends, a constraint fails, or
\* PostgreSQL picks the transaction to break a deadlock: nothing is written.  A
\* registration that ends here has sent no mail.
Abort(r) ==
  /\ ~Free(r)
  /\ account' = IF request[r].stage = "mail" THEN [account EXCEPT !.link = "lost"] ELSE account
  /\ Answer(r)
  /\ UNCHANGED <<sessions, clock>>

-----------------------------------------------------------------------------
Serve(r) ==
  \/ Register(r)
  \/ RegisterAgain(r)
  \/ \E delivered \in BOOLEAN : SendVerification(r, delivered)
  \/ VerifyEmail(r)
  \/ LoginLookup(r)
  \/ CreateSession(r)
  \/ \E s \in Ids : RefreshLookup(r, s) \/ LogoutCheck(r, s)
  \/ Rotate(r)
  \/ RevokeSnapshot(r)
  \/ RevokeFamily(r)
  \/ RevokeSession(r)
  \/ Abort(r)

Next == Tick \/ \E r \in Requests : Serve(r)

Spec == Init /\ [][Next]_accountVars

=============================================================================
