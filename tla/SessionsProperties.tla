------------------------- MODULE SessionsProperties --------------------------
(***************************************************************************)
(* What the sessions of an account should guarantee.                       *)
(***************************************************************************)
EXTENDS Sessions

Rows == [family : Nat \ {0}, expires : Nat, version : Nat, issued : Nat,
         rotated : BOOLEAN, revoked : BOOLEAN]

\* The type invariant of the account, its sessions and the requests.
TypeOK ==
  /\ account.status \in {"absent", "pending_verification", "active"}
  /\ account.link \in {"none", "unsent", "sent", "lost", "used"}
  /\ {account.version, account.linkExpires, account.workspaces} \subseteq Nat
  /\ sessions \in Seq(Rows)
  /\ \A s \in Ids : sessions[s].issued < sessions[s].expires
  /\ request \in [Requests ->
       [stage : {"idle", "mail", "login", "rotating", "replayed", "revoking", "leaving"},
        session : 0 .. Len(sessions), version : Nat, seen : SUBSET Ids]]
  /\ clock \in Nat

Newest(s) == ~sessions[s].rotated

\* A refresh token is exchanged once: whatever requests present it at the same
\* time, a family is one chain and has one session that was not replaced.
OneChainPerFamily ==
  \A s, t \in Ids : Newest(s) /\ Newest(t) /\ t \in FamilyOf(s) => s = t

\* Rotation cannot extend a family beyond the thirty days its login gave it,
\* however often and however late it is rotated.
FamilyEnds == \A s \in Ids : sessions[s].expires <= sessions[sessions[s].family].expires

\* Verification happens once: an active account has one workspace, and the
\* sessions of an account all carry its current version, so none of them is ended
\* by anything but its expiry, a logout or a replay.
VerifiedOnce ==
  /\ account.workspaces = (IF account.status = "active" THEN 1 ELSE 0)
  /\ \A s \in Ids : sessions[s].version = account.version

Ended(family) == \A s \in FamilyOf(family) : Newest(s) => sessions[s].revoked

\* Once the newest session of a family is revoked, by a logout or by a replay, no
\* refresh that was under way and no later one brings the family back.
EndedFamilyStaysEnded == [][\A f \in Ids : Ended(f) => Ended(f)']_accountVars

\* Families as a client knows them: by the one session it can still refresh.
Families ==
  {sessions[s].family : s \in Ids}

Refreshable(f) ==
  {s \in Ids : sessions[s].family = f /\ Newest(s) /\ ~sessions[s].revoked}

Void == {s \in Ids : sessions[s].rotated \/ sessions[s].revoked}

RefreshTokens == INSTANCE SessionFamily WITH
  Names <- 1 .. MaxSessions,
  Tokens <- 1 .. MaxSessions,
  Lifetime <- SessionLifetime,
  live <- [f \in Families |-> Refreshable(f)],
  until <- [f \in Families |-> sessions[f].expires],
  void <- Void,
  now <- clock

\* Whatever requests overlap, abort or replay, their statements on the rows are
\* exchanges of one token for another and ends of one family: no token is
\* exchanged twice, a revoked one never again, none past the life of its login,
\* and a logout or a replay touches no other family.
FamilyImplementation == RefreshTokens!Spec

-----------------------------------------------------------------------------
(* A documented promise the code does not keep.                             *)

\* 09_AUTH_AND_OAUTH.md: a token that was already used, presented again, revokes
\* the entire family and all of its descendants.  When the revocation of a replay
\* commits, no session of the family can be refreshed any more.
ReplayEndsFamily ==
  [][\A r \in Requests, s \in Ids :
       /\ request[r].stage = "revoking"
       /\ request[r].session = s
       /\ request'[r] = Idle
       /\ sessions' # sessions
       => Ended(s)']_accountVars

=============================================================================
