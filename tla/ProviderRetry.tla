---------------------------- MODULE ProviderRetry ----------------------------
(***************************************************************************)
(* One provider operation tried until it succeeds, fails for good or runs  *)
(* out of attempts: with_retry of the connector SDK (retry.py), and the    *)
(* same loop in the claims of one synchronisation job, whose delays the    *)
(* two runtimes compute by the same rule (_retry_delay). Every attempt     *)
(* begins with ensure_fresh of the Google clients and then makes all its   *)
(* calls with that one token, for as long as they take; the answers of     *)
(* Google are classified by _provider_error. Google refuses a token (401)  *)
(* that has expired or whose grant the user has withdrawn, and no other.   *)
(***************************************************************************)
EXTENDS Integers, Sequences, FiniteSets, FiniteSetsExt, SequencesExt

CONSTANTS
  Policies,     \* RetryPolicy values [attempts, base, max]; jobs: 5, 0.5, 30.0
  Randoms,      \* what random_value may return, in halves: 0, 1, 2 and beyond
  Statuses,     \* HTTP statuses of Google's answers; 0: no answer at all
  RetryAfters,  \* Retry-After headers: a number, or None for any other
  Lifetimes,    \* expires_in of a token answer; None if it is not a number
  Skew,         \* _EXPIRY_SKEW, two minutes
  Required,     \* the scope the connector needs
  OtherScope,
  None,
  MaxClock      \* bound on time

VARIABLES
  now,
  policy,
  credentials,  \* [expires, scopes]
  withdrawn,    \* the user has withdrawn the grant at Google
  stage,        \* "idle", "ready", "calling", "sleeping", "returned", "raised"
  attempt,
  until,        \* when the sleep ends
  error,        \* the last error, None before the first
  waited,       \* history: the delays so far
  ensured       \* history: the attempt's ensure_fresh [at, outcome], or None

vars == <<now, policy, credentials, withdrawn, stage, attempt, until, error,
          waited, ensured>>

\* errors.py
Error(class, after) ==
  [class |-> class, after |-> after,
   retryable |-> class \in {"rate_limited", "provider_unavailable"}]

\* _provider_error: a negative or unreadable Retry-After is none at all.
ErrorOf(status, header) ==
  CASE status = 401 -> Error("authentication_failed", None)
    [] status = 403 -> Error("permission_denied", None)
    [] status = 429 -> Error("rate_limited",
                             IF header = None THEN None
                             ELSE IF header < 0 THEN None ELSE header)
    [] status >= 500 -> Error("provider_unavailable", None)
    [] OTHER -> Error("malformed_item", None)

Success(status) == status \in 200..299

Init ==
  /\ now = 0
  /\ policy = None
  /\ credentials = None
  /\ withdrawn = FALSE
  /\ stage = "idle"
  /\ attempt = 1
  /\ until = 0
  /\ error = None
  /\ waited = <<>>
  /\ ensured = None

\* An operation is begun with the credentials the connection has: they have
\* the scopes that were granted, and any expiry.
Begin(p, expires, scopes) ==
  /\ stage = "idle"
  /\ stage' = "ready"
  /\ policy' = p
  /\ credentials' = [expires |-> expires, scopes |-> scopes]
  /\ UNCHANGED <<now, withdrawn, attempt, until, error, waited, ensured>>

-----------------------------------------------------------------------------
\* Mutation: the skew is forgotten.
FreshUntilExpiry(c) == c.expires # None /\ c.expires > now

\* A token is used as it is only if it lives longer than the skew.
Fresh(c) == c.expires # None /\ c.expires > now + Skew

\* The token endpoint's answer: an error, or credentials. A missing scope
\* field means the scopes stay the same. Without a refresh token the answer is
\* that of a refused one.
RefreshError(status, header, lifetime, scopes) ==
  IF status = 0 THEN Error("provider_unavailable", None)
  ELSE IF status \in {400, 401} THEN Error("authentication_failed", None)
  ELSE IF ~Success(status) THEN ErrorOf(status, header)
  ELSE IF lifetime = None THEN Error("malformed_item", None)
  ELSE IF Required \notin scopes THEN Error("permission_denied", None)
  ELSE None

Refreshed(lifetime, scopes) == [expires |-> now + lifetime, scopes |-> scopes]

Backoff(n) == Min({policy.max, policy.base * 2^(n - 1)})

\* Half of the backoff for each half of random_value, which is clamped to
\* 0..1; a rate limit's own delay instead, if it has one.
Delay(n, e, random) ==
  IF e.class = "rate_limited" /\ e.after # None
    THEN Min({policy.max, Max({0, e.after})})
    ELSE (Backoff(n) * Max({0, Min({2, random})})) \div 2

\* Mutation: an error that is no use retrying is retried all the same.
GivesUpWhenSpent(e) == attempt = policy.attempts

GivesUp(e) == ~e.retryable \/ attempt = policy.attempts

\* The attempt ended with e.
Handle(e, random) ==
  /\ error' = e
  /\ \/ /\ GivesUp(e)
        /\ stage' = "raised"
        /\ UNCHANGED <<until, waited>>
     \/ /\ ~GivesUp(e)
        /\ stage' = "sleeping"
        /\ until' = now + Delay(attempt, e, random)
        /\ waited' = Append(waited, Delay(attempt, e, random))
  /\ UNCHANGED <<now, policy, withdrawn, attempt>>

\* ensure_fresh, at the beginning of an attempt, and how it ends.
Ensure(outcome) ==
  /\ stage = "ready"
  /\ Fresh(credentials) <=> outcome = "fresh"
  /\ ensured' = [at |-> now, outcome |-> outcome]

EnsureFresh ==
  /\ Ensure("fresh")
  /\ stage' = "calling"
  /\ UNCHANGED <<now, policy, credentials, withdrawn, attempt, until, error, waited>>

\* The renewed token is saved and used.
EnsureRenews(lifetime, scopes) ==
  /\ Ensure("renewed")
  /\ ~withdrawn
  /\ RefreshError(200, None, lifetime, scopes) = None
  /\ credentials' = Refreshed(lifetime, scopes)
  /\ stage' = "calling"
  /\ UNCHANGED <<now, policy, withdrawn, attempt, until, error, waited>>

\* The token could not be renewed: the provider is not called.
EnsureFails(status, header, lifetime, scopes, random) ==
  /\ Ensure("failed")
  /\ withdrawn => ~Success(status)
  /\ RefreshError(status, header, lifetime, scopes) # None
  /\ Handle(RefreshError(status, header, lifetime, scopes), random)
  /\ UNCHANGED credentials

\* Google takes the token.
Accepted == ~withdrawn /\ now < credentials.expires

\* The last call of the attempt succeeds, as those before it did.
Return ==
  /\ stage = "calling"
  /\ Accepted
  /\ stage' = "returned"
  /\ UNCHANGED <<now, policy, credentials, withdrawn, attempt, until, error, waited,
                 ensured>>

\* A call fails, the first or a later one, and ends the attempt.
CallFails(status, header, random) ==
  /\ stage = "calling"
  /\ ~Success(status)
  /\ status = 401 => ~Accepted
  /\ Handle(IF status = 0 THEN Error("provider_unavailable", None)
            ELSE ErrorOf(status, header), random)
  /\ UNCHANGED <<credentials, ensured>>

\* The sleep is over, or the job is claimed again.
Retry ==
  /\ stage = "sleeping"
  /\ now >= until
  /\ stage' = "ready"
  /\ attempt' = attempt + 1
  /\ UNCHANGED <<now, policy, credentials, withdrawn, until, error, waited, ensured>>

Running == stage \in {"ready", "calling", "sleeping"}

Withdraw ==
  /\ Running
  /\ ~withdrawn
  /\ withdrawn' = TRUE
  /\ UNCHANGED <<now, policy, credentials, stage, attempt, until, error, waited, ensured>>

Tick ==
  /\ Running
  /\ now < MaxClock
  /\ now' = now + 1
  /\ UNCHANGED <<policy, credentials, withdrawn, stage, attempt, until, error, waited,
                 ensured>>

TokenScopes == {{Required}, {Required, OtherScope}, {OtherScope}}

Next ==
  \/ \E p \in Policies, expires \in {None} \cup 0..MaxClock,
        scopes \in {{Required}, {Required, OtherScope}} : Begin(p, expires, scopes)
  \/ Tick
  \/ Withdraw
  \/ EnsureFresh
  \/ \E lifetime \in Lifetimes, scopes \in TokenScopes : EnsureRenews(lifetime, scopes)
  \/ \E status \in Statuses, header \in RetryAfters, random \in Randoms :
       \/ CallFails(status, header, random)
       \/ \E lifetime \in Lifetimes, scopes \in TokenScopes :
            EnsureFails(status, header, lifetime, scopes, random)
  \/ Return
  \/ Retry

==============================================================================
