-------------------------- MODULE AlgorithmsProofs ---------------------------
(***************************************************************************)
(* Machine-checked proofs about Algorithms: an operation that is retried   *)
(* keeps to its policy and fails for want of authentication only with a    *)
(* reason, and a text of any length is covered by its chunks, of which     *)
(* none is dropped without a twin that is kept.                            *)
(***************************************************************************)
EXTENDS Algorithms, FoldLemmas

-----------------------------------------------------------------------------
(* Attempts and delays. *)

\* The bound on one delay: the doubled base, the maximum, or what was asked for.
Allowed(d, n) ==
  /\ d \in 0 .. policy.max
  /\ d <= policy.base * 2 ^ (n - 1) \/ d \in RetryAfters \cup {policy.max}

RetryInv ==
  /\ stage \in {"idle", "ready", "calling", "sleeping", "returned", "raised"}
  /\ attempt \in Nat \ {0}
  /\ waited \in Seq(Int)
  /\ stage = "idle" => attempt = 1 /\ waited = <<>>
  /\ stage # "idle" =>
       /\ policy \in Policies
       /\ attempt <= policy.attempts
       /\ Required \in credentials.scopes
  /\ stage = "sleeping" => attempt < policy.attempts /\ error.retryable
  /\ Len(waited) = attempt - (IF stage = "sleeping" THEN 0 ELSE 1)
  /\ \A i \in DOMAIN waited : Allowed(waited[i], i)
  /\ stage = "raised" /\ error.retryable => attempt = policy.attempts

\* An error, with the delay its provider asked for.
Errors == {P!Error(class, after) :
             class \in {"authentication_failed", "permission_denied", "rate_limited",
                        "provider_unavailable", "malformed_item"},
             after \in {None} \cup {r \in RetryAfters : r \in Nat}}

LEMMA PowersOfTwo ==
  ASSUME NEW n \in Nat
  PROVE  2 ^ n \in Nat
<1>1. IsFiniteSet(1 .. n) /\ Cardinality(1 .. n) = n
  <2>1. 1 \in Int /\ n \in Int
    OBVIOUS
  <2>2. IsFiniteSet(1 .. n) /\ Cardinality(1 .. n) = IF 1 > n THEN 0 ELSE n - 1 + 1
    BY <2>1, FS_Interval
  <2> QED BY <2>2
<1>2. /\ IsFiniteSet(SUBSET (1 .. n))
      /\ Cardinality(SUBSET (1 .. n)) = 2 ^ Cardinality(1 .. n)
  BY <1>1, FS_SUBSET
<1> QED BY <1>1, <1>2, FS_CardinalityType

LEMMA MaxOfTwo ==
  ASSUME NEW a \in Int, NEW b \in Int
  PROVE  Max({a, b}) \in {a, b} /\ Max({a, b}) >= a /\ Max({a, b}) >= b
<1>1. \E x \in {a, b} : \A y \in {a, b} : x >= y
  OBVIOUS
<1>2. Max({a, b}) \in {a, b} /\ \A y \in {a, b} : Max({a, b}) >= y
  BY <1>1 DEF Max
<1> QED BY <1>2

LEMMA LeastOfTwo ==
  ASSUME NEW a \in Int, NEW b \in Int
  PROVE  Min({a, b}) \in {a, b} /\ Min({a, b}) <= a /\ Min({a, b}) <= b
<1>1. \E x \in {a, b} : \A y \in {a, b} : x =< y
  OBVIOUS
<1>2. Min({a, b}) \in {a, b} /\ \A y \in {a, b} : Min({a, b}) =< y
  BY <1>1 DEF Min
<1> QED BY <1>2

LEMMA SameExtremes == \A S : P!Min(S) = Min(S) /\ P!Max(S) = Max(S)
  BY DEF P!Min, Min, P!Max, Max

\* The answers of Google are errors of these classes, and so are those of its token
\* endpoint.
LEMMA AnswersAreErrors ==
  ASSUME NEW status \in Statuses, NEW header \in RetryAfters \cup {None}
  PROVE  P!ErrorOf(status, header) \in Errors
<1>1. \A r \in RetryAfters : r # None /\ ~(r < 0) => r \in Nat
  BY RetryAssumption
<1>2. (IF header = None THEN None ELSE IF header < 0 THEN None ELSE header)
        \in {None} \cup {r \in RetryAfters : r \in Nat}
  BY <1>1
<1> QED BY <1>2 DEF P!ErrorOf, Errors

LEMMA RefreshErrors ==
  ASSUME NEW status \in Statuses, NEW header \in RetryAfters \cup {None}, NEW lifetime,
         NEW scopes, P!RefreshError(status, header, lifetime, scopes) # None
  PROVE  P!RefreshError(status, header, lifetime, scopes) \in Errors
<1>1. P!ErrorOf(status, header) \in Errors
  BY AnswersAreErrors
<1>2. \A class \in {"authentication_failed", "permission_denied",
                    "provider_unavailable", "malformed_item"} :
        P!Error(class, None) \in Errors
  BY DEF Errors
<1> QED BY <1>1, <1>2 DEF P!RefreshError

\* A delay is within its bounds.
LEMMA DelayAllowed ==
  ASSUME NEW n \in Nat \ {0}, NEW e \in Errors, NEW random \in Randoms,
         policy \in Policies
  PROVE  P!Delay(n, e, random) \in Int /\ Allowed(P!Delay(n, e, random), n)
<1> DEFINE m == policy.max
           b == policy.base * 2 ^ (n - 1)
           k == Max({0, Min({2, random})})
           w == Min({m, b})
<1>1. m \in Nat /\ policy.base \in Nat /\ random \in Int
  BY RetryAssumption
<1>2. b \in Nat
  <2>1. 2 ^ (n - 1) \in Nat
    BY PowersOfTwo
  <2>2. \A x, y \in Nat : x * y \in Nat
    OBVIOUS
  <2> QED BY <1>1, <2>1, <2>2
<1>3. k \in {0, 1, 2}
  <2> DEFINE h == Min({2, random})
  <2>1. 0 \in Int /\ 2 \in Int /\ random \in Int
    BY <1>1
  <2>2. h \in {2, random} /\ h <= 2
    BY <2>1, LeastOfTwo, Zenon
  <2>3. h \in Int
    <3> HIDE DEF h
    <3> QED BY <2>1, <2>2
  <2>4. Max({0, h}) \in {0, h} /\ Max({0, h}) >= 0
    <3> HIDE DEF h
    <3> QED BY <2>1, <2>3, MaxOfTwo, Zenon
  <2>5. k = Max({0, h})
    OBVIOUS
  <2> HIDE DEF h, k
  <2> QED BY <2>2, <2>3, <2>4, <2>5
<1>4. w \in Nat /\ w <= m /\ w <= b
  <2>1. m \in Int /\ b \in Int
    BY <1>1, <1>2
  <2>2. w \in {m, b} /\ w <= m /\ w <= b
    <3> HIDE DEF m, b
    <3> QED BY <2>1, LeastOfTwo, Zenon
  <2> HIDE DEF m, b, w
  <2> QED BY <1>1, <1>2, <2>2
<1>5. (w * k) \div 2 \in 0 .. w
  <2> HIDE DEF k, w
  <2> QED BY <1>3, <1>4
<1>6. CASE e.class = "rate_limited" /\ e.after # None
  <2>1. e.after \in RetryAfters /\ e.after \in Nat
    BY <1>6 DEF Errors, P!Error
  <2> DEFINE a == e.after
             d == Min({m, a})
  <2>2. 0 \in Int /\ a \in Int /\ m \in Int
    BY <1>1, <2>1
  <2>3. Max({0, a}) = a
    <3>1. Max({0, a}) \in {0, a} /\ Max({0, a}) >= 0 /\ Max({0, a}) >= a
      <4> HIDE DEF a
      <4> QED BY <2>2, MaxOfTwo, Zenon
    <3> QED BY <2>1, <3>1
  <2>4. P!Delay(n, e, random) = d
    BY <1>6, <2>3, SameExtremes, Zenon DEF P!Delay
  <2>5. d \in {m, a} /\ d <= m
    <3> HIDE DEF m, a
    <3> QED BY <2>2, LeastOfTwo, Zenon
  <2>6. d \in 0 .. m
    <3> HIDE DEF d
    <3> QED BY <1>1, <2>1, <2>5
  <2> HIDE DEF d
  <2> QED BY <2>1, <2>4, <2>5, <2>6 DEF Allowed
<1>7. CASE ~(e.class = "rate_limited" /\ e.after # None)
  <2>1. P!Delay(n, e, random) = (w * k) \div 2
    BY <1>7, SameExtremes, Zenon DEF P!Delay, P!Backoff
  <2> DEFINE d == (w * k) \div 2
  <2>2. d \in Int /\ d \in 0 .. m /\ d <= b
    <3> HIDE DEF w, k, m, b
    <3> QED BY <1>1, <1>2, <1>4, <1>5
  <2> QED BY <2>1, <2>2 DEF Allowed
<1> QED BY <1>6, <1>7

-----------------------------------------------------------------------------
(* The steps of an operation. *)

LEMMA InitRetry == Init => RetryInv
  BY DEF Init, P!Init, RetryInv

LEMMA WriteRetry ==
  ASSUME RetryInv, NEW block \in Blocks, Write(block)
  PROVE  RetryInv'
BY DEF RetryInv, Allowed, Write, retryVars

LEMMA BeginRetry ==
  ASSUME RetryInv, NEW p \in Policies, NEW expires,
         NEW scopes \in {{Required}, {Required, OtherScope}}, P!Begin(p, expires, scopes)
  PROVE  RetryInv'
<1>1. p.attempts \in Nat \ {0}
  BY RetryAssumption
<1> QED BY <1>1 DEF RetryInv, Allowed, P!Begin

LEMMA RetryRetry ==
  ASSUME RetryInv, P!Retry
  PROVE  RetryInv'
<1>1. policy.attempts \in Nat
  BY RetryAssumption DEF RetryInv, P!Retry
<1> QED BY <1>1 DEF RetryInv, Allowed, P!Retry

LEMMA TickRetry ==
  ASSUME RetryInv, P!Tick \/ P!Withdraw
  PROVE  RetryInv'
BY DEF RetryInv, Allowed, P!Tick, P!Withdraw

\* A failed attempt is the last one, or one more delay is served.
LEMMA HandleRetry ==
  ASSUME RetryInv, stage \in {"ready", "calling"}, NEW e \in Errors,
         NEW random \in Randoms, P!Handle(e, random), UNCHANGED credentials
  PROVE  RetryInv'
<1>1. policy \in Policies /\ policy.attempts \in Nat /\ policy' = policy /\ attempt' = attempt
  BY RetryAssumption DEF RetryInv, P!Handle
<1>2. CASE P!GivesUp(e)
  <2>1. stage' = "raised" /\ waited' = waited /\ error' = e
    BY <1>2, Zenon DEF P!Handle
  <2>2. e.retryable => attempt = policy.attempts
    BY <1>2, Zenon DEF P!GivesUp
  <2>3. \A i \in DOMAIN waited' : Allowed(waited[i], i)'
    BY <1>1, <2>1 DEF RetryInv, Allowed
  <2> QED BY <1>1, <2>1, <2>2, <2>3 DEF RetryInv
<1>3. CASE ~P!GivesUp(e)
  <2> DEFINE d == P!Delay(attempt, e, random)
  <2>1. stage' = "sleeping" /\ waited' = Append(waited, d) /\ error' = e
    BY <1>3, Zenon DEF P!Handle
  <2>2. attempt # policy.attempts /\ e.retryable
    BY <1>3, Zenon DEF P!GivesUp
  <2>3. attempt \in Nat \ {0} /\ attempt < policy.attempts
    BY <1>1, <2>2 DEF RetryInv
  <2>4. d \in Int /\ Allowed(d, attempt)
    BY <1>1, <2>3, DelayAllowed
  <2> HIDE DEF d
  <2>5. Len(waited) = attempt - 1 /\ waited \in Seq(Int)
    BY DEF RetryInv
  <2>6. /\ waited' \in Seq(Int) /\ Len(waited') = attempt /\ waited'[attempt] = d
        /\ DOMAIN waited' = 1 .. attempt /\ DOMAIN waited = 1 .. attempt - 1
        /\ \A i \in DOMAIN waited : waited'[i] = waited[i]
    BY <2>1, <2>3, <2>4, <2>5
  <2>7. \A i \in DOMAIN waited' : Allowed(waited[i], i)'
    <3> SUFFICES ASSUME NEW i \in 1 .. attempt PROVE Allowed(waited'[i], i)
      BY <1>1, <2>6 DEF Allowed
    <3>1. CASE i = attempt
      BY <2>4, <2>6, <3>1
    <3>2. CASE i # attempt
      <4>1. i \in DOMAIN waited
        BY <2>3, <2>6, <3>2
      <4> QED BY <2>6, <4>1 DEF RetryInv
    <3> QED BY <3>1, <3>2
  <2> QED BY <1>1, <2>1, <2>2, <2>3, <2>6, <2>7 DEF RetryInv
<1> QED BY <1>2, <1>3

\* A renewed token has the scope.
LEMMA RenewedHasScope ==
  ASSUME NEW lifetime, NEW scopes, P!RefreshError(200, None, lifetime, scopes) = None
  PROVE  Required \in scopes
<1>1. 200 # 0 /\ 200 \notin {400, 401} /\ P!Success(200)
  BY DEF P!Success
<1>2. /\ P!Error("malformed_item", None) # None
      /\ P!Error("permission_denied", None) # None
  BY NoneAssumption, Zenon
<1>3. P!RefreshError(200, None, lifetime, scopes) =
        IF lifetime = None THEN P!Error("malformed_item", None)
        ELSE IF Required \notin scopes THEN P!Error("permission_denied", None)
        ELSE None
  BY <1>1, SMT DEF P!RefreshError
<1> QED BY <1>2, <1>3, Zenon

LEMMA EnsureFreshRetry ==
  ASSUME RetryInv, P!EnsureFresh
  PROVE  RetryInv'
BY DEF RetryInv, Allowed, P!EnsureFresh, P!Ensure

LEMMA EnsureRenewsRetry ==
  ASSUME RetryInv, NEW lifetime, NEW scopes, P!EnsureRenews(lifetime, scopes)
  PROVE  RetryInv'
<1>1. Required \in credentials'.scopes
  BY RenewedHasScope DEF P!EnsureRenews, P!Refreshed
<1> QED BY <1>1 DEF RetryInv, Allowed, P!EnsureRenews, P!Ensure

LEMMA EnsureFailsRetry ==
  ASSUME RetryInv, NEW status \in Statuses, NEW header \in RetryAfters, NEW lifetime,
         NEW scopes, NEW random \in Randoms,
         P!EnsureFails(status, header, lifetime, scopes, random)
  PROVE  RetryInv'
<1>1. stage = "ready" /\ UNCHANGED credentials
  BY DEF P!EnsureFails, P!Ensure
<1>2. P!RefreshError(status, header, lifetime, scopes) \in Errors
  BY RefreshErrors DEF P!EnsureFails
<1> QED BY <1>1, <1>2, HandleRetry DEF P!EnsureFails

LEMMA ReturnRetry ==
  ASSUME RetryInv, P!Return
  PROVE  RetryInv'
BY DEF RetryInv, Allowed, P!Return

LEMMA CallFailsRetry ==
  ASSUME RetryInv, NEW status \in Statuses, NEW header \in RetryAfters,
         NEW random \in Randoms, P!CallFails(status, header, random)
  PROVE  RetryInv'
<1> DEFINE e == IF status = 0 THEN P!Error("provider_unavailable", None)
                ELSE P!ErrorOf(status, header)
<1>1. stage = "calling" /\ UNCHANGED credentials /\ P!Handle(e, random)
  BY DEF P!CallFails
<1>2. e \in Errors
  <2>1. P!Error("provider_unavailable", None) \in Errors
    BY DEF Errors
  <2> QED BY <2>1, AnswersAreErrors
<1> HIDE DEF e
<1> QED BY <1>1, <1>2, HandleRetry

\* What a step of an operation may be.
LEMMA StepsOfNext ==
  ASSUME P!Next
  PROVE  \/ \E p \in Policies, expires \in {None} \cup 0 .. MaxClock,
               scopes \in {{Required}, {Required, OtherScope}} : P!Begin(p, expires, scopes)
         \/ P!Tick \/ P!Withdraw
         \/ P!EnsureFresh
         \/ \E lifetime \in Lifetimes, scopes \in P!TokenScopes : P!EnsureRenews(lifetime, scopes)
         \/ \E status \in Statuses, header \in RetryAfters, random \in Randoms :
              P!CallFails(status, header, random)
         \/ \E status \in Statuses, header \in RetryAfters, random \in Randoms,
               lifetime \in Lifetimes, scopes \in P!TokenScopes :
              P!EnsureFails(status, header, lifetime, scopes, random)
         \/ P!Return
         \/ P!Retry
BY Zenon DEF P!Next

LEMMA NextRetry ==
  ASSUME RetryInv, [Next]_vars
  PROVE  RetryInv'
<1>1. CASE UNCHANGED vars
  BY <1>1 DEF RetryInv, Allowed, vars
<1>2. CASE \E block \in Blocks : Write(block)
  BY <1>2, WriteRetry
<1>3. CASE P!Next
  BY <1>3, StepsOfNext, BeginRetry, TickRetry, EnsureFreshRetry, EnsureRenewsRetry,
     CallFailsRetry, EnsureFailsRetry, ReturnRetry, RetryRetry, Zenon
<1> QED BY <1>1, <1>2, <1>3 DEF Next

\* A provider operation makes no more attempts than its policy has, waits once between
\* two of them, within the bounds and for a transient error only, and gives one up only
\* when its attempts are spent (retry.py:36-53).
THEOREM AttemptsAreBounded == Spec => []RetriesAreBounded
<1>1. RetryInv => RetriesAreBounded
  <2> SUFFICES ASSUME RetryInv PROVE RetriesAreBounded
    OBVIOUS
  <2>1. stage # "idle" => policy.attempts \in Nat
    BY RetryAssumption DEF RetryInv
  <2> QED BY <2>1 DEF RetryInv, RetriesAreBounded, Allowed
<1>2. Init /\ [][Next]_vars => []RetryInv
  BY InitRetry, NextRetry, PTL
<1> QED BY <1>1, <1>2, PTL DEF Spec

-----------------------------------------------------------------------------
(* Authentication failures. *)

\* Why an operation may have failed for want of authentication.
Reason ==
  \/ ensured.outcome = "failed"
  \/ withdrawn
  \/ now > ensured.at + Skew
  \/ ensured.outcome = "renewed" /\ credentials.expires <= ensured.at + Skew

\* The token of an attempt was looked at, and either outlives that look by the skew or
\* is new; nothing but time and the user comes between the look and the calls.
TokenInv ==
  /\ now \in Int
  /\ stage \in {"ready", "calling", "sleeping"} =>
       credentials.expires = None \/ credentials.expires \in Int
  /\ stage = "calling" =>
       /\ credentials.expires \in Int
       /\ ensured.at \in Int
       /\ ensured.outcome \in {"fresh", "renewed"}
       /\ ensured.outcome = "fresh" => credentials.expires > ensured.at + Skew
  /\ stage = "raised" /\ error.class = "authentication_failed" =>
       ensured.at \in Int /\ Reason

LEMMA HandleToken ==
  ASSUME TokenInv, stage \in {"ready", "calling"}, NEW e, NEW random,
         P!Handle(e, random), UNCHANGED credentials,
         e.class = "authentication_failed" => ensured'.at \in Int /\ Reason'
  PROVE  TokenInv'
<1>1. /\ stage' \in {"raised", "sleeping"} /\ error' = e /\ now' = now
      /\ credentials' = credentials
  BY Zenon DEF P!Handle
<1> QED BY <1>1 DEF TokenInv

LEMMA EnsureFreshToken ==
  ASSUME TokenInv, P!EnsureFresh
  PROVE  TokenInv'
<1>1. P!Fresh(credentials) /\ stage = "ready" /\ ensured' = [at |-> now, outcome |-> "fresh"]
  BY DEF P!EnsureFresh, P!Ensure
<1>2. credentials.expires \in Int /\ credentials.expires > now + Skew
  BY <1>1 DEF TokenInv, P!Fresh
<1> QED BY <1>1, <1>2 DEF TokenInv, P!EnsureFresh

\* The answer that renews a token says how long it lives.
LEMMA RenewedExpires ==
  ASSUME NEW lifetime \in Lifetimes, NEW scopes,
         P!RefreshError(200, None, lifetime, scopes) = None
  PROVE  lifetime \in Int
<1>1. 200 # 0 /\ 200 \notin {400, 401} /\ P!Success(200)
  BY DEF P!Success
<1>2. P!Error("malformed_item", None) # None
  BY NoneAssumption, Zenon
<1>3. P!RefreshError(200, None, lifetime, scopes) =
        IF lifetime = None THEN P!Error("malformed_item", None)
        ELSE IF Required \notin scopes THEN P!Error("permission_denied", None)
        ELSE None
  BY <1>1, SMT DEF P!RefreshError
<1>4. lifetime # None
  BY <1>2, <1>3, Zenon
<1> QED BY <1>4, RetryAssumption

LEMMA EnsureRenewsToken ==
  ASSUME TokenInv, NEW lifetime \in Lifetimes, NEW scopes, P!EnsureRenews(lifetime, scopes)
  PROVE  TokenInv'
<1>1. lifetime \in Int
  BY RenewedExpires DEF P!EnsureRenews
<1>2. /\ stage' = "calling" /\ now' = now
      /\ ensured' = [at |-> now, outcome |-> "renewed"]
      /\ credentials' = [expires |-> now + lifetime, scopes |-> scopes]
  BY DEF P!EnsureRenews, P!Ensure, P!Refreshed
<1> QED BY <1>1, <1>2 DEF TokenInv

LEMMA EnsureFailsToken ==
  ASSUME TokenInv, NEW status, NEW header, NEW lifetime, NEW scopes, NEW random,
         P!EnsureFails(status, header, lifetime, scopes, random)
  PROVE  TokenInv'
<1>1. stage = "ready" /\ UNCHANGED credentials /\ ensured' = [at |-> now, outcome |-> "failed"]
  BY DEF P!EnsureFails, P!Ensure
<1>2. ensured'.at \in Int /\ Reason'
  BY <1>1 DEF TokenInv, Reason
<1> QED BY <1>1, <1>2, HandleToken DEF P!EnsureFails

\* Only a refused token is an authentication failure of a call, and a token is refused
\* when it has expired or the grant is withdrawn.
LEMMA CallFailsToken ==
  ASSUME TokenInv, NEW status \in Statuses, NEW header, NEW random,
         P!CallFails(status, header, random)
  PROVE  TokenInv'
<1> DEFINE e == IF status = 0 THEN P!Error("provider_unavailable", None)
                ELSE P!ErrorOf(status, header)
<1>1. /\ stage = "calling" /\ UNCHANGED <<credentials, ensured>> /\ P!Handle(e, random)
      /\ status = 401 => ~P!Accepted
  BY DEF P!CallFails
<1>2. UNCHANGED <<now, withdrawn>>
  BY <1>1, Zenon DEF P!Handle
<1>3. e.class = "authentication_failed" => status = 401
  BY DEF P!Error, P!ErrorOf
<1>4. ASSUME status = 401 PROVE Reason
  <2>1. withdrawn \/ ~(now < credentials.expires)
    BY <1>1, <1>4 DEF P!Accepted
  <2>2. CASE withdrawn
    BY <2>2 DEF Reason
  <2>3. CASE ~(now < credentials.expires)
    BY <1>1, <2>3, RetryAssumption DEF TokenInv, Reason
  <2> QED BY <2>1, <2>2, <2>3
<1>5. e.class = "authentication_failed" => ensured'.at \in Int /\ Reason'
  BY <1>1, <1>2, <1>3, <1>4 DEF TokenInv, Reason
<1> HIDE DEF e
<1> QED BY <1>1, <1>5, HandleToken

\* Time passes, and the user withdraws what is granted: a reason remains one.
LEMMA TickToken ==
  ASSUME TokenInv, P!Tick \/ P!Withdraw
  PROVE  TokenInv'
BY DEF TokenInv, Reason, P!Tick, P!Withdraw, P!Running

LEMMA OtherStepsToken ==
  ASSUME TokenInv,
         \/ UNCHANGED vars
         \/ \E block \in Blocks : Write(block)
         \/ \E p \in Policies, expires \in {None} \cup 0 .. MaxClock,
               scopes \in {{Required}, {Required, OtherScope}} : P!Begin(p, expires, scopes)
         \/ P!Return
         \/ P!Retry
  PROVE  TokenInv'
BY DEF TokenInv, Reason, vars, Write, retryVars, P!Begin, P!Return, P!Retry

LEMMA NextToken ==
  ASSUME TokenInv, [Next]_vars
  PROVE  TokenInv'
BY StepsOfNext, TickToken, OtherStepsToken, EnsureFreshToken, EnsureRenewsToken,
   CallFailsToken, EnsureFailsToken, Zenon DEF Next

\* An operation fails for want of authentication, and the user is asked to authorize
\* again, only for one of the four reasons: an old token never is one, however long the
\* operation slept, because every attempt looks again before it calls; and every call
\* carries the scope of the connector (connections/drive.py:271-315,
\* sync/drive_runtime.py:111-131).
THEOREM AuthenticationFailuresHaveAReason == Spec => []AuthenticationFailsForAReason
<1>1. Init => RetryInv /\ TokenInv
  BY InitRetry DEF TokenInv, Init, P!Init
<1>2. RetryInv /\ TokenInv => AuthenticationFailsForAReason
  BY DEF RetryInv, TokenInv, Reason, AuthenticationFailsForAReason
<1>3. Init /\ [][Next]_vars => [](RetryInv /\ TokenInv)
  BY <1>1, NextRetry, NextToken, PTL
<1> QED BY <1>2, <1>3, PTL DEF Spec

-----------------------------------------------------------------------------
(* The words of a sequence of parts. *)

Names == {b.name : b \in Blocks}
Tokens == DOMAIN Digest
Part == [heading : Seq(Names), words : Seq(Tokens) \ {<<>>}, start : Nat]

LEMMA WordsLists ==
  ASSUME NEW D, \A p \in D : p.words \in Seq(Tokens), NEW s \in Seq(D)
  PROVE  /\ [k \in DOMAIN s |-> s[k].words] \in Seq(Seq(Tokens))
         /\ \A p \in D : [k \in DOMAIN Append(s, p) |-> Append(s, p)[k].words]
                         = Append([k \in DOMAIN s |-> s[k].words], p.words)
<1> DEFINE f == [p \in D |-> p.words]
<1>1. f \in [D -> Seq(Tokens)] /\ \A p \in D : f[p] = p.words
  OBVIOUS
<1>2. ASSUME NEW u \in Seq(D)
      PROVE  [k \in DOMAIN u |-> f[u[k]]] = [k \in DOMAIN u |-> u[k].words]
  <2>1. \A k \in DOMAIN u : u[k] \in D
    OBVIOUS
  <2> HIDE DEF f
  <2> QED BY <1>1, <2>1
<1> HIDE DEF f
<1>3. [k \in DOMAIN s |-> s[k].words] \in Seq(Seq(Tokens))
  <2>1. [k \in DOMAIN s |-> f[s[k]]] \in Seq(Seq(Tokens))
    BY <1>1, MapAppend
  <2> QED BY <1>2, <2>1
<1>4. ASSUME NEW p \in D
      PROVE  [k \in DOMAIN Append(s, p) |-> Append(s, p)[k].words]
               = Append([k \in DOMAIN s |-> s[k].words], p.words)
  <2> DEFINE t == Append(s, p)
  <2>1. t \in Seq(D)
    OBVIOUS
  <2>2. [k \in DOMAIN t |-> f[t[k]]] = Append([k \in DOMAIN s |-> f[s[k]]], f[p])
    BY <1>1, MapAppend
  <2> HIDE DEF t
  <2>3. [k \in DOMAIN t |-> t[k].words] = Append([k \in DOMAIN s |-> s[k].words], p.words)
    BY <1>1, <1>2, <2>1, <2>2
  <2> QED BY <2>3 DEF t
<1> QED BY <1>3, <1>4

LEMMA WordsAppend ==
  ASSUME NEW D, \A p \in D : p.words \in Seq(Tokens), NEW s \in Seq(D)
  PROVE  /\ Words(<<>>) = <<>>
         /\ Words(s) \in Seq(Tokens)
         /\ \A p \in D : Words(Append(s, p)) = Words(s) \o p.words
<1> DEFINE ws == [k \in DOMAIN s |-> s[k].words]
<1>1. ws \in Seq(Seq(Tokens))
  BY WordsLists
<1>2. Words(s) = FlattenSeq(ws) /\ Words(s) \in Seq(Tokens)
  <2>1. <<>> \in Seq(Tokens)
    OBVIOUS
  <2>2. FlattenSeq(ws) \in Seq(Tokens)
    <3> HIDE DEF ws
    <3> QED BY <1>1, <2>1, FlattenAppend
  <2> QED BY <2>2 DEF Words
<1>3. ASSUME NEW p \in D
      PROVE  Words(Append(s, p)) = Words(s) \o p.words
  <2>1. Words(Append(s, p)) = FlattenSeq(Append(ws, p.words))
    <3>1. [k \in DOMAIN Append(s, p) |-> Append(s, p)[k].words] = Append(ws, p.words)
      BY WordsLists
    <3> QED BY <3>1, Zenon DEF Words
  <2>2. p.words \in Seq(Tokens)
    OBVIOUS
  <2>3. FlattenSeq(Append(ws, p.words)) = FlattenSeq(ws) \o p.words
    <3> HIDE DEF ws
    <3> QED BY <1>1, <2>2, FlattenAppend
  <2> QED BY <1>2, <2>1, <2>3
<1>4. Words(<<>>) = <<>>
  <2>1. [k \in DOMAIN <<>> |-> <<>>[k].words] = <<>>
    OBVIOUS
  <2>2. FlattenSeq(<<>>) = <<>>
    BY DEF FlattenSeq
  <2> QED BY <2>1, <2>2 DEF Words
<1> QED BY <1>2, <1>3, <1>4

LEMMA WordsConcat ==
  ASSUME NEW D, \A p \in D : p.words \in Seq(Tokens), NEW s \in Seq(D), NEW t \in Seq(D)
  PROVE  Words(s \o t) = Words(s) \o Words(t)
<1> DEFINE T == {n \in Nat : \A u \in Seq(D) : Len(u) = n => Words(s \o u) = Words(s) \o Words(u)}
<1>1. Words(s) \in Seq(Tokens)
  BY WordsAppend
<1>2. 0 \in T
  <2>1. \A u \in Seq(D) : Len(u) = 0 => u = <<>>
    OBVIOUS
  <2>2. Words(s \o <<>>) = Words(s) \o Words(<<>>)
    BY <1>1, WordsAppend, ConcatEmptySeq
  <2> QED BY <2>1, <2>2
<1>3. ASSUME NEW n \in Nat, n \in T PROVE n + 1 \in T
  <2> SUFFICES ASSUME NEW u \in Seq(D), Len(u) = n + 1
               PROVE  Words(s \o u) = Words(s) \o Words(u)
    OBVIOUS
  <2>1. PICK v \in Seq(D), p \in D : u = Append(v, p)
    <3>1. u # <<>>
      OBVIOUS
    <3> QED BY <3>1, SequenceEmptyOrAppend
  <2>2. Len(v) = n
    BY <2>1, AppendFacts
  <2>3. Words(s \o v) = Words(s) \o Words(v)
    BY <1>3, <2>2
  <2>4. s \o u = Append(s \o v, p) /\ s \o v \in Seq(D)
    BY <2>1
  <2>5. /\ Words(s \o u) = Words(s \o v) \o p.words
        /\ Words(u) = Words(v) \o p.words
        /\ Words(v) \in Seq(Tokens) /\ p.words \in Seq(Tokens)
    BY <2>1, <2>4, WordsAppend
  <2>6. (Words(s) \o Words(v)) \o p.words = Words(s) \o (Words(v) \o p.words)
    <3> DEFINE a == Words(s)
               b == Words(v)
               c == p.words
    <3>1. a \in Seq(Tokens) /\ b \in Seq(Tokens) /\ c \in Seq(Tokens)
      BY <1>1, <2>5
    <3> HIDE DEF a, b, c
    <3>2. (a \o b) \o c = a \o (b \o c)
      BY <3>1, ConcatAssociative
    <3> QED BY <3>2 DEF a, b, c
  <2> QED BY <2>3, <2>5, <2>6, Zenon
<1>4. \A n \in Nat : n \in T
  <2> HIDE DEF T
  <2> QED BY <1>2, <1>3, AllNaturals
<1>5. Len(t) \in Nat
  OBVIOUS
<1> QED BY <1>4, <1>5

-----------------------------------------------------------------------------
(* The paragraphs of a text. *)

Paragraphing == [path : Seq(Names), at : Nat, list : Seq(Part)]

LEMMA HeadingPaths ==
  ASSUME NEW path \in Seq(Names), NEW block \in Blocks
  PROVE  HeadingPath(path, block) \in Seq(Names)
<1>1. CASE block.level = 0
  BY <1>1 DEF HeadingPath
<1>2. CASE block.level # 0
  <2> DEFINE l == block.level - 1
             n == Len(path)
             m == Min({l, n})
  <2>1. l \in Nat /\ n \in Nat
    BY <1>2, BlockAssumption
  <2>2. m \in 0 .. n
    <3>1. m \in Nat /\ m <= n
      <4> HIDE DEF l, n
      <4> QED BY <2>1, MinOfTwo
    <3> HIDE DEF m, n
    <3> QED BY <2>1, <3>1
  <2>3. SubSeq(path, 1, m) \in Seq(Names)
    <3> HIDE DEF m
    <3> QED BY <2>2
  <2>4. block.name \in Names
    BY DEF Names
  <2>5. HeadingPath(path, block) = SubSeq(path, 1, m) \o <<block.name>>
    BY <1>2 DEF HeadingPath
  <2> HIDE DEF m
  <2> QED BY <2>3, <2>4, <2>5
<1> QED BY <1>1, <1>2

LEMMA ParagraphIsAdded ==
  ASSUME NEW acc \in Paragraphing, NEW block \in Blocks
  PROVE  AddParagraph(acc, block) \in Paragraphing
<1>1. /\ block.words \in Seq(Tokens) \ {<<>>}
      /\ HeadingPath(acc.path, block) \in Seq(Names)
      /\ acc.at \in Nat /\ acc.list \in Seq(Part)
  BY BlockAssumption, HeadingPaths DEF Paragraphing, Tokens
<1>2. Len(block.words) \in Nat
  BY <1>1
<1>3. [heading |-> HeadingPath(acc.path, block),
       words |-> block.words, start |-> acc.at] \in Part
  BY <1>1 DEF Part
<1> QED BY <1>1, <1>2, <1>3 DEF AddParagraph, Paragraphing

\* The paragraphs as the blocks are read one by one.
ParagraphsBy(g, t) ==
  /\ g \in [0 .. Len(t) -> Paragraphing]
  /\ g[0] = NoParagraphs
  /\ g[Len(t)] = FoldLeft(AddParagraph, NoParagraphs, t)
  /\ \A i \in 0 .. Len(t) - 1 : g[i + 1] = AddParagraph(g[i], t[i + 1])

LEMMA ParagraphsStepByStep ==
  ASSUME NEW t \in Seq(Blocks)
  PROVE  \E g : ParagraphsBy(g, t)
<1> DEFINE n == Len(t)
           step == [a \in Paragraphing |-> [i \in 1 .. n |-> AddParagraph(a, t[i])]]
           Folds(f) == f = [s \in SUBSET DOMAIN t |->
                              IF s = {} THEN NoParagraphs
                              ELSE AddParagraph(f[s \ {Max(s)}], t[Max(s)])]
           F == CHOOSE f : Folds(f)
<1>1. FoldLeft(AddParagraph, NoParagraphs, t) = F[1 .. n]
  <2>1. DOMAIN t = 1 .. n
    OBVIOUS
  <2> QED BY <2>1, Zenon DEF FoldLeft, MapThenFoldSet
<1>2. NoParagraphs \in Paragraphing /\ n \in Nat /\ DOMAIN t = 1 .. n
  BY DEF NoParagraphs, Paragraphing
<1>3. \A a \in Paragraphing : \A i \in 1 .. n :
        step[a][i] = AddParagraph(a, t[i]) /\ step[a][i] \in Paragraphing
  BY ParagraphIsAdded
<1>4. \A s \in SUBSET (1 .. n) : s # {} =>
        Max(s) \in 1 .. n /\ s \ {Max(s)} \in SUBSET (1 .. n)
  <2> HIDE DEF n
  <2> QED BY <1>2, GreatestPosition
<1>5. Folds(F)
  <2>1. PICK f \in [SUBSET (1 .. n) -> Paragraphing] : FoldsPositions(f, n, NoParagraphs, step)
    <3> HIDE DEF step, n
    <3> QED BY <1>2, <1>3, FoldExists
  <2>2. \A s \in SUBSET (1 .. n) : s # {} =>
          f[s] = AddParagraph(f[s \ {Max(s)}], t[Max(s)])
    <3> SUFFICES ASSUME NEW s \in SUBSET (1 .. n), s # {}
                 PROVE  f[s] = AddParagraph(f[s \ {Max(s)}], t[Max(s)])
      OBVIOUS
    <3>1. f[s] = step[f[s \ {Max(s)}]][Max(s)]
      BY <2>1, Zenon DEF FoldsPositions
    <3>2. Max(s) \in 1 .. n /\ f[s \ {Max(s)}] \in Paragraphing
      <4> HIDE DEF n
      <4> QED BY <1>4, <2>1
    <3> HIDE DEF step, n
    <3> QED BY <1>3, <3>1, <3>2, Zenon
  <2>3. Folds(f)
    <3>1. \A s \in SUBSET (1 .. n) :
            f[s] = IF s = {} THEN NoParagraphs ELSE AddParagraph(f[s \ {Max(s)}], t[Max(s)])
      BY <2>1, <2>2, Zenon DEF FoldsPositions
    <3> HIDE DEF n
    <3> QED BY <1>2, <2>1, <3>1
  <2> HIDE DEF Folds
  <2> QED BY <2>3
<1>6. FoldsWithin(F, Paragraphing, n, NoParagraphs, step)
  <2>1. F = [s \in SUBSET (1 .. n) |->
               IF s = {} THEN NoParagraphs ELSE AddParagraph(F[s \ {Max(s)}], t[Max(s)])]
    <3> HIDE DEF F, n
    <3> QED BY <1>2, <1>5
  <2> HIDE DEF step, F, n
  <2>2. \A s \in SUBSET (1 .. n) :
          F[s] = IF s = {} THEN NoParagraphs ELSE AddParagraph(F[s \ {Max(s)}], t[Max(s)])
    BY <2>1
  <2>3. {} \in SUBSET (1 .. n)
    OBVIOUS
  <2> QED BY <1>3, <1>4, <2>2, <2>3, Zenon DEF FoldsWithin
<1>7. PICK g : Ladder(g, Paragraphing, n, NoParagraphs, F[1 .. n], step)
  <2> HIDE DEF step, F, n
  <2> QED BY <1>2, <1>3, <1>6, FoldStepByStep
<1>8. \A i \in 0 .. n - 1 : g[i + 1] = AddParagraph(g[i], t[i + 1])
  <2> SUFFICES ASSUME NEW i \in 0 .. n - 1 PROVE g[i + 1] = AddParagraph(g[i], t[i + 1])
    OBVIOUS
  <2> HIDE DEF step, F, n
  <2>1. g[i] \in Paragraphing /\ i + 1 \in 1 .. n /\ g[i + 1] = step[g[i]][i + 1]
    BY <1>2, <1>7 DEF Ladder
  <2> QED BY <1>3, <2>1, Zenon
<1> HIDE DEF step, F
<1> QED BY <1>1, <1>7, <1>8, Zenon DEF Ladder, ParagraphsBy

\* Parts follow one another without a gap, from offset a on.
Follow(s, a) ==
  /\ s \in Seq(Part)
  /\ s # <<>> => s[1].start = a
  /\ \A k \in 1 .. Len(s) - 1 : s[k + 1].start = s[k].start + Len(s[k].words)

Ends(part) == part.start + Len(part.words)

ParagraphsOK(acc, t, i) ==
  /\ acc \in Paragraphing
  /\ Len(acc.list) = i
  /\ Follow(acc.list, 0)
  /\ \A k \in 1 .. i : acc.list[k].words = t[k].words
  /\ acc.at = IF i = 0 THEN 0 ELSE Ends(acc.list[i])

\* A part that starts where the others end is one of them.
LEMMA FollowAppend ==
  ASSUME NEW s, NEW a \in Nat, Follow(s, a), NEW p \in Part,
         p.start = IF s = <<>> THEN a ELSE Ends(s[Len(s)])
  PROVE  Follow(Append(s, p), a)
<1> DEFINE n == Len(s)
           u == Append(s, p)
<1>1. s \in Seq(Part)
  BY DEF Follow
<1>2. /\ u \in Seq(Part) /\ n \in Nat /\ Len(u) = n + 1 /\ u[n + 1] = p
      /\ \A k \in 1 .. n : u[k] = s[k]
      /\ n = 0 <=> s = <<>>
  <2>1. n = 0 <=> s = <<>>
    BY <1>1
  <2> QED BY <1>1, <2>1, AppendFacts
<1> HIDE DEF u
<1>3. u[1].start = a
  <2>1. CASE n = 0
    BY <1>2, <2>1
  <2>2. CASE n # 0
    <3>1. 1 \in 1 .. n
      <4> HIDE DEF n
      <4> QED BY <1>2, <2>2
    <3> QED BY <1>2, <2>2, <3>1 DEF Follow
  <2> QED BY <2>1, <2>2
<1>4. ASSUME NEW k \in 1 .. n
      PROVE  u[k + 1].start = u[k].start + Len(u[k].words)
  <2>1. CASE k = n
    <3>1. s # <<>>
      BY <1>2, <2>1
    <3> QED BY <1>2, <2>1, <3>1 DEF Ends
  <2>2. CASE k # n
    <3>1. k \in 1 .. n - 1 /\ k + 1 \in 1 .. n
      <4> HIDE DEF n
      <4> QED BY <1>2, <2>2
    <3>2. s[k + 1].start = s[k].start + Len(s[k].words)
      BY <3>1 DEF Follow
    <3> QED BY <1>2, <3>1, <3>2
  <2> QED BY <2>1, <2>2
<1>5. (n + 1) - 1 = n
  <2> HIDE DEF n
  <2> QED BY <1>2
<1>6. Follow(u, a)
  <2> HIDE DEF n
  <2> QED BY <1>2, <1>3, <1>4, <1>5 DEF Follow
<1> QED BY <1>6 DEF u

LEMMA ParagraphFollows ==
  ASSUME NEW t \in Seq(Blocks), NEW i \in 0 .. Len(t) - 1, NEW acc, ParagraphsOK(acc, t, i)
  PROVE  ParagraphsOK(AddParagraph(acc, t[i + 1]), t, i + 1)
<1> DEFINE b == t[i + 1]
           p == [heading |-> HeadingPath(acc.path, b), words |-> b.words, start |-> acc.at]
           u == Append(acc.list, p)
           new == AddParagraph(acc, b)
<1>1. b \in Blocks /\ acc \in Paragraphing /\ i \in Nat
  BY DEF ParagraphsOK
<1>2. new \in Paragraphing
  BY <1>1, ParagraphIsAdded
<1>3. new.list = u /\ new.at = acc.at + Len(b.words)
  BY DEF AddParagraph
<1>4. /\ b.words \in Seq(Tokens) \ {<<>>}
      /\ HeadingPath(acc.path, b) \in Seq(Names)
      /\ acc.at \in Nat /\ acc.list \in Seq(Part)
  BY <1>1, BlockAssumption, HeadingPaths DEF Paragraphing, Tokens
<1>5. p \in Part /\ p.words = b.words /\ p.start = acc.at
  BY <1>4 DEF Part
<1> HIDE DEF p, b
<1>6. /\ u \in Seq(Part) /\ Len(u) = i + 1 /\ u[i + 1] = p
      /\ \A k \in 1 .. i : u[k] = acc.list[k]
  <2>1. Len(acc.list) = i
    BY DEF ParagraphsOK
  <2> QED BY <1>4, <1>5, <2>1, AppendFacts
<1>7. Follow(u, 0)
  <2>1. p.start = IF acc.list = <<>> THEN 0 ELSE Ends(acc.list[Len(acc.list)])
    <3>1. acc.list = <<>> <=> i = 0
      BY <1>4 DEF ParagraphsOK
    <3> QED BY <1>5, <3>1 DEF ParagraphsOK
  <2> QED BY <1>5, <2>1, FollowAppend DEF ParagraphsOK
<1>8. \A k \in 1 .. i + 1 : u[k].words = t[k].words
  <2> SUFFICES ASSUME NEW k \in 1 .. i + 1 PROVE u[k].words = t[k].words
    OBVIOUS
  <2>1. CASE k = i + 1
    BY <1>5, <1>6, <2>1 DEF b
  <2>2. CASE k # i + 1
    <3>1. k \in 1 .. i
      BY <1>1, <2>2
    <3> QED BY <1>6, <3>1 DEF ParagraphsOK
  <2> QED BY <2>1, <2>2
<1>9. acc.at + Len(b.words) = Ends(u[i + 1])
  BY <1>5, <1>6 DEF Ends
<1> HIDE DEF u, new
<1>10. i + 1 # 0
  BY <1>1
<1> QED BY <1>2, <1>3, <1>6, <1>7, <1>8, <1>9, <1>10 DEF ParagraphsOK, new, b

\* The paragraphs are the blocks, one after the other.
LEMMA ParagraphsCover ==
  ASSUME NEW t \in Seq(Blocks)
  PROVE  /\ Follow(Paragraphs(t), 0)
         /\ Len(Paragraphs(t)) = Len(t)
         /\ Words(Paragraphs(t)) = Words(t)
<1>1. PICK g : ParagraphsBy(g, t)
  BY ParagraphsStepByStep
<1> DEFINE n == Len(t)
           T == {i \in Nat : i <= n => ParagraphsOK(g[i], t, i)}
<1>2. n \in Nat
  OBVIOUS
<1>3. 0 \in T
  <2>1. g[0] = NoParagraphs
    BY <1>1 DEF ParagraphsBy
  <2>2. NoParagraphs \in Paragraphing /\ NoParagraphs.list = <<>> /\ NoParagraphs.at = 0
    BY DEF NoParagraphs, Paragraphing
  <2>3. Follow(<<>>, 0)
    BY DEF Follow
  <2> QED BY <2>1, <2>2, <2>3 DEF ParagraphsOK
<1>4. ASSUME NEW i \in Nat, i \in T PROVE i + 1 \in T
  <2> SUFFICES ASSUME i + 1 <= n PROVE ParagraphsOK(g[i + 1], t, i + 1)
    OBVIOUS
  <2>1. i \in 0 .. n - 1 /\ i <= n
    <3> HIDE DEF n
    <3> QED BY <1>2
  <2>2. g[i + 1] = AddParagraph(g[i], t[i + 1])
    BY <1>1, <2>1 DEF ParagraphsBy
  <2> QED BY <1>4, <2>1, <2>2, ParagraphFollows
<1>5. ParagraphsOK(g[n], t, n)
  <2>1. \A i \in Nat : i \in T
    <3> HIDE DEF T
    <3> QED BY <1>3, <1>4, AllNaturals
  <2> HIDE DEF n
  <2> QED BY <1>2, <2>1
<1>6. g[n].list = Paragraphs(t)
  BY <1>1 DEF ParagraphsBy, Paragraphs
<1> DEFINE list == Paragraphs(t)
<1> HIDE DEF list
<1>7. Follow(list, 0) /\ Len(list) = n /\ \A k \in 1 .. n : list[k].words = t[k].words
  BY <1>5, <1>6 DEF ParagraphsOK, list
<1>8. [k \in DOMAIN list |-> list[k].words] = [k \in DOMAIN t |-> t[k].words]
  <2>1. DOMAIN list = 1 .. n /\ DOMAIN t = 1 .. n
    BY <1>7 DEF Follow
  <2> QED BY <1>7, <2>1
<1> QED BY <1>7, <1>8 DEF Words, list

-----------------------------------------------------------------------------
(* The parts of a text. *)

\* Parts with the words ws, that start at offset a.
Covers(s, a, ws) ==
  /\ Follow(s, a)
  /\ Words(s) = ws
  /\ s # <<>> => Ends(s[Len(s)]) = a + Len(ws)

LEMMA PartWords == \A p \in Part : p.words \in Seq(Tokens) /\ p.words # <<>> /\ p.start \in Nat
  BY DEF Part

LEMMA CoversNothing ==
  ASSUME NEW a
  PROVE  Covers(<<>>, a, <<>>)
<1>1. Words(<<>>) = <<>>
  <2>1. <<>> \in Seq(Part)
    OBVIOUS
  <2> QED BY <2>1, PartWords, WordsAppend
<1> QED BY <1>1 DEF Covers, Follow

LEMMA CoversAppend ==
  ASSUME NEW s, NEW a \in Nat, NEW ws, Covers(s, a, ws), NEW p \in Part,
         p.start = a + Len(ws)
  PROVE  Covers(Append(s, p), a, ws \o p.words)
<1> DEFINE u == Append(s, p)
<1>1. s \in Seq(Part) /\ Words(s) = ws /\ Follow(s, a)
  BY DEF Covers, Follow
<1>2. ws \in Seq(Tokens) /\ p.words \in Seq(Tokens) /\ Words(u) = ws \o p.words
  BY <1>1, PartWords, WordsAppend
<1>3. s = <<>> => ws = <<>>
  BY <1>1, PartWords, WordsAppend
<1>4. p.start = IF s = <<>> THEN a ELSE Ends(s[Len(s)])
  <2>1. CASE s = <<>>
    <3>1. Len(ws) = 0
      BY <1>3, <2>1
    <3>2. a + 0 = a
      OBVIOUS
    <3> QED BY <2>1, <3>1, <3>2, Zenon
  <2>2. CASE s # <<>>
    BY <2>2, Zenon DEF Covers
  <2> QED BY <2>1, <2>2
<1>5. Follow(u, a)
  BY <1>1, <1>4, FollowAppend
<1>6. u[Len(u)] = p
  BY <1>1, AppendFacts
<1>7. Len(ws \o p.words) = Len(ws) + Len(p.words) /\ Len(ws) \in Nat /\ Len(p.words) \in Nat
  BY <1>2
<1>8. Ends(p) = a + Len(ws \o p.words)
  <2> DEFINE x == Len(ws)
             y == Len(p.words)
  <2>1. x \in Nat /\ y \in Nat /\ Ends(p) = (a + x) + y
    BY <1>7, Zenon DEF Ends
  <2>2. a + Len(ws \o p.words) = a + (x + y)
    BY <1>7, Zenon
  <2> HIDE DEF x, y
  <2>3. (a + x) + y = a + (x + y)
    BY <2>1
  <2> QED BY <2>1, <2>2, <2>3, Zenon
<1> HIDE DEF u
<1> QED BY <1>2, <1>5, <1>6, <1>8 DEF Covers, u

LEMMA CoversConcat ==
  ASSUME NEW s, NEW t, NEW a \in Nat, NEW ws, NEW xs, Covers(s, a, ws),
         Covers(t, a + Len(ws), xs)
  PROVE  Covers(s \o t, a, ws \o xs)
<1> DEFINE n == Len(s)
           m == Len(t)
           u == s \o t
<1>1. /\ s \in Seq(Part) /\ Words(s) = ws /\ ws \in Seq(Tokens)
      /\ t \in Seq(Part) /\ Words(t) = xs /\ xs \in Seq(Tokens)
  BY PartWords, WordsAppend DEF Covers, Follow
<1>2. /\ n \in Nat /\ m \in Nat /\ u \in Seq(Part) /\ Len(u) = n + m
      /\ \A k \in 1 .. n : u[k] = s[k]
      /\ \A k \in 1 .. m : u[n + k] = t[k]
      /\ n = 0 <=> s = <<>>
      /\ m = 0 <=> t = <<>>
      /\ u # <<>> => n + m > 0
  BY <1>1
<1>3. Words(u) = ws \o xs
  BY <1>1, PartWords, WordsConcat
<1>4. n = 0 => ws = <<>>
  BY <1>1, <1>2, PartWords, WordsAppend
<1>5. m = 0 => xs = <<>>
  BY <1>1, <1>2, PartWords, WordsAppend
<1>6. /\ Len(ws) \in Nat /\ Len(xs) \in Nat /\ Len(ws \o xs) = Len(ws) + Len(xs)
      /\ n = 0 => Len(ws) = 0
      /\ m = 0 => Len(xs) = 0
  BY <1>1, <1>4, <1>5
<1>7. /\ n # 0 => s[1].start = a /\ Ends(s[n]) = a + Len(ws)
      /\ m # 0 => t[1].start = a + Len(ws) /\ Ends(t[m]) = a + Len(ws) + Len(xs)
      /\ \A k \in 1 .. n - 1 : s[k + 1].start = Ends(s[k])
      /\ \A k \in 1 .. m - 1 : t[k + 1].start = Ends(t[k])
  BY <1>2 DEF Covers, Follow, Ends
<1> HIDE DEF n, m, u
<1>8. n + m > 0 => u[1].start = a
  <2>1. CASE n = 0
    <3>1. m > 0 => 1 \in 1 .. m /\ u[n + 1] = t[1] /\ n + 1 = 1
      BY <1>2, <2>1
    <3> QED BY <1>2, <1>6, <1>7, <2>1, <3>1
  <2>2. CASE n # 0
    <3>1. 1 \in 1 .. n
      BY <1>2, <2>2
    <3> QED BY <1>2, <1>7, <2>2, <3>1
  <2> QED BY <2>1, <2>2
<1>9. ASSUME NEW k \in 1 .. (n + m) - 1
      PROVE  u[k + 1].start = Ends(u[k])
  <2>1. CASE k < n
    <3>1. k \in 1 .. n - 1 /\ k \in 1 .. n /\ k + 1 \in 1 .. n
      BY <1>2, <2>1
    <3> QED BY <1>2, <1>7, <3>1
  <2>2. CASE k = n
    <3>1. n \in 1 .. n /\ 1 \in 1 .. m /\ n # 0 /\ m # 0
      BY <1>2, <2>2
    <3>2. u[n] = s[n] /\ u[n + 1] = t[1]
      BY <1>2, <3>1
    <3> QED BY <1>7, <2>2, <3>1, <3>2
  <2>3. CASE k > n
    <3> DEFINE l == k - n
    <3>1. l \in 1 .. m - 1 /\ l \in 1 .. m /\ l + 1 \in 1 .. m /\ k = n + l /\ k + 1 = n + (l + 1)
      BY <1>2, <2>3
    <3> HIDE DEF l
    <3>2. u[n + l] = t[l] /\ u[n + (l + 1)] = t[l + 1]
      BY <1>2, <3>1
    <3> QED BY <1>7, <3>1, <3>2
  <2> QED BY <1>2, <2>1, <2>2, <2>3
<1>10. n + m > 0 => Ends(u[n + m]) = a + Len(ws \o xs)
  <2>1. CASE m = 0
    <3>1. n > 0 => n \in 1 .. n /\ n + m = n
      BY <1>2, <2>1
    <3> QED BY <1>2, <1>6, <1>7, <2>1, <3>1
  <2>2. CASE m # 0
    <3>1. m \in 1 .. m
      BY <1>2, <2>2
    <3> QED BY <1>2, <1>6, <1>7, <2>2, <3>1
  <2> QED BY <2>1, <2>2
<1>11. Follow(u, a)
  BY <1>2, <1>8, <1>9 DEF Follow, Ends
<1> QED BY <1>2, <1>3, <1>10, <1>11 DEF Covers, u

\* Where size words are cut into n pieces of m, the last of them the rest.
CutsAt(cut, n, size, m) ==
  /\ cut \in [0 .. n -> 0 .. size]
  /\ cut[0] = 0 /\ cut[n] = size
  /\ \A i \in 0 .. n - 1 :
       /\ cut[i] = i * m
       /\ cut[i + 1] = Min({size, i * m + m})
       /\ cut[i] < cut[i + 1] /\ cut[i + 1] - cut[i] <= m

LEMMA Cuts ==
  ASSUME NEW m \in Nat \ {0}, NEW size \in Nat \ {0},
         NEW n, n = (size + m - 1) \div m
  PROVE  /\ n \in Nat \ {0}
         /\ \E cut : CutsAt(cut, n, size, m)
<1>1. n \in Nat /\ m * n <= size + m - 1 /\ size + m - 1 < m * (n + 1)
  <2>1. size + m - 1 \in Nat
    OBVIOUS
  <2> QED BY <2>1, Quotient
<1>2. m * n = n * m /\ n * m \in Nat /\ m * (n + 1) = n * m + m
  BY <1>1
<1>3. n * m <= size + m - 1 /\ size <= n * m
  <2> DEFINE x == n * m
  <2>1. x \in Nat /\ x <= size + m - 1 /\ size + m - 1 < x + m
    BY <1>1, <1>2
  <2> HIDE DEF x
  <2>2. x <= size + m - 1 /\ size <= x
    BY <2>1
  <2> QED BY <2>2 DEF x
<1>4. n # 0
  <2>1. n = 0 => n * m = 0
    OBVIOUS
  <2> QED BY <1>3, <2>1
<1>5. ASSUME NEW i \in 0 .. n - 1
      PROVE  i * m \in Nat /\ i * m < size /\ (i + 1) * m = i * m + m
  <2>1. i \in Nat /\ i + 1 <= n /\ i + 1 \in Nat
    BY <1>1
  <2>2. i * m \in Nat /\ (i + 1) * m = i * m + m
    BY <2>1
  <2>3. (i + 1) * m <= n * m
    BY <1>1, <2>1, Product
  <2> DEFINE x == n * m
             y == i * m
  <2>4. y \in Nat /\ x \in Nat /\ y + m <= x /\ x <= size + m - 1
    BY <1>2, <1>3, <2>2, <2>3
  <2> HIDE DEF x, y
  <2>5. y < size
    BY <2>4
  <2> QED BY <2>2, <2>5 DEF y
<1>6. ASSUME NEW i \in 0 .. n - 1, i + 1 # n
      PROVE  i * m + m < size
  <2>1. i + 1 \in 0 .. n - 1
    BY <1>1, <1>6
  <2> QED BY <1>5, <2>1
<1> DEFINE cut == [i \in 0 .. n |-> IF i = n THEN size ELSE i * m]
<1>7. cut \in [0 .. n -> 0 .. size]
  <2>1. ASSUME NEW i \in 0 .. n PROVE (IF i = n THEN size ELSE i * m) \in 0 .. size
    <3>1. CASE i = n
      BY <3>1
    <3>2. CASE i # n
      <4>1. i \in 0 .. n - 1
        BY <1>1, <3>2
      <4> QED BY <1>5, <3>2, <4>1
    <3> QED BY <3>1, <3>2
  <2> QED BY <2>1
<1>8. cut[0] = 0 /\ cut[n] = size
  <2>1. 0 \in 0 .. n /\ n \in 0 .. n /\ 0 * m = 0
    BY <1>1
  <2> QED BY <1>4, <2>1
<1>9. ASSUME NEW i \in 0 .. n - 1
      PROVE  /\ cut[i] = i * m
             /\ cut[i + 1] = Min({size, i * m + m})
             /\ cut[i] < cut[i + 1] /\ cut[i + 1] - cut[i] <= m
  <2>1. i \in 0 .. n /\ i + 1 \in 0 .. n /\ i # n
    BY <1>1
  <2>2. cut[i] = i * m /\ cut[i + 1] = IF i + 1 = n THEN size ELSE (i + 1) * m
    BY <2>1
  <2> DEFINE y == i * m
             z == y + m
             e == cut[i + 1]
             k == Min({size, z})
  <2>3. y \in Nat /\ y < size /\ z \in Int /\ z = y + m /\ size \in Int
    BY <1>5
  <2>4. e = IF i + 1 = n THEN size ELSE z
    BY <1>5, <2>2
  <2>5. i + 1 # n => z < size
    BY <1>6
  <2>6. i + 1 = n => size <= z
    <3> SUFFICES ASSUME i + 1 = n PROVE size <= z
      OBVIOUS
    <3>1. z = n * m
      BY <1>5
    <3> QED BY <1>3, <3>1
  <2>7. k \in {size, z} /\ k <= size /\ k <= z
    <3> HIDE DEF z
    <3> QED BY <2>3, LeastOfTwo, Zenon
  <2> HIDE DEF y, z, e, k, cut
  <2>8. e = k /\ y < e /\ e - y <= m
    BY <2>3, <2>4, <2>5, <2>6, <2>7
  <2> QED BY <2>2, <2>8 DEF y, z, e, k
<1> HIDE DEF cut
<1>10. CutsAt(cut, n, size, m)
  BY <1>7, <1>8, <1>9 DEF CutsAt
<1> QED BY <1>1, <1>4, <1>10

\* One piece: the words of a block between two cuts.
Piece(b, i, j) ==
  [heading |-> b.heading, words |-> SubSeq(b.words, i + 1, j), start |-> b.start + i]

LEMMA PieceFacts ==
  ASSUME NEW b \in Part, NEW i \in Nat, NEW j \in Nat, i < j, j <= Len(b.words)
  PROVE  /\ Piece(b, i, j) \in Part
         /\ Len(Piece(b, i, j).words) = j - i
         /\ SubSeq(b.words, 1, i) \in Seq(Tokens)
         /\ Len(SubSeq(b.words, 1, i)) = i
         /\ SubSeq(b.words, 1, i) \o Piece(b, i, j).words = SubSeq(b.words, 1, j)
<1> DEFINE w == b.words
           x == SubSeq(w, i + 1, j)
<1>1. w \in Seq(Tokens) /\ b.start \in Nat /\ b.heading \in Seq(Names)
  BY DEF Part
<1> HIDE DEF w
<1>2. x \in Seq(Tokens) /\ Len(x) = j - i
  BY <1>1 DEF w
<1>3. x # <<>>
  <2> HIDE DEF x
  <2> QED BY <1>2
<1>4. SubSeq(w, 1, i) \in Seq(Tokens) /\ Len(SubSeq(w, 1, i)) = i
  BY <1>1 DEF w
<1>5. SubSeq(w, 1, i) \o SubSeq(w, i + 1, j) = SubSeq(w, 1, j)
  <2>1. 1 \in 1 .. Len(w) + 1 /\ i \in 0 .. Len(w) /\ j \in i .. Len(w)
    BY <1>1 DEF w
  <2> QED BY <1>1, <2>1, ConcatAdjacentSubSeq
<1>6. /\ Piece(b, i, j).words = x
      /\ Piece(b, i, j) = [heading |-> b.heading, words |-> x, start |-> b.start + i]
  BY DEF Piece, w
<1>7. b.start + i \in Nat
  BY <1>1
<1> HIDE DEF x
<1>8. Piece(b, i, j) \in Part
  BY <1>1, <1>2, <1>3, <1>6, <1>7 DEF Part
<1> QED BY <1>2, <1>4, <1>5, <1>6, <1>8, Zenon DEF w, x

\* The parts of a block have its words, and none has more than the maximum.
LEMMA SplitCovers ==
  ASSUME NEW b \in Part
  PROVE  /\ Covers(SplitLargeBlock(b), b.start, b.words)
         /\ SplitLargeBlock(b) # <<>>
         /\ \A k \in DOMAIN SplitLargeBlock(b) :
              Len(SplitLargeBlock(b)[k].words) <= MaximumTokens
<1> DEFINE w == b.words
           size == Len(w)
           m == MaximumTokens
<1>1. w \in Seq(Tokens) /\ w # <<>> /\ size \in Nat \ {0} /\ b.start \in Nat
  BY DEF Part
<1>2. m \in Nat \ {0}
  BY ChunkerAssumption
<1>3. CASE size <= m
  <2>1. SplitLargeBlock(b) = <<b>>
    BY <1>3 DEF SplitLargeBlock
  <2>2. Covers(Append(<<>>, b), b.start, <<>> \o w)
    <3>1. b.start = b.start + Len(<<>>)
      BY <1>1
    <3> QED BY <1>1, <3>1, CoversNothing, CoversAppend
  <2>3. Append(<<>>, b) = <<b>> /\ <<>> \o w = w
    BY <1>1, ConcatEmptySeq
  <2>4. \A k \in DOMAIN <<b>> : <<b>>[k] = b
    OBVIOUS
  <2> QED BY <1>3, <2>1, <2>2, <2>3, <2>4
<1>4. CASE ~(size <= m)
  <2> DEFINE n == (size + m - 1) \div m
             s == SplitLargeBlock(b)
  <2>1. n \in Nat \ {0} /\ \E cut : CutsAt(cut, n, size, m)
    <3> HIDE DEF size, m
    <3> QED BY <1>1, <1>2, Cuts
  <2>2. PICK cut : CutsAt(cut, n, size, m)
    BY <2>1
  <2>3. s = [i \in 1 .. n |->
               [heading |-> b.heading,
                words |-> SubSeq(w, (i - 1) * m + 1, Min({size, (i - 1) * m + m})),
                start |-> b.start + (i - 1) * m]]
    BY <1>4, Zenon DEF SplitLargeBlock
  <2>4. ASSUME NEW i \in 0 .. n - 1
        PROVE  /\ cut[i] \in Nat /\ cut[i + 1] \in Nat /\ cut[i] < cut[i + 1]
               /\ cut[i + 1] <= size /\ cut[i + 1] - cut[i] <= m
               /\ s[i + 1] = Piece(b, cut[i], cut[i + 1])
               /\ s[i + 1] \in Part /\ Len(s[i + 1].words) <= m
    <3>1. i \in 0 .. n /\ i + 1 \in 0 .. n /\ i + 1 \in 1 .. n /\ (i + 1) - 1 = i
      <4> HIDE DEF n
      <4> QED BY <2>1
    <3>2. /\ cut[i] \in 0 .. size /\ cut[i + 1] \in 0 .. size
          /\ cut[i] = i * m /\ cut[i + 1] = Min({size, i * m + m})
          /\ cut[i] < cut[i + 1] /\ cut[i + 1] - cut[i] <= m
      <4> HIDE DEF n, size, m
      <4> QED BY <2>2, <3>1, Zenon DEF CutsAt
    <3>3. s[i + 1] = [heading |-> b.heading, words |-> SubSeq(w, cut[i] + 1, cut[i + 1]),
                      start |-> b.start + cut[i]]
      <4> HIDE DEF n, size, s, w
      <4> QED BY <2>3, <3>1, <3>2, Zenon
    <3>4. s[i + 1] = Piece(b, cut[i], cut[i + 1])
      BY <3>3, Zenon DEF Piece
    <3>5. cut[i] \in Nat /\ cut[i + 1] \in Nat /\ cut[i + 1] <= size
      <4> HIDE DEF size
      <4> QED BY <1>1, <3>2
    <3>6. s[i + 1] \in Part /\ Len(s[i + 1].words) = cut[i + 1] - cut[i]
      <4> DEFINE x == cut[i]
                 y == cut[i + 1]
      <4>1. x \in Nat /\ y \in Nat /\ x < y /\ y <= Len(b.words)
        BY <3>2, <3>5, Zenon
      <4> HIDE DEF s, x, y
      <4>2. Piece(b, x, y) \in Part /\ Len(Piece(b, x, y).words) = y - x
        BY <4>1, PieceFacts
      <4> QED BY <3>4, <4>2, Zenon DEF x, y
    <3> HIDE DEF s, size, m, n
    <3> QED BY <3>2, <3>4, <3>5, <3>6
  <2>5. s \in Seq(Part) /\ Len(s) = n
    <3>1. \A k \in 1 .. n : s[k] \in Part
      <4> SUFFICES ASSUME NEW k \in 1 .. n PROVE s[k] \in Part
        OBVIOUS
      <4>1. k - 1 \in 0 .. n - 1 /\ (k - 1) + 1 = k
        <5> HIDE DEF n
        <5> QED BY <2>1
      <4> HIDE DEF s, n
      <4> QED BY <2>4, <4>1
    <3>2. s = [k \in 1 .. n |-> s[k]]
      <4> HIDE DEF n, s
      <4> QED BY <2>3
    <3>3. n \in Nat
      BY <2>1
    <3> HIDE DEF s, n
    <3> QED BY <3>1, <3>2, <3>3, IsASeq
  <2> DEFINE T == {k \in Nat : k <= n => Covers(SubSeq(s, 1, k), b.start, SubSeq(w, 1, cut[k]))}
  <2> HIDE DEF s, n, w, size, m
  <2>6. 0 \in T
    <3>1. cut[0] = 0 /\ SubSeq(s, 1, 0) = <<>> /\ SubSeq(w, 1, 0) = <<>>
      BY <1>1, <2>2, <2>5, SubSeqEmpty DEF CutsAt
    <3> QED BY <3>1, CoversNothing
  <2>7. ASSUME NEW k \in Nat, k \in T PROVE k + 1 \in T
    <3> SUFFICES ASSUME k + 1 <= n
                 PROVE  Covers(SubSeq(s, 1, k + 1), b.start, SubSeq(w, 1, cut[k + 1]))
      OBVIOUS
    <3>1. k <= n /\ k \in 0 .. n - 1 /\ k \in 0 .. n /\ k + 1 \in 1 .. n
      BY <2>1
    <3>2. Covers(SubSeq(s, 1, k), b.start, SubSeq(w, 1, cut[k]))
      BY <2>7, <3>1
    <3> DEFINE p == Piece(b, cut[k], cut[k + 1])
    <3>3. s[k + 1] = p
      BY <2>4, <3>1
    <3>4. SubSeq(s, 1, k + 1) = Append(SubSeq(s, 1, k), s[k + 1])
      BY <2>5, <3>1
    <3>5. /\ p \in Part /\ Len(SubSeq(w, 1, cut[k])) = cut[k]
          /\ SubSeq(w, 1, cut[k]) \o p.words = SubSeq(w, 1, cut[k + 1])
      BY <2>4, <3>1, PieceFacts DEF w, size
    <3>6. p.start = b.start + Len(SubSeq(w, 1, cut[k]))
      BY <3>5 DEF Piece
    <3> HIDE DEF p
    <3> QED BY <1>1, <3>2, <3>3, <3>4, <3>5, <3>6, CoversAppend
  <2>8. n \in T
    <3>1. n \in Nat
      BY <2>1
    <3> HIDE DEF T
    <3> QED BY <2>6, <2>7, <3>1, AllNaturals
  <2>9. SubSeq(s, 1, n) = s /\ SubSeq(w, 1, size) = w
    BY <1>1, <2>5, SubSeqFull DEF size
  <2>10. Covers(s, b.start, w)
    <3>1. n <= n /\ cut[n] = size
      BY <2>1, <2>2 DEF CutsAt
    <3>2. Covers(SubSeq(s, 1, n), b.start, SubSeq(w, 1, size))
      BY <2>8, <3>1
    <3> QED BY <2>9, <3>2
  <2>11. s # <<>>
    BY <2>1, <2>5
  <2>12. \A k \in DOMAIN s : Len(s[k].words) <= m
    <3> SUFFICES ASSUME NEW k \in 1 .. n PROVE Len(s[k].words) <= m
      BY <2>5
    <3>1. k - 1 \in 0 .. n - 1 /\ (k - 1) + 1 = k
      BY <2>1
    <3> QED BY <2>4, <3>1
  <2> QED BY <2>10, <2>11, <2>12 DEF s, w, m
<1> QED BY <1>3, <1>4

\* The words as the parts are read one by one.
WordsBy(v, s) ==
  /\ v \in [0 .. Len(s) -> Seq(Tokens)]
  /\ v[0] = <<>>
  /\ v[Len(s)] = Words(s)
  /\ \A i \in 0 .. Len(s) - 1 : v[i + 1] = v[i] \o s[i + 1].words

LEMMA WordsStepByStep ==
  ASSUME NEW s \in Seq(Part)
  PROVE  \E v : WordsBy(v, s)
<1> DEFINE ws == [k \in DOMAIN s |-> s[k].words]
<1>1. ws \in Seq(Seq(Tokens))
  BY PartWords, WordsLists
<1>2. DOMAIN s = 1 .. Len(s) /\ Len(s) \in Nat
  OBVIOUS
<1>3. Len(ws) = Len(s) /\ \A k \in 1 .. Len(s) : ws[k] = s[k].words
  <2>1. ws = [k \in 1 .. Len(s) |-> s[k].words]
    BY <1>2
  <2>2. DOMAIN ws = 1 .. Len(s) /\ \A k \in 1 .. Len(s) : ws[k] = s[k].words
    BY <2>1
  <2> HIDE DEF ws
  <2> QED BY <1>1, <1>2, <2>2
<1>4. FlattenSeq(ws) = Words(s)
  BY DEF Words
<1> HIDE DEF ws
<1>5. PICK v : FlattensBy(v, Tokens, ws)
  BY <1>1, FlattenStepByStep
<1>6. ASSUME NEW i \in 0 .. Len(s) - 1
      PROVE  v[i + 1] = v[i] \o s[i + 1].words
  <2>1. i + 1 \in 1 .. Len(s)
    BY <1>2
  <2>2. v[i + 1] = v[i] \o ws[i + 1]
    BY <1>3, <1>5 DEF FlattensBy
  <2> QED BY <1>3, <2>1, <2>2
<1> QED BY <1>3, <1>4, <1>5, <1>6 DEF FlattensBy, WordsBy

Small(s) == \A k \in DOMAIN s : Len(s[k].words) <= MaximumTokens

LEMMA SmallConcat ==
  ASSUME NEW s \in Seq(Part), Small(s), NEW t \in Seq(Part), Small(t)
  PROVE  Small(s \o t)
<1> DEFINE n == Len(s)
           m == Len(t)
           u == s \o t
<1>1. /\ n \in Nat /\ m \in Nat /\ DOMAIN u = 1 .. n + m
      /\ DOMAIN s = 1 .. n /\ DOMAIN t = 1 .. m
      /\ \A k \in 1 .. n : u[k] = s[k]
      /\ \A k \in 1 .. m : u[n + k] = t[k]
  OBVIOUS
<1> HIDE DEF n, m, u
<1>2. ASSUME NEW k \in 1 .. n + m
      PROVE  Len(u[k].words) <= MaximumTokens
  <2>1. CASE k <= n
    <3>1. k \in 1 .. n
      BY <1>1, <2>1
    <3> QED BY <1>1, <3>1 DEF Small
  <2>2. CASE k > n
    <3>1. k - n \in 1 .. m /\ k = n + (k - n)
      BY <1>1, <2>2
    <3>2. u[k] = t[k - n]
      BY <1>1, <3>1
    <3> QED BY <1>1, <3>1, <3>2 DEF Small
  <2> QED BY <1>1, <2>1, <2>2
<1> QED BY <1>1, <1>2 DEF Small, u

\* The parts are the text, one after the other, and none has more than the maximum.
LEMMA PartsCover ==
  ASSUME NEW t \in Seq(Blocks)
  PROVE  /\ Covers(Parts(t), 0, Words(t))
         /\ Small(Parts(t))
         /\ t # <<>> => Parts(t) # <<>>
<1> DEFINE list == Paragraphs(t)
           n == Len(list)
           splits == [i \in DOMAIN list |-> SplitLargeBlock(list[i])]
<1>1. Follow(list, 0) /\ list \in Seq(Part) /\ n = Len(t) /\ Words(list) = Words(t)
  BY ParagraphsCover DEF Follow
<1>2. Parts(t) = FlattenSeq(splits)
  BY DEF Parts
<1> HIDE DEF list
<1>3. n \in Nat /\ DOMAIN list = 1 .. n /\ \A i \in 1 .. n : list[i] \in Part
  BY <1>1
<1>4. ASSUME NEW i \in 1 .. n
      PROVE  /\ Covers(splits[i], list[i].start, list[i].words)
             /\ splits[i] \in Seq(Part) /\ Small(splits[i]) /\ splits[i] # <<>>
  <2>1. splits[i] = SplitLargeBlock(list[i]) /\ list[i] \in Part
    BY <1>3
  <2> HIDE DEF splits
  <2>2. /\ Covers(splits[i], list[i].start, list[i].words)
        /\ splits[i] # <<>> /\ Small(splits[i])
    BY <2>1, SplitCovers DEF Small
  <2> QED BY <2>2 DEF Covers, Follow
<1>5. splits \in Seq(Seq(Part)) /\ Len(splits) = n
  <2>1. splits = [i \in 1 .. n |-> splits[i]]
    BY <1>3
  <2> HIDE DEF splits, n
  <2> QED BY <1>3, <1>4, <2>1, IsASeq
<1> HIDE DEF splits
<1>6. PICK g : FlattensBy(g, Part, splits)
  BY <1>5, FlattenStepByStep
<1>7. PICK v : WordsBy(v, list)
  BY <1>1, WordsStepByStep
<1> DEFINE OK(i) ==
             /\ Covers(g[i], 0, v[i])
             /\ Small(g[i])
             /\ i > 0 => g[i] # <<>>
             /\ i < n => list[i + 1].start = Len(v[i])
           T == {i \in Nat : i <= n => OK(i)}
<1> HIDE DEF n
<1>8. 0 \in T
  <2>1. g[0] = <<>> /\ v[0] = <<>>
    BY <1>6, <1>7 DEF FlattensBy, WordsBy
  <2>2. Covers(<<>>, 0, <<>>) /\ Small(<<>>) /\ Len(<<>>) = 0
    BY CoversNothing DEF Small
  <2>3. 0 < n => list[0 + 1].start = 0
    BY <1>1, <1>3 DEF Follow, n
  <2> QED BY <2>1, <2>2, <2>3
<1>9. ASSUME NEW i \in Nat, i \in T PROVE i + 1 \in T
  <2> SUFFICES ASSUME i + 1 <= n PROVE OK(i + 1)
    OBVIOUS
  <2>1. i <= n /\ i < n /\ i \in 0 .. n - 1 /\ i + 1 \in 1 .. n /\ i \in 0 .. n
    BY <1>3
  <2>2. OK(i)
    BY <1>9, <2>1
  <2>3. g[i + 1] = g[i] \o splits[i + 1]
    BY <1>5, <1>6, <2>1 DEF FlattensBy
  <2>4. v[i + 1] = v[i] \o list[i + 1].words /\ v[i] \in Seq(Tokens)
    BY <1>7, <2>1 DEF WordsBy, n
  <2>5. list[i + 1].words \in Seq(Tokens) /\ list[i + 1].start = Len(v[i])
    BY <1>3, <2>1, <2>2, PartWords
  <2>6. Len(v[i]) \in Nat /\ 0 + Len(v[i]) = Len(v[i])
    BY <2>4
  <2>7. g[i] \in Seq(Part)
    BY <2>2 DEF Covers, Follow
  <2>8. Covers(g[i + 1], 0, v[i + 1])
    <3>1. Covers(splits[i + 1], 0 + Len(v[i]), list[i + 1].words)
      BY <1>4, <2>1, <2>5, <2>6
    <3>2. Covers(g[i] \o splits[i + 1], 0, v[i] \o list[i + 1].words)
      BY <2>2, <3>1, CoversConcat
    <3> QED BY <2>3, <2>4, <3>2
  <2>9. Small(g[i + 1])
    BY <1>4, <2>1, <2>2, <2>3, <2>7, SmallConcat
  <2>10. g[i + 1] # <<>>
    <3>1. splits[i + 1] \in Seq(Part) /\ splits[i + 1] # <<>>
      BY <1>4, <2>1
    <3> QED BY <2>3, <2>7, <3>1
  <2>11. i + 1 < n => list[(i + 1) + 1].start = Len(v[i + 1])
    <3> SUFFICES ASSUME i + 1 < n PROVE list[(i + 1) + 1].start = Len(v[i + 1])
      OBVIOUS
    <3>1. i + 1 \in 1 .. n - 1
      BY <1>3
    <3>2. list[(i + 1) + 1].start = list[i + 1].start + Len(list[i + 1].words)
      BY <1>1, <3>1 DEF Follow, n
    <3>3. Len(v[i + 1]) = Len(v[i]) + Len(list[i + 1].words)
      BY <2>4, <2>5
    <3> QED BY <2>5, <3>2, <3>3
  <2> QED BY <2>8, <2>9, <2>10, <2>11
<1>10. OK(n)
  <2>1. \A i \in Nat : i \in T
    <3> HIDE DEF T
    <3> QED BY <1>8, <1>9, AllNaturals
  <2>2. n \in T /\ n <= n
    BY <1>3, <2>1
  <2> QED BY <2>2
<1>11. g[n] = Parts(t) /\ v[n] = Words(t)
  BY <1>1, <1>2, <1>5, <1>6, <1>7 DEF FlattensBy, WordsBy, n
<1>12. t # <<>> => n > 0
  BY <1>1, <1>3 DEF n
<1> QED BY <1>10, <1>11, <1>12

-----------------------------------------------------------------------------
(* The chunks of a text. *)

Chunk == [heading : Seq(Names), content : Seq(Seq(Tokens)), start : Nat, end : Nat]
Gathering == [done : Seq(Chunk), current : Seq(Part)]

AllWords(chunks) == FlattenSeq([i \in DOMAIN chunks |-> ChunkWords(chunks[i])])

LEMMA ChunkWordsType ==
  ASSUME NEW c \in Chunk
  PROVE  ChunkWords(c) \in Seq(Tokens)
<1>1. c.content \in Seq(Seq(Tokens)) /\ <<>> \in Seq(Tokens)
  BY DEF Chunk
<1> QED BY <1>1, FlattenAppend DEF ChunkWords

LEMMA AllWordsAppend ==
  ASSUME NEW s \in Seq(Chunk)
  PROVE  /\ AllWords(<<>>) = <<>>
         /\ AllWords(s) \in Seq(Tokens)
         /\ \A c \in Chunk : AllWords(Append(s, c)) = AllWords(s) \o ChunkWords(c)
<1> DEFINE f == [c \in Chunk |-> ChunkWords(c)]
<1>1. f \in [Chunk -> Seq(Tokens)] /\ \A c \in Chunk : f[c] = ChunkWords(c)
  BY ChunkWordsType
<1> HIDE DEF f
<1>2. ASSUME NEW u \in Seq(Chunk)
      PROVE  AllWords(u) = FlattenSeq([k \in DOMAIN u |-> f[u[k]]])
  <2>1. \A k \in DOMAIN u : u[k] \in Chunk
    OBVIOUS
  <2>2. [k \in DOMAIN u |-> ChunkWords(u[k])] = [k \in DOMAIN u |-> f[u[k]]]
    BY <1>1, <2>1
  <2> QED BY <2>2 DEF AllWords
<1>3. AllWords(<<>>) = <<>>
  <2>1. [k \in DOMAIN <<>> |-> ChunkWords(<<>>[k])] = <<>>
    OBVIOUS
  <2>2. FlattenSeq(<<>>) = <<>>
    BY DEF FlattenSeq
  <2> QED BY <2>1, <2>2 DEF AllWords
<1> DEFINE ws == [k \in DOMAIN s |-> f[s[k]]]
<1>4. ws \in Seq(Seq(Tokens))
  BY <1>1, MapAppend
<1>5. AllWords(s) = FlattenSeq(ws)
  BY <1>2
<1>6. AllWords(s) \in Seq(Tokens)
  <2>1. <<>> \in Seq(Tokens)
    OBVIOUS
  <2> HIDE DEF ws
  <2> QED BY <1>4, <1>5, <2>1, FlattenAppend
<1>7. ASSUME NEW c \in Chunk
      PROVE  AllWords(Append(s, c)) = AllWords(s) \o ChunkWords(c)
  <2> DEFINE t == Append(s, c)
  <2>1. t \in Seq(Chunk) /\ f[c] \in Seq(Tokens) /\ f[c] = ChunkWords(c)
    BY <1>1
  <2>2. [k \in DOMAIN t |-> f[t[k]]] = Append(ws, f[c])
    BY <1>1, MapAppend
  <2> HIDE DEF ws, t
  <2>3. AllWords(t) = FlattenSeq(Append(ws, f[c]))
    BY <1>2, <2>1, <2>2
  <2>4. FlattenSeq(Append(ws, f[c])) = FlattenSeq(ws) \o f[c]
    BY <1>4, <2>1, FlattenAppend
  <2> QED BY <1>5, <2>1, <2>3, <2>4 DEF t
<1> QED BY <1>3, <1>6, <1>7

\* A chunk has the words of its parts, from the start of the first to the end of the
\* last.
LEMMA MergeFacts ==
  ASSUME NEW s \in Seq(Part), s # <<>>
  PROVE  /\ Merge(s) \in Chunk
         /\ ChunkWords(Merge(s)) = Words(s)
         /\ Merge(s).start = s[1].start
         /\ Merge(s).end = Ends(s[Len(s)])
<1> DEFINE ws == [k \in DOMAIN s |-> s[k].words]
           first == s[1]
           last == s[Len(s)]
<1>1. first \in Part /\ last \in Part /\ Head(s) = first /\ Last(s) = last
  BY DEF Last
<1>2. ws \in Seq(Seq(Tokens))
  BY PartWords, WordsLists
<1>3. Merge(s) = [heading |-> first.heading, content |-> ws, start |-> first.start,
                  end |-> Ends(last)]
  BY <1>1, Zenon DEF Merge, Ends
<1> HIDE DEF ws, first, last
<1>4. Ends(last) \in Nat /\ first.heading \in Seq(Names) /\ first.start \in Nat
  <2>1. last.start \in Nat /\ Len(last.words) \in Nat
    BY <1>1 DEF Part
  <2> QED BY <1>1, <2>1 DEF Part, Ends
<1>5. Merge(s) \in Chunk
  BY <1>2, <1>3, <1>4 DEF Chunk
<1>6. Merge(s).content = ws /\ Merge(s).start = first.start /\ Merge(s).end = Ends(last)
  BY <1>3
<1> QED BY <1>5, <1>6 DEF ChunkWords, Words, ws, first, last

LEMMA GatherTypes ==
  ASSUME NEW acc \in Gathering, NEW part \in Part
  PROVE  Gather(acc, part) \in Gathering
<1>1. acc.done \in Seq(Chunk) /\ acc.current \in Seq(Part)
  BY DEF Gathering
<1>2. CASE EndsBefore(acc.current, part)
  <2>1. Merge(acc.current) \in Chunk
    BY <1>1, <1>2, MergeFacts DEF EndsBefore
  <2>2. Append(acc.done, Merge(acc.current)) \in Seq(Chunk) /\ <<part>> \in Seq(Part)
    BY <1>1, <2>1
  <2> QED BY <1>2, <2>2 DEF Gather, Gathering
<1>3. CASE ~EndsBefore(acc.current, part)
  <2>1. Append(acc.current, part) \in Seq(Part)
    BY <1>1
  <2> QED BY <1>3, <2>1 DEF Gather, Gathering
<1> QED BY <1>2, <1>3

\* What is gathered as the parts are read one by one.
GatheredBy(g, p) ==
  /\ g \in [0 .. Len(p) -> Gathering]
  /\ g[0] = NothingGathered
  /\ g[Len(p)] = FoldLeft(Gather, NothingGathered, p)
  /\ \A i \in 0 .. Len(p) - 1 : g[i + 1] = Gather(g[i], p[i + 1])

LEMMA GatherStepByStep ==
  ASSUME NEW p \in Seq(Part)
  PROVE  \E g : GatheredBy(g, p)
<1> DEFINE n == Len(p)
           step == [a \in Gathering |-> [i \in 1 .. n |-> Gather(a, p[i])]]
           Folds(f) == f = [s \in SUBSET DOMAIN p |->
                              IF s = {} THEN NothingGathered
                              ELSE Gather(f[s \ {Max(s)}], p[Max(s)])]
           F == CHOOSE f : Folds(f)
<1>1. FoldLeft(Gather, NothingGathered, p) = F[1 .. n]
  <2>1. DOMAIN p = 1 .. n
    OBVIOUS
  <2> QED BY <2>1, Zenon DEF FoldLeft, MapThenFoldSet
<1>2. NothingGathered \in Gathering /\ n \in Nat /\ DOMAIN p = 1 .. n
  BY DEF NothingGathered, Gathering
<1>3. \A a \in Gathering : \A i \in 1 .. n :
        step[a][i] = Gather(a, p[i]) /\ step[a][i] \in Gathering
  BY GatherTypes
<1>4. \A s \in SUBSET (1 .. n) : s # {} =>
        Max(s) \in 1 .. n /\ s \ {Max(s)} \in SUBSET (1 .. n)
  <2> HIDE DEF n
  <2> QED BY <1>2, GreatestPosition
<1>5. Folds(F)
  <2>1. PICK f \in [SUBSET (1 .. n) -> Gathering] : FoldsPositions(f, n, NothingGathered, step)
    <3> HIDE DEF step, n
    <3> QED BY <1>2, <1>3, FoldExists
  <2>2. \A s \in SUBSET (1 .. n) : s # {} =>
          f[s] = Gather(f[s \ {Max(s)}], p[Max(s)])
    <3> SUFFICES ASSUME NEW s \in SUBSET (1 .. n), s # {}
                 PROVE  f[s] = Gather(f[s \ {Max(s)}], p[Max(s)])
      OBVIOUS
    <3>1. f[s] = step[f[s \ {Max(s)}]][Max(s)]
      BY <2>1, Zenon DEF FoldsPositions
    <3>2. Max(s) \in 1 .. n /\ f[s \ {Max(s)}] \in Gathering
      <4> HIDE DEF n
      <4> QED BY <1>4, <2>1
    <3> HIDE DEF step, n
    <3> QED BY <1>3, <3>1, <3>2, Zenon
  <2>3. Folds(f)
    <3>1. \A s \in SUBSET (1 .. n) :
            f[s] = IF s = {} THEN NothingGathered ELSE Gather(f[s \ {Max(s)}], p[Max(s)])
      BY <2>1, <2>2, Zenon DEF FoldsPositions
    <3> HIDE DEF n
    <3> QED BY <1>2, <2>1, <3>1
  <2> HIDE DEF Folds
  <2> QED BY <2>3
<1>6. FoldsWithin(F, Gathering, n, NothingGathered, step)
  <2>1. F = [s \in SUBSET (1 .. n) |->
               IF s = {} THEN NothingGathered ELSE Gather(F[s \ {Max(s)}], p[Max(s)])]
    <3> HIDE DEF F, n
    <3> QED BY <1>2, <1>5
  <2> HIDE DEF step, F, n
  <2>2. \A s \in SUBSET (1 .. n) :
          F[s] = IF s = {} THEN NothingGathered ELSE Gather(F[s \ {Max(s)}], p[Max(s)])
    BY <2>1
  <2>3. {} \in SUBSET (1 .. n)
    OBVIOUS
  <2> QED BY <1>3, <1>4, <2>2, <2>3, Zenon DEF FoldsWithin
<1>7. PICK g : Ladder(g, Gathering, n, NothingGathered, F[1 .. n], step)
  <2> HIDE DEF step, F, n
  <2> QED BY <1>2, <1>3, <1>6, FoldStepByStep
<1>8. \A i \in 0 .. n - 1 : g[i + 1] = Gather(g[i], p[i + 1])
  <2> SUFFICES ASSUME NEW i \in 0 .. n - 1 PROVE g[i + 1] = Gather(g[i], p[i + 1])
    OBVIOUS
  <2> HIDE DEF step, F, n
  <2>1. g[i] \in Gathering /\ i + 1 \in 1 .. n /\ g[i + 1] = step[g[i]][i + 1]
    BY <1>2, <1>7 DEF Ladder
  <2> QED BY <1>3, <2>1, Zenon
<1> HIDE DEF step, F
<1> QED BY <1>1, <1>7, <1>8, Zenon DEF Ladder, GatheredBy

\* No two parts start at one offset.
LEMMA StartsDiffer ==
  ASSUME NEW s, NEW a, Follow(s, a)
  PROVE  \A k, l \in DOMAIN s : s[k].start = s[l].start => k = l
<1> DEFINE n == Len(s)
           h == [k \in 1 .. n |-> s[k].start]
<1>1. s \in Seq(Part) /\ n \in Nat /\ DOMAIN s = 1 .. n /\ \A k \in 1 .. n : s[k] \in Part
  BY DEF Follow
<1>2. \A k \in 1 .. n : h[k] = s[k].start /\ h[k] \in Int
  BY <1>1, PartWords
<1> HIDE DEF n, h
<1>3. ASSUME NEW k \in 1 .. n - 1
      PROVE  h[k] < h[k + 1]
  <2>1. k \in 1 .. n /\ k + 1 \in 1 .. n
    BY <1>1
  <2>2. s[k + 1].start = s[k].start + Len(s[k].words)
    BY DEF Follow, n
  <2>3. Len(s[k].words) \in Nat \ {0}
    <3>1. s[k].words \in Seq(Tokens) /\ s[k].words # <<>>
      BY <1>1, <2>1, PartWords
    <3> QED BY <3>1
  <2> QED BY <1>2, <2>1, <2>2, <2>3
<1>4. \A k, l \in 1 .. n : k < l => h[k] < h[l]
  BY <1>1, <1>2, <1>3, Climbs
<1>5. ASSUME NEW k \in 1 .. n, NEW l \in 1 .. n, s[k].start = s[l].start
      PROVE  k = l
  <2>1. h[k] = h[l] /\ h[k] \in Int /\ ~(k < l) /\ ~(l < k)
    BY <1>2, <1>4, <1>5
  <2> QED BY <1>1, <2>1
<1> QED BY <1>1, <1>5

\* The text is cut behind a chunk because the part that follows does not fit, or the
\* target is reached.
CutRightly(c, p) ==
  \A k \in DOMAIN p : p[k].start = c.end =>
    \/ ~(Len(ChunkWords(c)) + Len(p[k].words) <= MaximumTokens)
    \/ Len(ChunkWords(c)) >= TargetTokens

SizedRightly(c) ==
  /\ Len(ChunkWords(c)) \in 1 .. MaximumTokens
  /\ c.end - c.start = Len(ChunkWords(c))

ChunksOK(s, p) ==
  /\ s \in Seq(Chunk)
  /\ \A k \in DOMAIN s : SizedRightly(s[k])
  /\ \A k \in 1 .. Len(s) - 1 : s[k].end = s[k + 1].start /\ CutRightly(s[k], p)

LEMMA ChunksAppend ==
  ASSUME NEW s, NEW p, ChunksOK(s, p), NEW c \in Chunk, SizedRightly(c),
         s # <<>> => CutRightly(s[Len(s)], p) /\ s[Len(s)].end = c.start
  PROVE  ChunksOK(Append(s, c), p)
<1> DEFINE n == Len(s)
           u == Append(s, c)
<1>1. s \in Seq(Chunk)
  BY DEF ChunksOK
<1>2. /\ u \in Seq(Chunk) /\ n \in Nat /\ Len(u) = n + 1 /\ u[n + 1] = c
      /\ DOMAIN u = 1 .. n + 1 /\ DOMAIN s = 1 .. n
      /\ \A k \in 1 .. n : u[k] = s[k]
  BY <1>1, AppendFacts
<1>3. n # 0 => s # <<>>
  BY <1>1
<1> HIDE DEF u
<1>4. ASSUME NEW k \in 1 .. n + 1
      PROVE  SizedRightly(u[k])
  <2>1. CASE k = n + 1
    BY <1>2, <2>1
  <2>2. CASE k # n + 1
    <3>1. k \in 1 .. n
      BY <1>2, <2>2
    <3> QED BY <1>2, <3>1 DEF ChunksOK
  <2> QED BY <2>1, <2>2
<1>5. ASSUME NEW k \in 1 .. n
      PROVE  u[k].end = u[k + 1].start /\ CutRightly(u[k], p)
  <2>1. CASE k = n
    <3>1. s # <<>> /\ u[k] = s[n] /\ u[k + 1] = c
      BY <1>2, <1>3, <2>1
    <3> QED BY <3>1
  <2>2. CASE k # n
    <3>1. k \in 1 .. n - 1 /\ k + 1 \in 1 .. n
      <4> HIDE DEF n
      <4> QED BY <1>2, <2>2
    <3> QED BY <1>2, <3>1 DEF ChunksOK
  <2> QED BY <2>1, <2>2
<1>6. (n + 1) - 1 = n
  BY <1>2
<1>7. ChunksOK(u, p)
  BY <1>2, <1>4, <1>5, <1>6 DEF ChunksOK
<1> QED BY <1>7 DEF u

\* What is gathered of the first i parts, whose words are ws.
GatherOK(acc, p, i, ws) ==
  /\ acc \in Gathering
  /\ i = 0 => acc = NothingGathered
  /\ i > 0 =>
       /\ acc.current # <<>>
       /\ acc.current[Len(acc.current)] = p[i]
       /\ Covers(acc.current, acc.current[1].start, Words(acc.current))
       /\ Len(Words(acc.current)) \in 1 .. MaximumTokens
       /\ acc.done # <<>> =>
            /\ acc.done[Len(acc.done)].end = acc.current[1].start
            /\ CutRightly(acc.done[Len(acc.done)], p)
  /\ ChunksOK(acc.done, p)
  /\ AllWords(acc.done) \o Words(acc.current) = ws

\* What is gathered makes a chunk.
LEMMA MergeOK ==
  ASSUME NEW acc, NEW p, NEW i \in Nat, i > 0, NEW ws, GatherOK(acc, p, i, ws)
  PROVE  /\ Merge(acc.current) \in Chunk /\ SizedRightly(Merge(acc.current))
         /\ ChunkWords(Merge(acc.current)) = Words(acc.current)
         /\ Merge(acc.current).end = Ends(p[i])
         /\ Append(acc.done, Merge(acc.current)) \in Seq(Chunk)
         /\ ChunksOK(Append(acc.done, Merge(acc.current)), p)
         /\ AllWords(Append(acc.done, Merge(acc.current))) = ws
<1> DEFINE s == acc.current
           c == Merge(s)
           w == Words(s)
<1>1. /\ s \in Seq(Part) /\ s # <<>> /\ s[Len(s)] = p[i] /\ acc.done \in Seq(Chunk)
      /\ Covers(s, s[1].start, w) /\ Len(w) \in 1 .. MaximumTokens
  BY DEF GatherOK, Gathering
<1>2. /\ c \in Chunk /\ ChunkWords(c) = w
      /\ c.start = s[1].start /\ c.end = Ends(s[Len(s)])
  <2> HIDE DEF s
  <2> QED BY <1>1, MergeFacts
<1>3. c.start \in Nat /\ c.end = c.start + Len(w) /\ Len(w) \in Nat
  <2>1. c.start \in Nat
    BY <1>2 DEF Chunk
  <2>2. Ends(s[Len(s)]) = s[1].start + Len(w)
    BY <1>1 DEF Covers
  <2>3. Len(w) \in Nat
    BY <1>1, ChunkerAssumption
  <2> QED BY <1>2, <2>1, <2>2, <2>3
<1> HIDE DEF c, w, s
<1>4. SizedRightly(c)
  BY <1>1, <1>2, <1>3 DEF SizedRightly
<1>5. acc.done # <<>> => CutRightly(acc.done[Len(acc.done)], p)
                         /\ acc.done[Len(acc.done)].end = c.start
  BY <1>2 DEF GatherOK, s
<1>6. ChunksOK(Append(acc.done, c), p)
  BY <1>2, <1>4, <1>5, ChunksAppend DEF GatherOK
<1>7. AllWords(Append(acc.done, c)) = ws
  BY <1>1, <1>2, AllWordsAppend DEF GatherOK, w, s
<1>8. Append(acc.done, c) \in Seq(Chunk)
  BY <1>1, <1>2
<1> QED BY <1>1, <1>2, <1>4, <1>6, <1>7, <1>8 DEF c, w, s

\* The next part begins where what is gathered ends.
LEMMA NextPartBegins ==
  ASSUME NEW p, Follow(p, 0), NEW i \in Nat, i + 1 \in DOMAIN p
  PROVE  /\ p[i + 1] \in Part
         /\ i > 0 => i \in DOMAIN p /\ p[i + 1].start = Ends(p[i])
<1>1. p \in Seq(Part) /\ DOMAIN p = 1 .. Len(p) /\ Len(p) \in Nat
  BY DEF Follow
<1>2. i > 0 => i \in 1 .. Len(p) - 1 /\ i \in 1 .. Len(p)
  BY <1>1
<1> QED BY <1>1, <1>2 DEF Follow, Ends

\* The next part is gathered with the others.
LEMMA PartGathered ==
  ASSUME NEW p, Follow(p, 0), Small(p), NEW i \in Nat, i + 1 \in DOMAIN p,
         NEW acc, NEW ws \in Seq(Tokens), GatherOK(acc, p, i, ws),
         ~EndsBefore(acc.current, p[i + 1])
  PROVE  GatherOK(Gather(acc, p[i + 1]), p, i + 1, ws \o p[i + 1].words)
<1> DEFINE q == p[i + 1]
           s == acc.current
           u == Append(s, q)
           w == Words(s)
           new == Gather(acc, q)
<1>1. /\ q \in Part /\ s \in Seq(Part) /\ acc \in Gathering /\ acc.done \in Seq(Chunk)
      /\ q.words \in Seq(Tokens) /\ q.words # <<>> /\ q.start \in Nat
  BY NextPartBegins, PartWords DEF GatherOK, Gathering
<1>2. Len(q.words) \in 1 .. MaximumTokens
  <2>1. Len(q.words) <= MaximumTokens
    BY DEF Small
  <2>2. Len(q.words) \in Nat \ {0}
    BY <1>1
  <2> QED BY <2>1, <2>2, ChunkerAssumption
<1>3. new = [acc EXCEPT !.current = u] /\ new.done = acc.done /\ new.current = u
  <2>1. new = [acc EXCEPT !.current = u]
    BY DEF Gather
  <2> HIDE DEF u, q
  <2> QED BY <1>1, <2>1 DEF Gathering
<1>4. new \in Gathering
  BY <1>1, GatherTypes
<1> HIDE DEF q, new
<1>5. /\ u \in Seq(Part) /\ Len(u) = Len(s) + 1 /\ u # <<>> /\ u[Len(u)] = q
      /\ s # <<>> => u[1] = s[1]
      /\ s = <<>> => u[1] = q
  <2> DEFINE n == Len(s)
  <2>1. /\ u \in Seq(Part) /\ n \in Nat /\ Len(u) = n + 1 /\ u[n + 1] = q
        /\ \A k \in 1 .. n : u[k] = s[k]
    BY <1>1, AppendFacts
  <2>2. n = 0 <=> s = <<>>
    BY <1>1
  <2> HIDE DEF n, u, s
  <2>3. u # <<>> /\ u[Len(u)] = q
    BY <2>1
  <2>4. n # 0 => 1 \in 1 .. n
    BY <2>1
  <2> QED BY <2>1, <2>2, <2>3, <2>4 DEF n
<1>6. w \in Seq(Tokens) /\ Words(u) = w \o q.words
  BY <1>1, PartWords, WordsAppend
<1>7. Len(Words(u)) = Len(w) + Len(q.words) /\ Len(w) \in Nat
  BY <1>1, <1>6
<1>8. /\ Covers(u, u[1].start, Words(u))
      /\ Len(Words(u)) \in 1 .. MaximumTokens
      /\ acc.done # <<>> =>
           /\ acc.done[Len(acc.done)].end = u[1].start
           /\ CutRightly(acc.done[Len(acc.done)], p)
  <2>1. CASE i = 0
    <3>1. s = <<>> /\ acc.done = <<>>
      BY <2>1 DEF GatherOK, NothingGathered
    <3>2. w = <<>> /\ Len(w) = 0
      <4>1. Words(<<>>) = <<>>
        BY <1>1, PartWords, WordsAppend
      <4>2. w = <<>>
        BY <3>1, <4>1, Zenon
      <4> HIDE DEF w
      <4> QED BY <4>2
    <3>3. Covers(<<>>, q.start, <<>>) /\ q.start = q.start + Len(<<>>)
      BY <1>1, CoversNothing
    <3>4. Covers(u, q.start, w \o q.words)
      BY <1>1, <3>1, <3>2, <3>3, CoversAppend
    <3> HIDE DEF u, w
    <3> QED BY <1>2, <1>5, <1>6, <1>7, <3>1, <3>2, <3>4
  <2>2. CASE i # 0
    <3>1. /\ i > 0 /\ s # <<>> /\ s[Len(s)] = p[i] /\ Covers(s, s[1].start, w)
          /\ q.start = Ends(p[i])
      BY <2>2, NextPartBegins DEF GatherOK, q
    <3>2. q.start = s[1].start + Len(w) /\ s[1].start \in Nat
      <4>1. s[1] \in Part
        BY <1>1, <3>1
      <4> QED BY <3>1, <4>1, PartWords DEF Covers
    <3>3. Covers(u, s[1].start, w \o q.words)
      BY <1>1, <3>1, <3>2, CoversAppend
    <3>4. Len(w) + Len(q.words) <= MaximumTokens
      <4>1. ~(Len(w) + Len(q.words) > MaximumTokens)
        BY <3>1, Zenon DEF EndsBefore, q
      <4>2. Len(q.words) \in Nat
        BY <1>1
      <4> HIDE DEF w
      <4> QED BY <1>7, <4>1, <4>2, ChunkerAssumption
    <3>5. Len(Words(u)) \in 1 .. MaximumTokens
      <4> HIDE DEF w, u
      <4> QED BY <1>2, <1>7, <3>4, ChunkerAssumption
    <3>6. acc.done # <<>> =>
            /\ acc.done[Len(acc.done)].end = u[1].start
            /\ CutRightly(acc.done[Len(acc.done)], p)
      BY <1>5, <3>1 DEF GatherOK
    <3> HIDE DEF u, w
    <3> QED BY <1>5, <1>6, <3>1, <3>3, <3>5, <3>6
  <2> QED BY <2>1, <2>2
<1>9. AllWords(acc.done) \o Words(u) = ws \o q.words
  <2> DEFINE a == AllWords(acc.done)
             b == q.words
  <2>1. a \in Seq(Tokens) /\ b \in Seq(Tokens) /\ w \in Seq(Tokens)
    BY <1>1, <1>6, AllWordsAppend
  <2>2. a \o w = ws
    BY DEF GatherOK
  <2> HIDE DEF a, b, w
  <2>3. (a \o w) \o b = a \o (w \o b)
    BY <2>1, ConcatAssociative
  <2> HIDE DEF u
  <2> QED BY <1>6, <2>2, <2>3, Zenon DEF a, b
<1>10. i + 1 # 0 /\ i + 1 > 0
  OBVIOUS
<1> HIDE DEF u, w, s
<1>11. ChunksOK(acc.done, p)
  BY DEF GatherOK
<1>12. GatherOK(new, p, i + 1, ws \o q.words)
  BY <1>3, <1>4, <1>5, <1>8, <1>9, <1>10, <1>11 DEF GatherOK, q
<1> QED BY <1>12 DEF new, q

\* A chunk is made of what is gathered, and the next part begins another one.
LEMMA ChunkDone ==
  ASSUME NEW p, Follow(p, 0), Small(p), NEW i \in Nat, i + 1 \in DOMAIN p,
         NEW acc, NEW ws \in Seq(Tokens), GatherOK(acc, p, i, ws),
         EndsBefore(acc.current, p[i + 1])
  PROVE  GatherOK(Gather(acc, p[i + 1]), p, i + 1, ws \o p[i + 1].words)
<1> DEFINE q == p[i + 1]
           s == acc.current
           c == Merge(s)
           new == Gather(acc, q)
           done == Append(acc.done, c)
<1>1. /\ q \in Part /\ s \in Seq(Part) /\ acc \in Gathering /\ acc.done \in Seq(Chunk)
      /\ q.words \in Seq(Tokens) /\ q.words # <<>> /\ q.start \in Nat
  BY NextPartBegins, PartWords DEF GatherOK, Gathering
<1>2. i > 0 /\ s # <<>>
  <2>1. s # <<>>
    BY DEF EndsBefore
  <2>2. i # 0
    BY <2>1 DEF GatherOK, NothingGathered
  <2> QED BY <2>1, <2>2
<1>3. /\ c \in Chunk /\ SizedRightly(c) /\ ChunkWords(c) = Words(s)
      /\ c.end = Ends(p[i]) /\ done \in Seq(Chunk) /\ ChunksOK(done, p)
      /\ AllWords(done) = ws
  BY <1>2, MergeOK
<1>4. new = [done |-> done, current |-> <<q>>] /\ new.done = done /\ new.current = <<q>>
  BY DEF Gather
<1>5. new \in Gathering
  BY <1>1, GatherTypes
<1>6. c.end = q.start
  BY <1>2, <1>3, NextPartBegins
<1>7. Len(q.words) \in 1 .. MaximumTokens
  <2>1. Len(q.words) <= MaximumTokens
    BY DEF Small
  <2>2. Len(q.words) \in Nat \ {0}
    BY <1>1
  <2> QED BY <2>1, <2>2, ChunkerAssumption
<1>8. CutRightly(c, p)
  <2> SUFFICES ASSUME NEW k \in DOMAIN p, p[k].start = c.end
               PROVE  \/ ~(Len(ChunkWords(c)) + Len(p[k].words) <= MaximumTokens)
                      \/ Len(ChunkWords(c)) >= TargetTokens
    BY DEF CutRightly
  <2>1. k = i + 1
    BY <1>6, StartsDiffer
  <2>2. Words(s) \in Seq(Tokens)
    BY <1>1, PartWords, WordsAppend
  <2>3. Len(Words(s)) \in Nat /\ Len(q.words) \in Nat
    BY <1>1, <2>2
  <2>4. \/ Len(Words(s)) + Len(q.words) > MaximumTokens
        \/ Len(Words(s)) >= TargetTokens
    BY DEF EndsBefore
  <2> HIDE DEF c, s
  <2> QED BY <1>3, <2>1, <2>3, <2>4, ChunkerAssumption
<1> HIDE DEF q, c, new
<1>9. /\ <<q>> # <<>> /\ <<q>>[Len(<<q>>)] = q /\ <<q>>[1] = q /\ Append(<<>>, q) = <<q>>
      /\ <<>> \o q.words = q.words
  BY <1>1, ConcatEmptySeq
<1>10. Words(<<q>>) = q.words /\ Covers(<<q>>, q.start, q.words)
  <2>1. Covers(<<>>, q.start, <<>>) /\ q.start = q.start + Len(<<>>)
    BY <1>1, CoversNothing
  <2>2. Covers(Append(<<>>, q), q.start, <<>> \o q.words)
    BY <1>1, <2>1, CoversAppend
  <2>3. Covers(<<q>>, q.start, q.words)
    BY <1>9, <2>2
  <2> QED BY <2>3 DEF Covers
<1>11. done # <<>> /\ done[Len(done)] = c
  BY <1>1, <1>3
<1> HIDE DEF done
<1>12. AllWords(done) \o Words(<<q>>) = ws \o q.words
  BY <1>3, <1>10
<1>13. i + 1 # 0 /\ i + 1 > 0
  OBVIOUS
<1>14. GatherOK(new, p, i + 1, ws \o q.words)
  BY <1>3, <1>4, <1>5, <1>6, <1>7, <1>8, <1>9, <1>10, <1>11, <1>12, <1>13 DEF GatherOK, q
<1> QED BY <1>14 DEF new, q

\* The chunks are the text, one after the other, each within its bounds and cut where
\* it had to be.
LEMMA ChunksCover ==
  ASSUME NEW t \in Seq(Blocks)
  PROVE  /\ ChunksOK(ChunkBlocks(t), Parts(t))
         /\ AllWords(ChunkBlocks(t)) = Words(t)
         /\ t # <<>> => ChunkBlocks(t) # <<>>
<1> DEFINE p == Parts(t)
           n == Len(p)
<1>1. Covers(p, 0, Words(t)) /\ Small(p) /\ t # <<>> => p # <<>>
  BY PartsCover
<1>2. Covers(p, 0, Words(t)) /\ Small(p)
  BY PartsCover
<1>3. t # <<>> => p # <<>>
  BY PartsCover
<1> HIDE DEF p
<1>4. /\ Follow(p, 0) /\ p \in Seq(Part) /\ Words(p) = Words(t)
      /\ n \in Nat /\ DOMAIN p = 1 .. n /\ p # <<>> => n # 0
  BY <1>2 DEF Covers, Follow
<1>5. Follow(p, 0) /\ p \in Seq(Part) /\ Words(p) = Words(t)
  BY <1>2 DEF Covers, Follow
<1>6. n \in Nat /\ DOMAIN p = 1 .. n
  BY <1>5
<1>7. p # <<>> => n # 0
  BY <1>5
<1>8. PICK g : GatheredBy(g, p)
  BY <1>5, GatherStepByStep
<1>9. PICK v : WordsBy(v, p)
  BY <1>5, WordsStepByStep
<1> DEFINE OK(i) == GatherOK(g[i], p, i, v[i])
           T == {i \in Nat : i <= n => OK(i)}
<1>10. 0 \in T
  <2>1. g[0] = NothingGathered /\ v[0] = <<>>
    BY <1>8, <1>9 DEF GatheredBy, WordsBy
  <2>2. /\ NothingGathered \in Gathering
        /\ NothingGathered.done = <<>> /\ NothingGathered.current = <<>>
    BY DEF NothingGathered, Gathering
  <2>3. ChunksOK(<<>>, p)
    BY DEF ChunksOK
  <2>4. AllWords(<<>>) = <<>> /\ Words(<<>>) = <<>> /\ <<>> \o <<>> = <<>>
    <3>1. <<>> \in Seq(Chunk) /\ <<>> \in Seq(Part)
      OBVIOUS
    <3>2. AllWords(<<>>) = <<>>
      BY <3>1, AllWordsAppend
    <3>3. Words(<<>>) = <<>>
      BY <3>1, PartWords, WordsAppend
    <3> QED BY <3>2, <3>3
  <2>5. GatherOK(NothingGathered, p, 0, <<>>)
    BY <2>2, <2>3, <2>4 DEF GatherOK
  <2> QED BY <2>1, <2>5
<1>11. ASSUME NEW i \in Nat, i \in T PROVE i + 1 \in T
  <2> SUFFICES ASSUME i + 1 <= n PROVE OK(i + 1)
    OBVIOUS
  <2>1. i <= n /\ i \in 0 .. n - 1 /\ i \in 0 .. n /\ i + 1 \in 1 .. n
    <3> HIDE DEF n
    <3> QED BY <1>6
  <2>2. OK(i)
    BY <1>11, <2>1
  <2>3. /\ g[i + 1] = Gather(g[i], p[i + 1])
        /\ v[i + 1] = v[i] \o p[i + 1].words
        /\ v[i] \in Seq(Tokens)
    BY <1>8, <1>9, <2>1 DEF GatheredBy, WordsBy
  <2>4. i + 1 \in DOMAIN p
    BY <1>6, <2>1
  <2>5. CASE EndsBefore(g[i].current, p[i + 1])
    BY <1>2, <1>5, <2>2, <2>3, <2>4, <2>5, ChunkDone
  <2>6. CASE ~EndsBefore(g[i].current, p[i + 1])
    BY <1>2, <1>5, <2>2, <2>3, <2>4, <2>6, PartGathered
  <2> QED BY <2>5, <2>6
<1>12. OK(n)
  <2>1. \A i \in Nat : i \in T
    <3> HIDE DEF T
    <3> QED BY <1>10, <1>11, AllNaturals
  <2>2. n \in T /\ n <= n
    BY <1>6, <2>1
  <2> QED BY <2>2
<1> DEFINE acc == g[n]
<1>13. acc = FoldLeft(Gather, NothingGathered, p) /\ v[n] = Words(t)
  BY <1>5, <1>8, <1>9 DEF GatheredBy, WordsBy
<1>14. ChunkBlocks(t) = IF acc.current = <<>> THEN acc.done
                        ELSE Append(acc.done, Merge(acc.current))
  BY <1>13, Zenon DEF ChunkBlocks, p
<1>15. GatherOK(acc, p, n, Words(t))
  BY <1>12, <1>13
<1> HIDE DEF acc, n
<1>16. CASE n = 0
  <2>1. acc.done = <<>> /\ acc.current = <<>>
    BY <1>15, <1>16 DEF GatherOK, NothingGathered
  <2>2. AllWords(<<>>) = <<>> /\ Words(<<>>) = <<>> /\ <<>> \o <<>> = <<>>
    <3>1. <<>> \in Seq(Chunk) /\ <<>> \in Seq(Part)
      OBVIOUS
    <3>2. AllWords(<<>>) = <<>>
      BY <3>1, AllWordsAppend
    <3>3. Words(<<>>) = <<>>
      BY <3>1, PartWords, WordsAppend
    <3> QED BY <3>2, <3>3
  <2>3. ChunksOK(<<>>, p)
    BY DEF ChunksOK
  <2>4. Words(t) = <<>>
    BY <1>15, <2>1, <2>2 DEF GatherOK
  <2> QED BY <1>3, <1>7, <1>14, <1>16, <2>1, <2>2, <2>3, <2>4 DEF p
<1>17. CASE n # 0
  <2>1. n > 0 /\ acc.current # <<>> /\ acc.done \in Seq(Chunk)
    BY <1>6, <1>15, <1>17 DEF GatherOK, Gathering
  <2> DEFINE c == Merge(acc.current)
             u == Append(acc.done, c)
  <2>2. c \in Chunk /\ ChunksOK(u, p) /\ AllWords(u) = Words(t)
    BY <1>6, <1>15, <2>1, MergeOK
  <2>3. ChunkBlocks(t) = u
    BY <1>14, <2>1
  <2>4. u # <<>>
    BY <2>1, <2>2
  <2> HIDE DEF u
  <2> QED BY <2>2, <2>3, <2>4 DEF p
<1> QED BY <1>16, <1>17

\* A text with a block has a word.
LEMMA TextHasWords ==
  ASSUME NEW t \in Seq(Blocks)
  PROVE  Words(t) = <<>> <=> t = <<>>
<1>1. Words(<<>>) = <<>>
  <2>1. <<>> \in Seq(Part)
    OBVIOUS
  <2> QED BY <2>1, PartWords, WordsAppend
<1>2. ASSUME t # <<>>
      PROVE  Words(t) # <<>>
  <2> DEFINE p == Parts(t)
             last == p[Len(p)]
  <2>1. Covers(p, 0, Words(t)) /\ p # <<>>
    BY <1>2, PartsCover
  <2> HIDE DEF p
  <2>2. last \in Part
    <3>1. p \in Seq(Part)
      BY <2>1 DEF Covers, Follow
    <3> QED BY <2>1, <3>1
  <2>3. Ends(last) = 0 + Len(Words(t))
    BY <2>1 DEF Covers
  <2> HIDE DEF last
  <2>4. last.start \in Nat /\ Len(last.words) \in Nat \ {0}
    BY <2>2 DEF Part
  <2>5. 0 + Len(Words(t)) # 0
    BY <2>3, <2>4 DEF Ends
  <2>6. Len(<<>>) = 0
    OBVIOUS
  <2> QED BY <2>5, <2>6
<1> QED BY <1>1, <1>2

LEMMA TextInv == Spec => [](text \in Seq(Blocks))
<1>1. Init => text \in Seq(Blocks)
  BY DEF Init
<1>2. text \in Seq(Blocks) /\ [Next]_vars => (text \in Seq(Blocks))'
  BY DEF Next, vars, Write
<1> QED BY <1>1, <1>2, PTL DEF Spec

\* The chunks of a text are the text: every word once and in order, at the offsets they
\* claim, within the maximum and cut only where they have to be
\* (indexing/pipeline.py:183-238).
THEOREM TextIsCovered == Spec => []ChunksCoverTheText
<1>1. ASSUME text \in Seq(Blocks)
      PROVE  ChunksCoverTheText
  <2> DEFINE chunks == ChunkBlocks(text)
             p == Parts(text)
  <2>1. ChunksOK(chunks, p) /\ AllWords(chunks) = Words(text)
    BY <1>1, ChunksCover
  <2>2. FlattenSeq([i \in DOMAIN chunks |-> ChunkWords(chunks[i])]) = Words(text)
    BY <2>1 DEF AllWords
  <2> HIDE DEF chunks, p
  <2>3. ASSUME NEW i \in DOMAIN chunks
        PROVE  /\ Len(ChunkWords(chunks[i])) \in 1 .. MaximumTokens
               /\ chunks[i].end - chunks[i].start = Len(ChunkWords(chunks[i]))
               /\ i < Len(chunks) =>
                    /\ chunks[i].end = chunks[i + 1].start
                    /\ \A part \in ToSet(p) :
                         part.start = chunks[i].end =>
                           \/ ~(Len(ChunkWords(chunks[i])) + Len(part.words) <= MaximumTokens)
                           \/ Len(ChunkWords(chunks[i])) >= TargetTokens
    <3>1. SizedRightly(chunks[i])
      BY <2>1 DEF ChunksOK
    <3>2. ASSUME i < Len(chunks)
          PROVE  chunks[i].end = chunks[i + 1].start /\ CutRightly(chunks[i], p)
      <4>1. i \in 1 .. Len(chunks) - 1
        <5>1. chunks \in Seq(Chunk)
          BY <2>1 DEF ChunksOK
        <5> QED BY <3>2, <5>1
      <4> QED BY <2>1, <4>1 DEF ChunksOK
    <3> QED BY <3>1, <3>2, Zenon DEF SizedRightly, CutRightly, ToSet
  <2> QED BY <2>2, <2>3, Zenon DEF ChunksCoverTheText, chunks, p
<1> QED BY <1>1, TextInv, PTL

-----------------------------------------------------------------------------
(* Which chunks are kept. *)

LEMMA KeepTypes ==
  ASSUME NEW kept \in Seq(Chunk), NEW c \in Chunk
  PROVE  Keep(kept, c) \in Seq(Chunk)
BY DEF Keep

\* What is kept of a sequence of chunks, one step after the other.
KeptBy(g, chunks) ==
  /\ g \in [0 .. Len(chunks) -> Seq(Chunk)]
  /\ g[0] = <<>>
  /\ g[Len(chunks)] = Kept(chunks)
  /\ \A i \in 0 .. Len(chunks) - 1 : g[i + 1] = Keep(g[i], chunks[i + 1])

LEMMA KeepStepByStep ==
  ASSUME NEW chunks \in Seq(Chunk)
  PROVE  \E g : KeptBy(g, chunks)
<1> DEFINE n == Len(chunks)
           step == [a \in Seq(Chunk) |-> [i \in 1 .. n |-> Keep(a, chunks[i])]]
           Folds(f) == f = [s \in SUBSET DOMAIN chunks |->
                              IF s = {} THEN <<>>
                              ELSE Keep(f[s \ {Max(s)}], chunks[Max(s)])]
           F == CHOOSE f : Folds(f)
<1>1. Kept(chunks) = F[1 .. n]
  <2>1. DOMAIN chunks = 1 .. n
    OBVIOUS
  <2> QED BY <2>1, Zenon DEF Kept, FoldLeft, MapThenFoldSet
<1>2. <<>> \in Seq(Chunk) /\ n \in Nat /\ DOMAIN chunks = 1 .. n
  OBVIOUS
<1>3. \A a \in Seq(Chunk) : \A i \in 1 .. n :
        step[a][i] = Keep(a, chunks[i]) /\ step[a][i] \in Seq(Chunk)
  BY KeepTypes
<1>4. \A s \in SUBSET (1 .. n) : s # {} =>
        Max(s) \in 1 .. n /\ s \ {Max(s)} \in SUBSET (1 .. n)
  <2> HIDE DEF n
  <2> QED BY <1>2, GreatestPosition
<1>5. Folds(F)
  <2>1. PICK f \in [SUBSET (1 .. n) -> Seq(Chunk)] : FoldsPositions(f, n, <<>>, step)
    <3> HIDE DEF step, n
    <3> QED BY <1>2, <1>3, FoldExists
  <2>2. \A s \in SUBSET (1 .. n) : s # {} =>
          f[s] = Keep(f[s \ {Max(s)}], chunks[Max(s)])
    <3> SUFFICES ASSUME NEW s \in SUBSET (1 .. n), s # {}
                 PROVE  f[s] = Keep(f[s \ {Max(s)}], chunks[Max(s)])
      OBVIOUS
    <3>1. f[s] = step[f[s \ {Max(s)}]][Max(s)]
      BY <2>1, Zenon DEF FoldsPositions
    <3>2. Max(s) \in 1 .. n /\ f[s \ {Max(s)}] \in Seq(Chunk)
      <4> HIDE DEF n
      <4> QED BY <1>4, <2>1
    <3> HIDE DEF step, n
    <3> QED BY <1>3, <3>1, <3>2, Zenon
  <2>3. Folds(f)
    <3>1. \A s \in SUBSET (1 .. n) :
            f[s] = IF s = {} THEN <<>> ELSE Keep(f[s \ {Max(s)}], chunks[Max(s)])
      BY <2>1, <2>2, Zenon DEF FoldsPositions
    <3> HIDE DEF n
    <3> QED BY <1>2, <2>1, <3>1
  <2> HIDE DEF Folds
  <2> QED BY <2>3
<1>6. FoldsWithin(F, Seq(Chunk), n, <<>>, step)
  <2>1. F = [s \in SUBSET (1 .. n) |->
               IF s = {} THEN <<>> ELSE Keep(F[s \ {Max(s)}], chunks[Max(s)])]
    <3> HIDE DEF F, n
    <3> QED BY <1>2, <1>5
  <2> HIDE DEF step, F, n
  <2>2. \A s \in SUBSET (1 .. n) :
          F[s] = IF s = {} THEN <<>> ELSE Keep(F[s \ {Max(s)}], chunks[Max(s)])
    BY <2>1
  <2>3. {} \in SUBSET (1 .. n)
    OBVIOUS
  <2> QED BY <1>3, <1>4, <2>2, <2>3, Zenon DEF FoldsWithin
<1>7. PICK g : Ladder(g, Seq(Chunk), n, <<>>, F[1 .. n], step)
  <2> HIDE DEF step, F, n
  <2> QED BY <1>2, <1>3, <1>6, FoldStepByStep
<1>8. \A i \in 0 .. n - 1 : g[i + 1] = Keep(g[i], chunks[i + 1])
  <2> SUFFICES ASSUME NEW i \in 0 .. n - 1 PROVE g[i + 1] = Keep(g[i], chunks[i + 1])
    OBVIOUS
  <2> HIDE DEF step, F, n
  <2>1. g[i] \in Seq(Chunk) /\ i + 1 \in 1 .. n /\ g[i + 1] = step[g[i]][i + 1]
    BY <1>2, <1>7 DEF Ladder
  <2> QED BY <1>3, <2>1, Zenon
<1> HIDE DEF step, F
<1> QED BY <1>1, <1>7, <1>8, Zenon DEF Ladder, KeptBy

\* Of the first i chunks each is kept or has an earlier twin that is; no two that are
\* kept are twins.
KeptOK(kept, chunks, i) ==
  /\ kept \in Seq(Chunk)
  /\ \A k \in DOMAIN kept : \E j \in 1 .. i : kept[k] = chunks[j]
  /\ \A j \in 1 .. i :
       \/ \E k \in DOMAIN kept : kept[k] = chunks[j]
       \/ \E k \in DOMAIN kept : kept[k].start < chunks[j].start /\ Duplicates(kept[k], chunks[j])
  /\ \A k, l \in DOMAIN kept : k < l => ~Duplicates(kept[k], kept[l])
  /\ i # 0 => kept # <<>>

\* The chunks are in the order of their offsets.
Ordered(chunks) ==
  /\ chunks \in Seq(Chunk)
  /\ \A j, k \in DOMAIN chunks : j < k => chunks[j].start < chunks[k].start

LEMMA KeepOneMore ==
  ASSUME NEW chunks, Ordered(chunks), NEW i \in Nat, i + 1 \in DOMAIN chunks,
         NEW kept, KeptOK(kept, chunks, i)
  PROVE  KeptOK(Keep(kept, chunks[i + 1]), chunks, i + 1)
<1> DEFINE c == chunks[i + 1]
           n == Len(kept)
<1>1. /\ kept \in Seq(Chunk) /\ c \in Chunk /\ n \in Nat /\ DOMAIN kept = 1 .. n
      /\ chunks \in Seq(Chunk)
  BY DEF KeptOK, Ordered
<1>2. \A j \in 1 .. i + 1 : j \in 1 .. i \/ j = i + 1
  OBVIOUS
<1>3. \A j \in 1 .. i : j \in 1 .. i + 1
  OBVIOUS
<1>4. i + 1 \in 1 .. i + 1 /\ i + 1 # 0
  OBVIOUS
<1>5. CASE \E k \in DOMAIN kept : Duplicates(kept[k], c)
  <2>1. Keep(kept, c) = kept
    BY <1>5, Zenon DEF Keep
  <2>2. PICK k \in DOMAIN kept : Duplicates(kept[k], c)
    BY <1>5
  <2>3. kept[k].start < c.start
    <3>1. PICK j \in 1 .. i : kept[k] = chunks[j]
      BY DEF KeptOK
    <3>2. j \in DOMAIN chunks /\ j < i + 1
      <4>1. DOMAIN chunks = 1 .. Len(chunks) /\ Len(chunks) \in Nat
        BY <1>1
      <4> QED BY <4>1
    <3> QED BY <3>1, <3>2 DEF Ordered
  <2>4. kept # <<>>
    BY <1>1, <2>2
  <2> HIDE DEF n
  <2>5. KeptOK(kept, chunks, i + 1)
    <3>1. \A l \in DOMAIN kept : \E j \in 1 .. i + 1 : kept[l] = chunks[j]
      BY <1>3, Zenon DEF KeptOK
    <3>2. ASSUME NEW j \in 1 .. i + 1
          PROVE  \/ \E l \in DOMAIN kept : kept[l] = chunks[j]
                 \/ \E l \in DOMAIN kept :
                      kept[l].start < chunks[j].start /\ Duplicates(kept[l], chunks[j])
      <4>1. CASE j \in 1 .. i
        BY <4>1, Zenon DEF KeptOK
      <4>2. CASE j = i + 1
        BY <2>2, <2>3, <4>2, Zenon
      <4> QED BY <1>2, <4>1, <4>2
    <3> QED BY <1>1, <2>4, <3>1, <3>2, Zenon DEF KeptOK
  <2> QED BY <2>1, <2>5
<1>6. CASE ~\E k \in DOMAIN kept : Duplicates(kept[k], c)
  <2> DEFINE new == Append(kept, c)
  <2>1. Keep(kept, c) = new
    BY <1>6, Zenon DEF Keep
  <2>2. /\ new \in Seq(Chunk) /\ DOMAIN new = 1 .. n + 1
        /\ new[n + 1] = c /\ \A k \in 1 .. n : new[k] = kept[k]
    BY <1>1, AppendFacts
  <2>3. new # <<>>
    BY <1>1
  <2> HIDE DEF new, n, c
  <2>4. /\ \A k \in 1 .. n + 1 : k \in 1 .. n \/ k = n + 1
        /\ \A k \in 1 .. n : k \in 1 .. n + 1
        /\ n + 1 \in 1 .. n + 1
        /\ \A k, l \in 1 .. n + 1 : k < l => k \in 1 .. n
    BY <1>1
  <2>5. ASSUME NEW k \in DOMAIN new
        PROVE  \E j \in 1 .. i + 1 : new[k] = chunks[j]
    <3>1. CASE k \in 1 .. n
      BY <1>1, <1>3, <2>2, <3>1, Zenon DEF KeptOK
    <3>2. CASE k = n + 1
      BY <1>4, <2>2, <3>2, Zenon DEF c
    <3> QED BY <2>2, <2>4, <3>1, <3>2
  <2>6. ASSUME NEW j \in 1 .. i + 1
        PROVE  \/ \E k \in DOMAIN new : new[k] = chunks[j]
               \/ \E k \in DOMAIN new :
                    new[k].start < chunks[j].start /\ Duplicates(new[k], chunks[j])
    <3>1. CASE j \in 1 .. i
      <4>1. \A k \in DOMAIN kept : k \in DOMAIN new /\ new[k] = kept[k]
        BY <1>1, <2>2, <2>4
      <4> QED BY <3>1, <4>1, Zenon DEF KeptOK
    <3>2. CASE j = i + 1
      BY <2>2, <2>4, <3>2, Zenon DEF c
    <3> QED BY <1>2, <3>1, <3>2
  <2>7. ASSUME NEW k \in DOMAIN new, NEW l \in DOMAIN new, k < l
        PROVE  ~Duplicates(new[k], new[l])
    <3>1. k \in 1 .. n /\ new[k] = kept[k]
      BY <2>2, <2>4, <2>7
    <3>2. CASE l \in 1 .. n
      <4>1. new[l] = kept[l] /\ k \in DOMAIN kept /\ l \in DOMAIN kept
        BY <1>1, <2>2, <3>1, <3>2
      <4> QED BY <2>7, <3>1, <4>1, Zenon DEF KeptOK
    <3>3. CASE l = n + 1
      BY <1>1, <1>6, <2>2, <3>1, <3>3, Zenon DEF c
    <3> QED BY <2>2, <2>4, <3>2, <3>3
  <2>8. KeptOK(new, chunks, i + 1)
    BY <2>2, <2>3, <2>5, <2>6, <2>7, Zenon DEF KeptOK
  <2> QED BY <2>1, <2>8 DEF c
<1> QED BY <1>5, <1>6

LEMMA AllKept ==
  ASSUME NEW chunks, Ordered(chunks)
  PROVE  KeptOK(Kept(chunks), chunks, Len(chunks))
<1> DEFINE n == Len(chunks)
<1>1. chunks \in Seq(Chunk) /\ n \in Nat /\ DOMAIN chunks = 1 .. n
  BY DEF Ordered
<1>2. PICK g : KeptBy(g, chunks)
  BY <1>1, KeepStepByStep
<1> DEFINE T == {i \in Nat : i <= n => KeptOK(g[i], chunks, i)}
<1>3. 0 \in T
  <2>1. g[0] = <<>> /\ <<>> \in Seq(Chunk) /\ DOMAIN <<>> = {}
    BY <1>2 DEF KeptBy
  <2>2. 1 .. 0 = {}
    OBVIOUS
  <2>3. KeptOK(<<>>, chunks, 0)
    BY <2>1, <2>2 DEF KeptOK
  <2> QED BY <2>1, <2>3
<1>4. ASSUME NEW i \in Nat, i \in T PROVE i + 1 \in T
  <2> SUFFICES ASSUME i + 1 <= n PROVE KeptOK(g[i + 1], chunks, i + 1)
    OBVIOUS
  <2>1. i <= n /\ i \in 0 .. n - 1 /\ i + 1 \in 1 .. n
    <3> HIDE DEF n
    <3> QED BY <1>1
  <2>2. g[i + 1] = Keep(g[i], chunks[i + 1])
    BY <1>2, <2>1 DEF KeptBy
  <2>3. KeptOK(g[i], chunks, i) /\ i + 1 \in DOMAIN chunks
    BY <1>1, <1>4, <2>1
  <2> QED BY <2>2, <2>3, KeepOneMore
<1>5. \A i \in Nat : i \in T
  <2> HIDE DEF T
  <2> QED BY <1>3, <1>4, AllNaturals
<1>6. KeptOK(g[n], chunks, n)
  <2>1. n \in T /\ n <= n
    BY <1>1, <1>5
  <2> QED BY <2>1
<1>7. g[n] = Kept(chunks)
  BY <1>2 DEF KeptBy
<1> QED BY <1>6, <1>7

\* The chunks of a text are in the order of their offsets: none is empty.
LEMMA ChunksOrdered ==
  ASSUME NEW chunks, NEW p, ChunksOK(chunks, p)
  PROVE  Ordered(chunks)
<1> DEFINE n == Len(chunks)
           h == [k \in 1 .. n |-> chunks[k].start]
<1>1. /\ chunks \in Seq(Chunk) /\ n \in Nat /\ DOMAIN chunks = 1 .. n
      /\ \A k \in 1 .. n : chunks[k] \in Chunk
  BY DEF ChunksOK
<1>2. \A k \in 1 .. n : h[k] = chunks[k].start /\ chunks[k].start \in Int
                        /\ chunks[k].end \in Int
  BY <1>1 DEF Chunk
<1>3. ASSUME NEW k \in 1 .. n - 1 PROVE h[k] < h[k + 1]
  <2>1. k \in 1 .. n /\ k + 1 \in 1 .. n
    <3> HIDE DEF n
    <3> QED BY <1>1
  <2>2. chunks[k].end = chunks[k + 1].start /\ SizedRightly(chunks[k])
    BY <1>1, <2>1 DEF ChunksOK
  <2>3. /\ Len(ChunkWords(chunks[k])) \in 1 .. MaximumTokens
        /\ chunks[k].end - chunks[k].start = Len(ChunkWords(chunks[k]))
    BY <2>2 DEF SizedRightly
  <2> DEFINE a == chunks[k].start
             b == chunks[k].end
             m == Len(ChunkWords(chunks[k]))
  <2>4. a \in Int /\ b \in Int /\ m \in 1 .. MaximumTokens /\ b - a = m
    BY <1>2, <2>1, <2>3
  <2>5. a < b
    <3> HIDE DEF a, b, m
    <3> QED BY <2>4, ChunkerAssumption
  <2>6. h[k] = a /\ h[k + 1] = b
    BY <1>2, <2>1, <2>2
  <2> HIDE DEF h
  <2> QED BY <2>5, <2>6
<1>4. \A k, l \in 1 .. n : k < l => h[k] < h[l]
  <2>1. \A k \in 1 .. n : h[k] \in Int
    BY <1>2
  <2> HIDE DEF h, n
  <2> QED BY <1>1, <1>3, <2>1, Climbs
<1> QED BY <1>1, <1>2, <1>4 DEF Ordered

\* Chunks without a word are none.
LEMMA EmptyText ==
  ASSUME NEW chunks, NEW p, ChunksOK(chunks, p), AllWords(chunks) = <<>>
  PROVE  chunks = <<>>
<1> DEFINE n == Len(chunks)
           first == SubSeq(chunks, 1, n - 1)
           last == chunks[n]
<1> SUFFICES ASSUME chunks # <<>> PROVE FALSE
  OBVIOUS
<1>1. /\ chunks \in Seq(Chunk) /\ n \in Nat \ {0} /\ DOMAIN chunks = 1 .. n
  BY DEF ChunksOK
<1>2. first \in Seq(Chunk) /\ last \in Chunk /\ chunks = Append(first, last)
  BY <1>1
<1>3. Len(ChunkWords(last)) \in 1 .. MaximumTokens
  BY <1>1 DEF ChunksOK, SizedRightly
<1>4. ChunkWords(last) \in Seq(Tokens) /\ AllWords(first) \in Seq(Tokens)
  BY <1>2, ChunkWordsType, AllWordsAppend
<1> HIDE DEF first, last, n
<1>5. AllWords(chunks) = AllWords(first) \o ChunkWords(last)
  BY <1>2, AllWordsAppend
<1> DEFINE a == AllWords(first)
           b == ChunkWords(last)
<1>6. a \o b = <<>> /\ a \in Seq(Tokens) /\ b \in Seq(Tokens) /\ Len(b) # 0
  BY <1>3, <1>4, <1>5, ChunkerAssumption
<1> HIDE DEF a, b
<1>7. Len(a \o b) = Len(a) + Len(b) /\ Len(a) \in Nat /\ Len(b) \in Nat
  BY <1>6
<1> QED BY <1>6, <1>7

\* A chunk that is not indexed has an earlier twin that is, no two indexed chunks are
\* twins, and a text fails as a whole only when it has no word or too many chunks
\* (indexing/pipeline.py:249-291).
THEOREM NothingIsDropped == Spec => []NothingIsLost
<1>1. ASSUME text \in Seq(Blocks)
      PROVE  NothingIsLost
  <2> DEFINE chunks == ChunkBlocks(text)
             kept == Kept(chunks)
             outcome == Prepare(text)
  <2>1. ChunksOK(chunks, Parts(text)) /\ AllWords(chunks) = Words(text)
    BY <1>1, ChunksCover
  <2>2. text # <<>> => chunks # <<>>
    BY <1>1, ChunksCover
  <2>3. Words(text) = <<>> <=> text = <<>>
    BY <1>1, TextHasWords
  <2> HIDE DEF chunks
  <2>4. Ordered(chunks) /\ KeptOK(kept, chunks, Len(chunks))
    BY <2>1, ChunksOrdered, AllKept
  <2>5. /\ chunks \in Seq(Chunk) /\ DOMAIN chunks = 1 .. Len(chunks) /\ Len(chunks) \in Nat
        /\ chunks # <<>> => Len(chunks) # 0
    BY <2>4 DEF Ordered
  <2>6. outcome = IF Words(text) = <<>>
                    THEN [error |-> "NO_INDEXABLE_TEXT", chunks |-> <<>>]
                  ELSE IF Len(kept) > MaxChunks
                    THEN [error |-> "CHUNK_LIMIT_EXCEEDED", chunks |-> <<>>]
                  ELSE [error |-> "", chunks |-> kept]
    BY DEF Prepare, chunks
  <2>7. kept \in Seq(Chunk) /\ Len(kept) \in Nat
    BY <2>4 DEF KeptOK
  <2>8. kept # <<>> <=> text # <<>>
    <3>1. text # <<>> => kept # <<>>
      BY <2>2, <2>4, <2>5 DEF KeptOK
    <3>2. ASSUME text = <<>> PROVE kept = <<>>
      <4>1. chunks = <<>>
        <5>1. SUFFICES ASSUME chunks # <<>> PROVE FALSE
          OBVIOUS
        <5>2. AllWords(chunks) = <<>>
          BY <2>1, <2>3, <3>2
        <5> QED BY <2>1, <5>1, <5>2, EmptyText
      <4>2. Len(chunks) = 0 /\ 1 .. 0 = {}
        BY <4>1
      <4>3. DOMAIN kept = {}
        BY <2>4, <4>2 DEF KeptOK
      <4> HIDE DEF kept
      <4> QED BY <2>7, <4>3
    <3> QED BY <3>1, <3>2
  <2> HIDE DEF kept, outcome
  <2>9. ASSUME NEW c \in ToSet(chunks) \ ToSet(kept)
        PROVE  \E k \in ToSet(kept) : k.start < c.start /\ Duplicates(k, c)
    <3>1. PICK j \in 1 .. Len(chunks) : c = chunks[j]
      BY <2>5, Zenon DEF ToSet
    <3>2. \A k \in DOMAIN kept : kept[k] # chunks[j] /\ kept[k] \in ToSet(kept)
      BY <3>1, Zenon DEF ToSet
    <3> QED BY <2>4, <3>1, <3>2, Zenon DEF KeptOK
  <2>10. \A i, j \in DOMAIN kept : i < j => ~Duplicates(kept[i], kept[j])
    BY <2>4, Zenon DEF KeptOK
  <2>11. /\ outcome.error = "" <=> kept # <<>> /\ Len(kept) <= MaxChunks
         /\ outcome.error = "" => outcome.chunks = kept
    <3>1. CASE Words(text) = <<>>
      BY <2>3, <2>6, <2>8, <3>1
    <3>2. CASE Words(text) # <<>>
      <4>1. kept # <<>>
        BY <2>3, <2>8, <3>2
      <4>2. CASE Len(kept) > MaxChunks
        <5>1. ~(Len(kept) <= MaxChunks)
          BY <2>7, <4>2, ChunkerAssumption
        <5> QED BY <2>6, <3>2, <4>2, <5>1
      <4>3. CASE ~(Len(kept) > MaxChunks)
        <5>1. Len(kept) <= MaxChunks
          BY <2>7, <4>3, ChunkerAssumption
        <5> QED BY <2>6, <3>2, <4>1, <4>3, <5>1
      <4> QED BY <4>2, <4>3
    <3> QED BY <3>1, <3>2
  <2> QED BY <2>9, <2>10, <2>11, Zenon DEF NothingIsLost, chunks, kept, outcome
<1> QED BY <1>1, TextInv, PTL

==============================================================================
