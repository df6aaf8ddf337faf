------------------------- MODULE ReleaseRetry_proofs -------------------------
(***************************************************************************)
(* Proofs about ReleaseRetry, for every value of its budgets, waits and     *)
(* Retry-After headers, those that overflow included.                       *)
(***************************************************************************)
EXTENDS ReleaseRetry, TLAPS

\* Every attempt that did not end the loop was a poll or a 429 in the budget,
\* and slept no longer than its cap.
RetryInv ==
  /\ TypeOK
  /\ polls <= attempt /\ polls <= MaxRetries
  /\ attempt - polls <= MaxRateLimitRetries
  /\ result # "rate_limited" => rateLimitAttempts = attempt - polls
  /\ result = "timeout" => attempt = MaxRetries
  /\ result = "panic" => attempt > MaxRetries
  /\ slept <= polls * MaxRetryWait + (attempt - polls) * RetryAfterCap

LEMMA TimesMonotone ==
  ASSUME NEW a \in Nat, NEW b \in Nat, NEW c \in Nat, a <= b
  PROVE  a * c <= b * c
<1>1. PICK d \in Nat : b = a + d
  BY b - a \in Nat
<1>2. b * c = a * c + d * c
  BY <1>1
<1>3. d * c >= 0 /\ a * c \in Nat /\ d * c \in Nat
  OBVIOUS
<1> QED
  BY <1>2, <1>3

LEMMA WrapType == ASSUME NEW x \in Int PROVE Wrap(x) \in Int
<1>1. 2 * HalfRange \in Nat \ {0}
  BY RetryAssumption
<1>2. (x + HalfRange) % (2 * HalfRange) \in Int
  BY <1>1, RetryAssumption
<1> QED
  BY <1>2, RetryAssumption DEF Wrap

\* No header makes a sleep longer than the cap.
LEMMA RetryAfterCapped ==
  ASSUME NEW seconds \in RetryAfters
  PROVE  /\ RetryAfterWait(seconds) \in Int
         /\ RetryAfterWait(seconds) <= RetryAfterCap
<1>1. seconds * Second \in Int
  BY RetryAssumption
<1>2. Wrap(seconds * Second) \in Int
  BY <1>1, WrapType
<1> QED
  BY <1>2, RetryAssumption DEF RetryAfterWait

LEMMA RetryInvInit == Init => RetryInv
BY RetryAssumption DEF Init, RetryInv, TypeOK, Results

LEMMA RetryInvNext == RetryInv /\ [Next]_vars => RetryInv'
<1> SUFFICES ASSUME RetryInv, [Next]_vars PROVE RetryInv'
  OBVIOUS
<1> USE RetryAssumption
<1>1. CASE UNCHANGED vars
  BY <1>1 DEF vars, RetryInv, TypeOK
<1>2. CASE Created \/ OtherError \/ AcceptedLast
  BY <1>2 DEF Created, OtherError, AcceptedLast, LastAttempt, Calling, Return, RetryInv, TypeOK,
     Results
<1>3. CASE Accepted
  <2>1. /\ attempt' = attempt + 1 /\ polls' = polls + 1
        /\ UNCHANGED <<rateLimitAttempts, result>>
        /\ result = "none" /\ attempt < MaxRetries
    BY <1>3 DEF Accepted, Calling, LastAttempt, RetryInv, TypeOK
  <2>2. retryInterval' \in InitialRetryWait..MaxRetryWait
    BY <1>3 DEF Accepted, Backoff, RetryInv, TypeOK
  <2>3. slept' = slept + retryInterval /\ lastWait' \in Int
    BY <1>3 DEF Accepted, SleepFor, RetryInv, TypeOK
  <2>4. polls' * MaxRetryWait = polls * MaxRetryWait + MaxRetryWait
    BY <2>1 DEF RetryInv, TypeOK
  <2>5. attempt' - polls' = attempt - polls
    BY <2>1 DEF RetryInv, TypeOK
  <2>6. polls * MaxRetryWait \in Int /\ (attempt - polls) * RetryAfterCap \in Int
    BY DEF RetryInv, TypeOK
  <2>7. slept' <= polls' * MaxRetryWait + (attempt' - polls') * RetryAfterCap
    BY <2>3, <2>4, <2>5, <2>6 DEF RetryInv, TypeOK
  <2> QED
    BY <2>1, <2>2, <2>3, <2>5, <2>7 DEF RetryInv, TypeOK
<1>4. CASE RateLimitedTooOften
  BY <1>4 DEF RateLimitedTooOften, RateLimitSpent, Calling, Return, RetryInv, TypeOK, Results
<1>5. ASSUME NEW seconds \in RetryAfters, RateLimited(seconds) PROVE RetryInv'
  <2>1. /\ attempt' = attempt + 1 /\ rateLimitAttempts' = rateLimitAttempts + 1
        /\ UNCHANGED <<retryInterval, result, polls>>
        /\ result = "none" /\ attempt <= MaxRetries
        /\ rateLimitAttempts + 1 <= MaxRateLimitRetries
    BY <1>5 DEF RateLimited, Calling, RateLimitSpent, RetryInv, TypeOK
  <2>2. lastWait' \in Int /\ slept' \in Nat /\ slept' <= slept + RetryAfterCap
    <3>1. slept \in Nat
      BY DEF RetryInv, TypeOK
    <3> QED
      BY <1>5, <3>1, RetryAfterCapped DEF RateLimited, SleepFor
  <2>3. attempt' - polls' = (attempt - polls) + 1 /\ attempt - polls \in Nat
    BY <2>1 DEF RetryInv, TypeOK
  <2>4. (attempt' - polls') * RetryAfterCap = (attempt - polls) * RetryAfterCap + RetryAfterCap
    BY <2>3
  <2>5. polls * MaxRetryWait \in Int /\ (attempt - polls) * RetryAfterCap \in Int
    BY DEF RetryInv, TypeOK
  <2>6. slept' <= polls' * MaxRetryWait + (attempt' - polls') * RetryAfterCap
    BY <2>1, <2>2, <2>4, <2>5 DEF RetryInv, TypeOK
  <2> QED
    BY <2>1, <2>2, <2>3, <2>6 DEF RetryInv, TypeOK
<1>6. CASE FallThrough
  BY <1>6 DEF FallThrough, Return, RetryInv, TypeOK, Results
<1> QED
  BY <1>1, <1>2, <1>3, <1>4, <1>5, <1>6 DEF Next

\* The loop's counters, interval and result stay in their ranges.
THEOREM RetryTypeCorrect == Spec => []TypeOK
<1>1. RetryInv => TypeOK
  BY DEF RetryInv
<1> QED
  BY <1>1, RetryInvInit, RetryInvNext, PTL DEF Spec

\* One push.finalize never sleeps longer than its two budgets.
THEOREM SleepBounded == Spec => []WaitBudget
<1>1. RetryInv => WaitBudget
  <2> SUFFICES ASSUME RetryInv PROVE WaitBudget
    OBVIOUS
  <2>1. polls \in Nat /\ attempt - polls \in Nat /\ slept \in Nat
    BY DEF RetryInv, TypeOK
  <2>2. polls * MaxRetryWait <= MaxRetries * MaxRetryWait
    BY <2>1, TimesMonotone, RetryAssumption DEF RetryInv
  <2>3. (attempt - polls) * RetryAfterCap <= MaxRateLimitRetries * RetryAfterCap
    BY <2>1, TimesMonotone, RetryAssumption DEF RetryInv
  <2>4. /\ polls * MaxRetryWait \in Int /\ MaxRetries * MaxRetryWait \in Int
        /\ (attempt - polls) * RetryAfterCap \in Int
        /\ MaxRateLimitRetries * RetryAfterCap \in Int
    BY <2>1, RetryAssumption
  <2> QED
    BY <2>1, <2>2, <2>3, <2>4 DEF RetryInv, WaitBudget
<1> QED
  BY <1>1, RetryInvInit, RetryInvNext, PTL DEF Spec

\* The request is not given up while the server still has polls coming.
THEOREM PatienceKept == Spec => []TimeoutMeansPatience
<1>1. RetryInv => TimeoutMeansPatience
  BY RetryAssumption DEF RetryInv, TypeOK, TimeoutMeansPatience
<1> QED
  BY <1>1, RetryInvInit, RetryInvNext, PTL DEF Spec

\* Each iteration of the loop costs an attempt or is the last.
THEOREM IterationsCount == Spec => EveryCallCounts
<1>1. [Next]_vars => [attempt' = attempt + 1 \/ result' # "none"]_vars
  BY DEF Next, Created, OtherError, AcceptedLast, Accepted, RateLimitedTooOften, RateLimited,
     FallThrough, Return
<1> QED
  BY <1>1, PTL DEF Spec, EveryCallCounts

\* Waits for a pack in progress never get shorter.
THEOREM BackoffNeverShrinks == Spec => BackoffMonotone
<1>1. RetryInv /\ [Next]_vars => [retryInterval' >= retryInterval]_vars
  <2> SUFFICES ASSUME RetryInv, [Next]_vars PROVE [retryInterval' >= retryInterval]_vars
    OBVIOUS
  <2>1. retryInterval \in Nat /\ retryInterval <= MaxRetryWait
    BY RetryAssumption DEF RetryInv, TypeOK
  <2>2. Backoff(retryInterval) >= retryInterval
    BY <2>1, RetryAssumption DEF Backoff
  <2> QED
    BY <2>1, <2>2 DEF Next, Created, OtherError, AcceptedLast, Accepted, RateLimitedTooOften,
       RateLimited, FallThrough, Return
<1> QED
  BY <1>1, RetryInvInit, RetryInvNext, PTL DEF Spec, BackoffMonotone

\* The loop falls through without a release only when 429s, each within their
\* budget, used up attempts: however many 202s there were, they alone end in a
\* timeout that is reported.
NilCause ==
  result = "panic" =>
    /\ rateLimitAttempts \in 1..MaxRateLimitRetries
    /\ polls = MaxRetries + 1 - rateLimitAttempts

THEOREM NilReleaseCause == Spec => []NilCause
<1>1. RetryInv => NilCause
  BY RetryAssumption DEF RetryInv, TypeOK, NilCause
<1> QED
  BY <1>1, RetryInvInit, RetryInvNext, PTL DEF Spec

\* Were no 429 ever retried, the loop would always have a release or an error.
THEOREM NoRetriesNoNilRelease == MaxRateLimitRetries = 0 /\ Spec => []NoNilRelease
<1> SUFFICES ASSUME MaxRateLimitRetries = 0 PROVE Spec => []NoNilRelease
  OBVIOUS
<1>1. RetryInv => NoNilRelease
  BY RetryAssumption DEF RetryInv, TypeOK, NoNilRelease
<1> QED
  BY <1>1, RetryInvInit, RetryInvNext, PTL DEF Spec

\* The step that leaves the loop without an answer follows a 429 to the last
\* attempt: no other answer takes the loop past it.
THEOREM OnlyRateLimitsPassTheLast ==
  Spec => [][attempt' > MaxRetries /\ attempt' # attempt =>
               attempt = MaxRetries /\ rateLimitAttempts' = rateLimitAttempts + 1]_vars
<1>1. RetryInv /\ [Next]_vars =>
        [attempt' > MaxRetries /\ attempt' # attempt =>
           attempt = MaxRetries /\ rateLimitAttempts' = rateLimitAttempts + 1]_vars
  BY RetryAssumption
     DEF Next, Created, OtherError, AcceptedLast, Accepted, RateLimitedTooOften, RateLimited,
         FallThrough, Return, Calling, LastAttempt, RetryInv, TypeOK
<1> QED
  BY <1>1, RetryInvInit, RetryInvNext, PTL DEF Spec

-----------------------------------------------------------------------------
(* Waits, when no duration overflows.                                        *)

LEMMA WrapFits ==
  ASSUME NEW x \in Nat, x < HalfRange
  PROVE  Wrap(x) = x
<1>1. x + HalfRange \in 0..(2 * HalfRange - 1) /\ 2 * HalfRange \in Nat \ {0}
  BY RetryAssumption
<1>2. (x + HalfRange) % (2 * HalfRange) = x + HalfRange
  BY <1>1
<1> QED
  BY <1>2, RetryAssumption DEF Wrap

LEMMA RetryAfterPositive ==
  ASSUME HeadersFit, NEW seconds \in RetryAfters
  PROVE  RetryAfterWait(seconds) \in 1..RetryAfterCap
<1>1. CASE seconds = 0
  BY <1>1, RetryAssumption DEF RetryAfterWait
<1>2. CASE seconds # 0
  <2>1. seconds * Second \in Nat \ {0}
    BY <1>2, RetryAssumption
  <2>2. Wrap(seconds * Second) = seconds * Second
    BY <2>1, WrapFits DEF HeadersFit
  <2> QED
    BY <1>2, <2>1, <2>2, RetryAssumption DEF RetryAfterWait
<1> QED
  BY <1>1, <1>2

\* When every Retry-After fits a duration, each sleep is positive and capped.
THEOREM WaitsCapped == HeadersFit /\ Spec => []WaitWithinCap
<1> SUFFICES ASSUME HeadersFit PROVE Spec => []WaitWithinCap
  OBVIOUS
<1>1. Init => WaitWithinCap
  BY RetryAssumption DEF Init, WaitWithinCap
<1>2. RetryInv /\ WaitWithinCap /\ [Next]_vars => WaitWithinCap'
  <2> SUFFICES ASSUME RetryInv, WaitWithinCap, [Next]_vars PROVE WaitWithinCap'
    OBVIOUS
  <2>1. CASE UNCHANGED lastWait
    BY <2>1 DEF WaitWithinCap
  <2>2. CASE Accepted
    BY <2>2, RetryAssumption DEF Accepted, SleepFor, RetryInv, TypeOK, WaitWithinCap
  <2>3. ASSUME NEW seconds \in RetryAfters, RateLimited(seconds) PROVE WaitWithinCap'
    BY <2>3, RetryAfterPositive DEF RateLimited, SleepFor, WaitWithinCap
  <2> QED
    BY <2>1, <2>2, <2>3 DEF Next, Created, OtherError, AcceptedLast, RateLimitedTooOften,
       FallThrough, Return, vars
<1> QED
  BY <1>1, <1>2, RetryInvInit, RetryInvNext, PTL DEF Spec
=============================================================================
