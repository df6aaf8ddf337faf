----------------------------- MODULE ReleaseRetry -----------------------------
(***************************************************************************)
(* The loop in push.finalize that asks the server for a release until it    *)
(* has one (internal/remote/handler.go, PushFinalize): 202 Accepted while   *)
(* the pack is processed, 429 when the server limits the rate.  Both share  *)
(* one budget of attempts; 429s have a smaller one of their own.            *)
(*                                                                          *)
(* One step is one iteration: the call, the switch on its answer, the       *)
(* sleep.  Durations are counted in units of which Second make a second,    *)
(* in the wrapping arithmetic of a signed integer of 2 * HalfRange values.  *)
(***************************************************************************)
EXTENDS Integers

CONSTANTS
  MaxRetries, MaxRateLimitRetries,                      \* handler.go:126-132
  InitialRetryWait, MaxRetryWait, RateLimitRetryWait,
  RetryAfterCap,     \* the longest Retry-After that is obeyed
  RetryAfters,       \* the seconds Sscanf reads; 0: no header, no number, or not positive
  Second, HalfRange

ASSUME RetryAssumption ==
  /\ MaxRetries \in Nat /\ MaxRateLimitRetries \in Nat
  /\ InitialRetryWait \in Nat \ {0}
  /\ MaxRetryWait \in Nat /\ InitialRetryWait <= MaxRetryWait
  /\ RetryAfterCap \in Nat /\ MaxRetryWait <= RetryAfterCap
  /\ RateLimitRetryWait \in 1..RetryAfterCap
  /\ RetryAfters \subseteq Nat
  /\ Second \in Nat \ {0} /\ HalfRange \in Nat \ {0}

VARIABLES
  attempt, rateLimitAttempts, retryInterval,   \* the loop's variables
  result,      \* "none" while the loop runs
  polls,       \* how many 202s were answered by a wait (history)
  slept,       \* total time slept (history)
  lastWait     \* the last argument of sleepFor (history)

vars == <<attempt, rateLimitAttempts, retryInterval, result, polls, slept, lastWait>>

Results == {"none", "release", "timeout", "rate_limited", "error", "panic"}

TypeOK ==
  /\ attempt \in 0..(MaxRetries + 1)
  /\ rateLimitAttempts \in 0..(MaxRateLimitRetries + 1)
  /\ retryInterval \in InitialRetryWait..MaxRetryWait
  /\ result \in Results
  /\ polls \in Nat
  /\ slept \in Nat
  /\ lastWait \in Int

Init ==
  /\ attempt = 0
  /\ rateLimitAttempts = 0
  /\ retryInterval = InitialRetryWait
  /\ result = "none"
  /\ polls = 0
  /\ slept = 0
  /\ lastWait = 1

-----------------------------------------------------------------------------
\* time.Duration arithmetic.
Wrap(x) == ((x + HalfRange) % (2 * HalfRange)) - HalfRange

\* A mistake: the header obeyed without a limit.
RetryAfterUncapped(seconds) ==
  IF seconds = 0 THEN RateLimitRetryWait ELSE Wrap(seconds * Second)

\* parseRetryAfter.
RetryAfterWait(seconds) ==
  LET wait == Wrap(seconds * Second) IN
  IF seconds = 0 THEN RateLimitRetryWait
  ELSE IF wait > RetryAfterCap THEN RetryAfterCap
  ELSE wait

\* A mistake: the interval grows without the cap.
BackoffUncapped(interval) == 2 * interval

Backoff(interval) == IF 2 * interval > MaxRetryWait THEN MaxRetryWait ELSE 2 * interval

\* A mistake: one attempt too few.
LastButOneAttempt(a) == a + 1 >= MaxRetries

LastAttempt(a) == a = MaxRetries

\* A mistake: one 429 more than the budget.
RateLimitSpentLate(n) == n > MaxRateLimitRetries + 1

RateLimitSpent(n) == n > MaxRateLimitRetries

\* A negative wait returns at once.
SleepFor(wait) ==
  /\ lastWait' = wait
  /\ slept' = slept + (IF wait > 0 THEN wait ELSE 0)

Return(r) ==
  /\ result' = r
  /\ UNCHANGED <<attempt, retryInterval, polls, slept, lastWait>>

Calling == result = "none" /\ attempt <= MaxRetries

-----------------------------------------------------------------------------
Created ==
  /\ Calling
  /\ Return("release")
  /\ UNCHANGED rateLimitAttempts

\* Any other error, or a call that failed.
OtherError ==
  /\ Calling
  /\ Return("error")
  /\ UNCHANGED rateLimitAttempts

\* 202 on the last attempt: "pack processing timed out, please retry".
AcceptedLast ==
  /\ Calling
  /\ LastAttempt(attempt)
  /\ Return("timeout")
  /\ UNCHANGED rateLimitAttempts

\* A mistake: the attempt is not counted.
AcceptedUncounted ==
  /\ Calling
  /\ ~LastAttempt(attempt)
  /\ SleepFor(retryInterval)
  /\ polls' = polls + 1
  /\ retryInterval' = Backoff(retryInterval)
  /\ UNCHANGED <<attempt, rateLimitAttempts, result>>

Accepted ==
  /\ Calling
  /\ ~LastAttempt(attempt)
  /\ SleepFor(retryInterval)
  /\ polls' = polls + 1
  /\ retryInterval' = Backoff(retryInterval)
  /\ attempt' = attempt + 1
  /\ UNCHANGED <<rateLimitAttempts, result>>

RateLimitedTooOften ==
  /\ Calling
  /\ RateLimitSpent(rateLimitAttempts + 1)
  /\ rateLimitAttempts' = rateLimitAttempts + 1
  /\ Return("rate_limited")

\* 429 within the budget sleeps even on the last attempt.
RateLimited(seconds) ==
  /\ Calling
  /\ ~RateLimitSpent(rateLimitAttempts + 1)
  /\ rateLimitAttempts' = rateLimitAttempts + 1
  /\ SleepFor(RetryAfterWait(seconds))
  /\ attempt' = attempt + 1
  /\ UNCHANGED <<retryInterval, result, polls>>

\* The loop is over without a return or a break: releaseResp is nil, and
\* reading its ID (handler.go:447) stops the process.
FallThrough ==
  /\ result = "none"
  /\ attempt > MaxRetries
  /\ Return("panic")
  /\ UNCHANGED rateLimitAttempts

Next ==
  \/ Created \/ OtherError
  \/ AcceptedLast \/ Accepted
  \/ RateLimitedTooOften
  \/ \E seconds \in RetryAfters : RateLimited(seconds)
  \/ FallThrough

Spec == Init /\ [][Next]_vars

-----------------------------------------------------------------------------
(* Properties.                                                               *)

\* However 202s and 429s alternate, one push.finalize sleeps no longer than the
\* two budgets allow: 450 s with the constants of the code, half the lifetime
\* of the finalize token it holds.
WaitBudget ==
  slept <= MaxRetries * MaxRetryWait + MaxRateLimitRetries * RetryAfterCap

\* "timed out" is said only after every attempt was made and at most the budget
\* of 429s took attempts away from polling: the server had that many polls.
TimeoutMeansPatience ==
  result = "timeout" =>
    /\ attempt = MaxRetries
    /\ polls >= MaxRetries - MaxRateLimitRetries

\* Waits for a pack in progress never get shorter, whatever comes in between.
BackoffMonotone == [][retryInterval' >= retryInterval]_vars

\* Every iteration uses up an attempt or ends the loop: no mix of answers can
\* make it run for ever.
EveryCallCounts == [][attempt' = attempt + 1 \/ result' # "none"]_vars

\* The Retry-After values whose duration does not overflow.
HeadersFit == \A s \in RetryAfters : s * Second < HalfRange

\* Every sleep is a real one, and capped "at reasonable maximum" (handler.go:1487).
\* It needs HeadersFit: a duration that wraps to a negative one passes the cap and
\* the loop goes on without a pause.
WaitWithinCap == lastWait \in 1..RetryAfterCap

\* A 429 is waited out and retried (handler.go:427), so the loop does not end
\* without either a release or an error to return.
NoNilRelease == result # "panic"
=============================================================================
