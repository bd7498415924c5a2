---------------------------- MODULE RetryPolicy ----------------------------
(***************************************************************************)
(* The retry policy and the retry tracker (internal/retry/policy.go), as   *)
(* operators.  A tracker is the number of recorded failures and whether    *)
(* its next retry time still lies in the future.  Delays are in seconds.   *)
(***************************************************************************)
EXTENDS Integers

CONSTANTS
  MaxAttempts,         \* RetryPolicy.MaxAttempts
  InitialDelay,        \* RetryPolicy.InitialDelay
  BackoffMultiplier,   \* RetryPolicy.BackoffMultiplier
  MaxDelay,            \* RetryPolicy.MaxDelay
  OnlyRetryTransient   \* RetryPolicy.OnlyRetryTransient

ASSUME PolicyAssumption ==
  /\ MaxAttempts \in Nat
  /\ InitialDelay \in Nat
  /\ BackoffMultiplier \in Nat \ {0}
  /\ MaxDelay \in Nat
  /\ OnlyRetryTransient \in BOOLEAN

IsTransient(reason) ==
  reason \in {"ImagePullTimeout", "NetworkTimeout", "NetworkUnreachable", "DNSResolution",
              "RuntimeUnhealthy", "RuntimeError", "Unknown"}

IsPermanent(reason) ==
  reason \in {"InvalidImage", "InvalidSpec", "InvalidConfig", "PortConflict"}

\* An error message is the set of keyword groups that occur in it.
Keyword == {"image", "timeout", "auth", "port", "network", "dns", "resource", "spec"}

ClassifyError(msg) ==
  IF "image" \in msg
  THEN CASE "timeout" \in msg -> "ImagePullTimeout"
         [] "timeout" \notin msg /\ "auth" \in msg -> "ImagePullAuth"
         [] OTHER -> "InvalidImage"
  ELSE IF "port" \in msg THEN "PortConflict"
  ELSE IF "network" \in msg
  THEN IF "timeout" \in msg THEN "NetworkTimeout" ELSE "NetworkUnreachable"
  ELSE IF "dns" \in msg THEN "DNSResolution"
  ELSE IF "resource" \in msg THEN "InsufficientResources"
  ELSE IF "spec" \in msg THEN "InvalidSpec"
  ELSE "Unknown"

\* The reasons a message can be classified as.
Reason == {ClassifyError(msg) : msg \in SUBSET Keyword}

ShouldRetry(reason, attemptNum) ==
  /\ attemptNum <= MaxAttempts
  /\ ~IsPermanent(reason)
  /\ OnlyRetryTransient => IsTransient(reason)

backoff[n \in Nat] == IF n = 0 THEN 1 ELSE BackoffMultiplier * backoff[n - 1]

calculateNextDelay(attemptNum) ==
  LET delay == InitialDelay * backoff[attemptNum - 1]
  IN  IF delay > MaxDelay THEN MaxDelay ELSE delay

NewRetryTracker == [attempts |-> 0, waiting |-> FALSE]

\* Past MaxAttempts every further failure is treated alike, so the count stops
\* at AttemptCap.
AttemptCap == MaxAttempts + 2

Tracker == [attempts : 0 .. AttemptCap, waiting : BOOLEAN]

RecordFailure(tracker, reason) ==
  LET attemptNum == tracker.attempts + 1
      retryable == ShouldRetry(reason, attemptNum)
  IN  [retryable |-> retryable,
       tracker |->
         [attempts |-> IF attemptNum > AttemptCap THEN AttemptCap ELSE attemptNum,
          waiting |-> IF retryable THEN calculateNextDelay(attemptNum) > 0 ELSE tracker.waiting]]

CanRetryNow(tracker) == ~tracker.waiting

\* The test the reconciler makes before it looks at a failure again.
BackingOff(tracker) == tracker.attempts > 0 /\ ~CanRetryNow(tracker)
=============================================================================
