----------------------------- MODULE Admission -----------------------------
(***************************************************************************)
(* TokenBucketAdmissionController (admission.ts): at most Burst requests   *)
(* at once and Rate per second after that.  Time is counted in ticks of    *)
(* 1/TicksPerSecond seconds and tokens in as many parts, so that a tick    *)
(* adds Rate parts and a request costs TicksPerSecond of them.             *)
(***************************************************************************)
EXTENDS Integers, FiniteSetsExt

CONSTANTS Rate, Burst, TicksPerSecond

ASSUME AdmissionAssumption ==
    /\ Rate \in Nat \ {0} /\ Burst \in Nat \ {0} /\ TicksPerSecond \in Nat \ {0}

\* The constructor: a full bucket.
FullBucket(now) == [tokens |-> Burst * TicksPerSecond, last |-> now]

Refilled(bucket, now) ==
    Min({Burst * TicksPerSecond, bucket.tokens + Max({0, now - bucket.last}) * Rate})

\* Seconds until a whole token is there, rounded up, one at least.
RetryAfter(tokens) ==
    LET perSecond == TicksPerSecond * Rate
    IN  Max({1, (TicksPerSecond - tokens + perSecond - 1) \div perSecond})

\* Mutant: the mark is moved only when a request is admitted.
TryAcquireMarkKept(bucket, now) ==
    LET tokens == Refilled(bucket, now)
    IN  IF tokens >= TicksPerSecond
        THEN [allowed |-> TRUE, retryAfter |-> 0,
              bucket  |-> [tokens |-> tokens - TicksPerSecond, last |-> now]]
        ELSE [allowed |-> FALSE, retryAfter |-> RetryAfter(tokens),
              bucket  |-> [tokens |-> tokens, last |-> bucket.last]]

\* tryAcquire: the decision and the bucket after it.
TryAcquire(bucket, now) ==
    LET tokens == Refilled(bucket, now)
    IN  IF tokens >= TicksPerSecond
        THEN [allowed |-> TRUE, retryAfter |-> 0,
              bucket  |-> [tokens |-> tokens - TicksPerSecond, last |-> now]]
        ELSE [allowed |-> FALSE, retryAfter |-> RetryAfter(tokens),
              bucket  |-> [tokens |-> tokens, last |-> now]]
=============================================================================
