------------------------------- MODULE Retry -------------------------------
(***************************************************************************)
(* Retries (src/src/exn.rs, retry_with_backoff and Backoff): an operation  *)
(* is called again while it fails with policy Retry, with a delay between  *)
(* the attempts; what failed on the way becomes part of the fault that is  *)
(* returned.                                                               *)
(*                                                                         *)
(* The operation and the sleep are the caller's.  A failure is known by    *)
(* the number of its attempt.                                              *)
(***************************************************************************)
EXTENDS Naturals, Sequences, SequencesExt

CONSTANTS
  Attempts,       \* the values of max_attempts
  Backoffs,       \* the backoffs
  MAX_EXPONENT,   \* Backoff::MAX_EXPONENT
  MaxU64,         \* the largest u64
  MaxU128         \* the largest u128

\* Fixed(d), and Exponential with saturating arithmetic on nanoseconds.
BackoffType ==
       [kind : {"None"}]
  \cup [kind : {"Fixed"}, delay : Nat]
  \cup [kind : {"Exponential"}, base : Nat, factor : Nat, max : Nat]

ASSUME AttemptsAssumption == Attempts \subseteq Nat
ASSUME BackoffAssumption  == Backoffs \subseteq BackoffType
ASSUME WidthAssumption    ==
  MAX_EXPONENT \in Nat /\ MaxU64 \in Nat \ {0} /\ MaxU128 \in Nat /\ MaxU64 < MaxU128

VARIABLES
  maxAttempts, backoff,   \* the arguments
  pc,
  attempts,               \* failed attempts
  failures,               \* the failures kept for the end, in order
  drawn,                  \* items drawn from the schedule
  result,                 \* the Err that is returned
  slept,                  \* history: the delays slept
  policies                \* history: the policies of the failures

retryVars == <<maxAttempts, backoff, pc, attempts, failures, drawn, result, slept, policies>>

Policies == {"Retry", "Other", "None"}    \* "None": an uncoded error
NoFault  == [root |-> 0, context |-> 0, children |-> <<>>]

-----------------------------------------------------------------------------
\* Backoff::delay, for the attempt-th delay.

Least(m, n)    == IF m < n THEN m ELSE n
Greatest(m, n) == IF m > n THEN m ELSE n

\* saturating_pow
Power(b) ==
  LET pow[n \in Nat] == IF n = 0 THEN 1 ELSE Least(b * pow[n - 1], MaxU128)
  IN  pow

Exponent(attempt) == Least(attempt - 1, MAX_EXPONENT)

\* Faulty: the factor is raised without a cap, in wrapping arithmetic.
ExponentialWrapping(b, attempt) ==
  LET mult  == Power(Greatest(b.factor, 2))[Exponent(attempt)]
      nanos == (b.base * mult) % (MaxU64 + 1)
  IN  Least(nanos, b.max)

Exponential(b, attempt) ==
  LET mult  == Power(Greatest(b.factor, 2))[Exponent(attempt)]
      nanos == Least(b.base * mult, MaxU128)
  IN  Least(Least(nanos, MaxU64), b.max)

\* Option<Duration>: a delay or none.
Delay(b, attempt) ==
  CASE b.kind = "None"        -> <<>>
    [] b.kind = "Fixed"       -> <<b.delay>>
    [] b.kind = "Exponential" -> <<Exponential(b, attempt)>>

-----------------------------------------------------------------------------
RetryTypeOK ==
  /\ maxAttempts \in Nat /\ backoff \in Backoffs
  /\ pc          \in {"call", "sleep", "ok", "err"}
  /\ attempts    \in 0..Greatest(maxAttempts, 1)
  /\ failures    \in Seq(1..attempts)
  /\ drawn       \in 0..attempts
  /\ result      \in [root : 0..attempts, context : 0..attempts, children : Seq(1..attempts)]
  /\ slept       \in Seq(Nat)
  /\ policies    \in Seq(Policies)

RetryInit ==
  /\ maxAttempts \in Attempts /\ backoff \in Backoffs
  /\ pc = "call" /\ attempts = 0 /\ failures = <<>> /\ drawn = 0
  /\ result = NoFault /\ slept = <<>> /\ policies = <<>>

Succeed ==
  /\ pc = "call"
  /\ pc' = "ok"
  /\ UNCHANGED <<maxAttempts, backoff, attempts, failures, drawn, result, slept, policies>>

\* Faulty: an error without a policy is retried.
MayRetryUncoded(policy) == policy # "Other" /\ attempts + 1 < Greatest(maxAttempts, 1)

\* The failure is retried: its policy says so and attempts are left.
MayRetry(policy) == policy = "Retry" /\ attempts + 1 < Greatest(maxAttempts, 1)

\* The failure is kept and the schedule says how long to wait.
Collect(policy) ==
  /\ pc = "call"
  /\ MayRetry(policy)
  /\ attempts'   = attempts + 1
  /\ policies'   = Append(policies, policy)
  /\ failures'   = Append(failures, attempts + 1)
  /\ drawn'      = drawn + 1
  /\ pc' = IF Delay(backoff, drawn + 1) = <<>> THEN "call" ELSE "sleep"
  /\ UNCHANGED <<maxAttempts, backoff, result, slept>>

Sleep ==
  /\ pc = "sleep"
  /\ pc' = "call"
  /\ slept' = slept \o Delay(backoff, drawn)
  /\ UNCHANGED <<maxAttempts, backoff, attempts, failures, drawn, result, policies>>

\* Faulty: only an exhausted retry takes the earlier failures along.
MergedIfExhausted(n) ==
  IF failures = <<>> \/ n < maxAttempts
  THEN [root |-> n, context |-> 0, children |-> <<>>]
  ELSE [root |-> n, context |-> n, children |-> failures]

\* The fault of attempt n, with the earlier ones as its children, if there are
\* any, and the number of attempts as its context.
Merged(n) ==
  IF failures = <<>> THEN [root |-> n, context |-> 0, children |-> <<>>]
  ELSE [root |-> n, context |-> n, children |-> failures]

GiveUp(policy) ==
  /\ pc = "call"
  /\ ~MayRetry(policy)
  /\ attempts' = attempts + 1
  /\ policies' = Append(policies, policy)
  /\ pc'       = "err"
  /\ result'   = Merged(attempts + 1)
  /\ failures' = <<>>
  /\ UNCHANGED <<maxAttempts, backoff, drawn, slept>>

RetryNext ==
  \/ Succeed \/ Sleep
  \/ \E policy \in Policies : Collect(policy) \/ GiveUp(policy)

RetrySpec == RetryInit /\ [][RetryNext]_retryVars

-----------------------------------------------------------------------------
\* Properties.

\* No attempt is lost: the fault that is returned holds every failure once, the
\* earlier ones in order below the final one, whatever ended the retries.
EveryFailureReported ==
  pc = "err" => /\ Append(result.children, result.root) = [i \in 1..attempts |-> i]
                /\ result.context \in {0, attempts}

\* The operation is called again only after failures with policy Retry, and with a
\* delay before each further attempt: none before the first, none after the last.
SleepsBetween ==
  /\ \A i \in 1..(Len(policies) - 1) : policies[i] = "Retry"
  /\ pc \in {"ok", "err"} =>
       LET calls == IF pc = "ok" THEN attempts + 1 ELSE attempts IN
       Len(slept) = IF backoff.kind = "None" THEN 0 ELSE calls - 1

\* At most max_attempts attempts, one at least; retries and sleeps as above.
RetryInv == RetryTypeOK /\ SleepsBetween

\* The powers of b, in exact arithmetic.
ExactPower(b) ==
  LET pow[n \in Nat] == IF n = 0 THEN 1 ELSE b * pow[n - 1]
  IN  pow

\* base * factor^(attempt - 1) up to max, in exact arithmetic.
Exact(b, attempt) ==
  Least(b.base * ExactPower(Greatest(b.factor, 2))[attempt - 1], b.max)

\* Neither the saturation of the power, nor that of the product, nor the clamp to
\* 64 bits shows in a delay: it is that of exact arithmetic until the exponent is
\* capped, and stays there.
DelaysExact ==
  backoff.kind = "Exponential" /\ backoff.max <= MaxU64 =>
    \A i \in DOMAIN slept : slept[i] = Exact(backoff, Least(i, MAX_EXPONENT + 1))

\* "non-Retry policies return immediately with the fault unchanged" (retry docs).
UnchangedOnStop ==
  pc = "err" /\ Last(policies) # "Retry" => result.context = 0 /\ result.children = <<>>

\* "Exponential backoff: base * factor^(attempt-1), capped at max" (Backoff).
ScheduleAsDocumented ==
  backoff.kind = "Exponential" => \A i \in DOMAIN slept : slept[i] = Exact(backoff, i)
=============================================================================
