---------------------------- MODULE FaultProofs ----------------------------
(***************************************************************************)
(* Faults (src/src/exn.rs), for every set of errors, every max_attempts,   *)
(* every backoff and every width.                                          *)
(*                                                                         *)
(* Retries: the operation is called at most max_attempts times, once at    *)
(* least, with a delay before each further attempt that is what exact      *)
(* arithmetic says, and the fault returned in the end holds every failure, *)
(* in order.                                                               *)
(*                                                                         *)
(* Trees: whatever constructors and uses follow each other, the tree of a  *)
(* fault holds exactly the errors it was made of, an iterator yields it    *)
(* parents first, no frame that is shared is written, and a root cause     *)
(* survives the copies that Error::source makes necessary.                 *)
(*                                                                         *)
(* Both models define their data by recursion over the natural numbers and *)
(* put sequences together; SequenceLemmas has what follows from that.      *)
(***************************************************************************)
EXTENDS Retry, FaultTree, SequenceLemmas, SequenceTheorems, WellFoundedInduction, TLAPS

-----------------------------------------------------------------------------
\* Retries.

\* The attempts 1 to n, in order.
Numbered(n) == [i \in 1..n |-> i]

\* While attempts are made, failures holds all of them; afterwards the
\* result does.
Kept ==
  /\ pc \in {"call", "sleep", "ok", "err"}
  /\ maxAttempts \in Nat
  /\ attempts \in Nat
  /\ attempts <= Greatest(maxAttempts, 1)
  /\ pc \in {"call", "sleep"} =>
       attempts < Greatest(maxAttempts, 1) /\ failures = Numbered(attempts)
  /\ pc = "err" => /\ Append(result.children, result.root) = Numbered(attempts)
                   /\ result.context \in {0, attempts}

\* Appending the next attempt numbers one more.
LEMMA AppendNumbered ==
  ASSUME NEW n \in Nat
  PROVE  Append(Numbered(n), n + 1) = Numbered(n + 1)
<1>1. Numbered(n) \in Seq(Nat) /\ Len(Numbered(n)) = n
  BY DEF Numbered
<1>2. Append(Numbered(n), n + 1) = [i \in 1..(n + 1) |-> IF i <= n THEN i ELSE n + 1]
  BY <1>1 DEF Numbered
<1> QED BY <1>2 DEF Numbered

\* The result of giving up holds the earlier failures and the last one.
LEMMA MergedHoldsAll ==
  ASSUME NEW n \in Nat, failures = Numbered(n)
  PROVE  /\ Append(Merged(n + 1).children, Merged(n + 1).root) = Numbered(n + 1)
         /\ Merged(n + 1).context \in {0, n + 1}
<1>1. CASE failures = <<>>
  <2>1. Merged(n + 1).children = failures /\ Merged(n + 1).root = n + 1
    BY <1>1 DEF Merged
  <2>2. Merged(n + 1).context = 0
    BY <1>1 DEF Merged
  <2> QED BY <2>1, <2>2, AppendNumbered
<1>2. CASE failures # <<>>
  <2>1. Merged(n + 1).children = failures /\ Merged(n + 1).root = n + 1
    BY <1>2 DEF Merged
  <2>2. Merged(n + 1).context = n + 1
    BY <1>2 DEF Merged
  <2> QED BY <2>1, <2>2, AppendNumbered
<1> QED BY <1>1, <1>2

LEMMA InitKept == RetryInit => Kept
<1> SUFFICES ASSUME RetryInit PROVE Kept
  OBVIOUS
<1>1. maxAttempts \in Nat
  BY AttemptsAssumption DEF RetryInit
<1>2. Numbered(0) = <<>>
  BY DEF Numbered
<1> QED BY <1>1, <1>2 DEF RetryInit, Kept, Greatest

LEMMA NextKept == Kept /\ [RetryNext]_retryVars => Kept'
<1> SUFFICES ASSUME Kept, [RetryNext]_retryVars PROVE Kept'
  OBVIOUS
<1>1. CASE Succeed
  BY <1>1 DEF Succeed, Kept, Greatest, Numbered
<1>2. CASE Sleep
  BY <1>2 DEF Sleep, Kept, Greatest, Numbered
<1>3. ASSUME NEW policy \in Policies, Collect(policy)
      PROVE  Kept'
  <2>1. attempts' = attempts + 1 /\ attempts' < Greatest(maxAttempts', 1)
    BY <1>3 DEF Collect, MayRetry, Kept
  <2>2. failures' = Numbered(attempts')
    BY <1>3, <2>1, AppendNumbered DEF Collect, Kept
  <2>3. pc' \in {"call", "sleep"}
    BY <1>3 DEF Collect
  <2> QED BY <1>3, <2>1, <2>2, <2>3 DEF Collect, Kept, Greatest, Numbered
<1>4. ASSUME NEW policy \in Policies, GiveUp(policy)
      PROVE  Kept'
  <2>1. attempts' = attempts + 1 /\ attempts' <= Greatest(maxAttempts', 1)
    BY <1>4 DEF GiveUp, Kept, Greatest
  <2>2. failures = Numbered(attempts) /\ result' = Merged(attempts + 1)
    BY <1>4 DEF GiveUp, Kept
  <2>3. /\ Append(result'.children, result'.root) = Numbered(attempts')
        /\ result'.context \in {0, attempts'}
    BY <2>1, <2>2, MergedHoldsAll DEF Kept
  <2>4. pc' = "err"
    BY <1>4 DEF GiveUp
  <2>5. maxAttempts' \in Nat /\ attempts' \in Nat
    BY <1>4 DEF GiveUp, Kept
  <2> QED BY <2>1, <2>3, <2>4, <2>5 DEF Kept
<1>5. CASE UNCHANGED retryVars
  BY <1>5 DEF retryVars, Kept, Numbered, Greatest
<1> QED BY <1>1, <1>2, <1>3, <1>4, <1>5 DEF RetryNext

\* What has been tried is kept, at every moment of every retry.
THEOREM RetryInvariant == RetrySpec => []Kept
BY InitKept, NextKept, PTL DEF RetrySpec

\* The fault that is returned holds every failure once and in order.
THEOREM NoFailureLost == RetrySpec => []EveryFailureReported
<1>1. Kept => EveryFailureReported
  BY DEF Kept, EveryFailureReported, Numbered
<1> QED BY <1>1, RetryInvariant, PTL

-----------------------------------------------------------------------------
\* The powers of a number.

\* v starts with a and goes on as step says.
Follows(v, a, step) ==
  /\ v = [n \in Nat |-> v[n]]
  /\ v[0] = a
  /\ \A n \in Nat : v[n + 1] = step[v[n]]

\* Every first value and step function define a sequence of values.  What is defined
\* up to n agrees for all n, and so the values at the ends are it.
LEMMA Defined ==
  ASSUME NEW a, NEW step
  PROVE  \E v : Follows(v, a, step)
<1> DEFINE Good(n, g) == \A k \in 0..n : g[k] = IF k = 0 THEN a ELSE step[g[k - 1]]
           S == {n \in Nat : \E g : g = [k \in 0..n |-> g[k]] /\ Good(n, g)}
<1>1. 0 \in S
  <2> DEFINE g == [k \in 0..0 |-> a]
  <2>1. g = [k \in 0..0 |-> g[k]] /\ Good(0, g)
    OBVIOUS
  <2> QED BY <2>1
<1>2. ASSUME NEW n \in Nat, n \in S PROVE n + 1 \in S
  <2>1. PICK g : g = [k \in 0..n |-> g[k]] /\ Good(n, g)
    BY <1>2
  <2> DEFINE h == [k \in 0..(n + 1) |-> IF k <= n THEN g[k] ELSE step[g[n]]]
  <2>2. ASSUME NEW k \in 0..(n + 1) PROVE h[k] = IF k = 0 THEN a ELSE step[h[k - 1]]
    <3>1. CASE k <= n
      <4>1. k \in 0..n /\ h[k] = g[k] /\ (k # 0 => k - 1 \in 0..(n + 1) /\ k - 1 <= n)
        BY <3>1
      <4>2. k # 0 => h[k - 1] = g[k - 1]
        BY <4>1
      <4> HIDE DEF h
      <4> QED BY <2>1, <4>1, <4>2
    <3>2. CASE k = n + 1
      <4>1. k # 0 /\ ~(k <= n) /\ k - 1 = n /\ n \in 0..(n + 1)
        BY <3>2
      <4>2. h[k] = step[g[n]] /\ h[n] = g[n]
        BY <4>1
      <4> HIDE DEF h
      <4> QED BY <4>1, <4>2
    <3> QED BY <3>1, <3>2
  <2>3. h = [k \in 0..(n + 1) |-> h[k]]
    OBVIOUS
  <2> HIDE DEF h
  <2>4. Good(n + 1, h)
    BY <2>2
  <2> HIDE DEF Good
  <2> QED BY <2>3, <2>4
<1>3. Nat \subseteq S
  <2> HIDE DEF S
  <2> QED BY <1>1, <1>2, ByInduction
<1>4. PICK u : \A n \in Nat : Good(n, u[n])
  <2> DEFINE w == [n \in Nat |-> CHOOSE g : Good(n, g)]
  <2>1. ASSUME NEW n \in Nat PROVE Good(n, w[n])
    <3>1. \E g : Good(n, g)
      BY <1>3
    <3> HIDE DEF Good
    <3> QED BY <3>1
  <2> HIDE DEF Good, w
  <2> QED BY <2>1
<1>5. ASSUME NEW n \in Nat, NEW m \in Nat, NEW i \in Nat, i <= n, i <= m
      PROVE  u[n][i] = u[m][i]
  <2> DEFINE E == {j \in Nat : j <= n /\ j <= m => u[n][j] = u[m][j]}
  <2>1. 0 \in E
    BY <1>4
  <2>2. ASSUME NEW j \in Nat, j \in E PROVE j + 1 \in E
    <3> SUFFICES ASSUME j + 1 <= n, j + 1 <= m PROVE u[n][j + 1] = u[m][j + 1]
      OBVIOUS
    <3>1. u[n][j] = u[m][j]
      BY <2>2
    <3>2. j + 1 \in 0..n /\ j + 1 \in 0..m /\ j + 1 # 0 /\ (j + 1) - 1 = j
      OBVIOUS
    <3>3. u[n][j + 1] = step[u[n][(j + 1) - 1]] /\ u[m][j + 1] = step[u[m][(j + 1) - 1]]
      BY <1>4, <3>2
    <3> QED BY <3>1, <3>2, <3>3
  <2>3. Nat \subseteq E
    <3> HIDE DEF E
    <3> QED BY <2>1, <2>2, ByInduction
  <2> QED BY <2>3, <1>5
<1> DEFINE v == [n \in Nat |-> u[n][n]]
<1>6. v = [n \in Nat |-> IF n = 0 THEN a ELSE step[v[n - 1]]]
  <2> SUFFICES ASSUME NEW n \in Nat PROVE v[n] = IF n = 0 THEN a ELSE step[v[n - 1]]
    OBVIOUS
  <2>1. CASE n = 0
    BY <1>4, <2>1
  <2>2. CASE n # 0
    <3>1. n - 1 \in Nat /\ n \in 0..n
      BY <2>2
    <3>2. u[n][n] = step[u[n][n - 1]]
      BY <1>4, <2>2, <3>1
    <3>3. u[n][n - 1] = u[n - 1][n - 1]
      BY <1>5, <3>1
    <3> QED BY <2>2, <3>1, <3>2, <3>3
  <2> QED BY <2>1, <2>2
<1>7. v = [n \in Nat |-> v[n]]
  OBVIOUS
<1> HIDE DEF v
<1>8. \A n \in Nat : v[n + 1] = step[v[n]]
  <2>1. \A n \in Nat : n + 1 \in Nat /\ n + 1 # 0 /\ (n + 1) - 1 = n
    OBVIOUS
  <2> QED BY <1>6, <2>1
<1>9. v[0] = a
  BY <1>6
<1> QED BY <1>7, <1>8, <1>9 DEF Follows

\* A function of natural numbers that is defined by a step on them.
LEMMA DefinedOnNat ==
  ASSUME NEW a \in Nat, NEW step \in [Nat -> Nat]
  PROVE  \E v \in [Nat -> Nat] : Follows(v, a, step)
<1>1. PICK v : Follows(v, a, step)
  BY Defined
<1> DEFINE S == {n \in Nat : v[n] \in Nat}
<1>2. 0 \in S
  BY <1>1 DEF Follows
<1>3. ASSUME NEW n \in Nat, n \in S PROVE n + 1 \in S
  <2>1. v[n] \in Nat /\ v[n + 1] = step[v[n]]
    BY <1>1, <1>3 DEF Follows
  <2>2. step[v[n]] \in Nat
    BY <2>1
  <2> QED BY <2>1, <2>2
<1>4. Nat \subseteq S
  <2> HIDE DEF S
  <2> QED BY <1>2, <1>3, ByInduction
<1>5. v \in [Nat -> Nat]
  <2>1. \A n \in Nat : v[n] \in Nat
    BY <1>4
  <2>2. v = [n \in Nat |-> v[n]]
    BY <1>1 DEF Follows
  <2> QED BY <2>1, <2>2
<1> QED BY <1>1, <1>5

-----------------------------------------------------------------------------
\* The delays.

LEMMA Products ==
  ASSUME NEW b \in Nat, NEW x \in Nat
  PROVE  b * x \in Nat /\ (b >= 1 => b * x >= x) /\ (b = 0 => b * x = 0)
<1>1. b * x \in Nat
  OBVIOUS
<1>2. CASE b >= 1
  <2>1. b - 1 \in Nat /\ b = (b - 1) + 1
    BY <1>2
  <2>2. \A c \in Nat : (c + 1) * x = c * x + x /\ c * x \in Nat
    OBVIOUS
  <2>3. ((b - 1) + 1) * x = (b - 1) * x + x /\ (b - 1) * x \in Nat
    BY <2>1, <2>2
  <2> QED BY <1>1, <1>2, <2>1, <2>3
<1>3. CASE b = 0
  BY <1>3
<1> QED BY <1>1, <1>2, <1>3

LEMMA PowerDefined ==
  ASSUME NEW b \in Nat
  PROVE  /\ Power(b) \in [Nat -> Nat]
         /\ Power(b)[0] = 1
         /\ \A n \in Nat : Power(b)[n + 1] = Least(b * Power(b)[n], MaxU128)
<1> DEFINE step == [x \in Nat |-> Least(b * x, MaxU128)]
<1>1. step \in [Nat -> Nat]
  BY Products, WidthAssumption DEF Least
<1> HIDE DEF step
<1>2. PICK v \in [Nat -> Nat] : Follows(v, 1, step)
  BY <1>1, DefinedOnNat
<1>3. v = [n \in Nat |-> IF n = 0 THEN 1 ELSE Least(b * v[n - 1], MaxU128)]
  <2> SUFFICES ASSUME NEW n \in Nat PROVE v[n] = IF n = 0 THEN 1 ELSE Least(b * v[n - 1], MaxU128)
    OBVIOUS
  <2>1. CASE n = 0
    BY <1>2, <2>1 DEF Follows
  <2>2. CASE n # 0
    <3>1. n - 1 \in Nat /\ (n - 1) + 1 = n /\ v[n - 1] \in Nat
      BY <2>2
    <3>2. v[n] = step[v[n - 1]]
      BY <1>2, <3>1 DEF Follows
    <3> QED BY <2>2, <3>1, <3>2 DEF step
  <2> QED BY <2>1, <2>2
<1> DEFINE IsPower(f) == f = [n \in Nat |-> IF n = 0 THEN 1 ELSE Least(b * f[n - 1], MaxU128)]
<1>4. IsPower(Power(b))
  <2>1. Power(b) = CHOOSE f : IsPower(f)
    BY DEF Power
  <2>2. \E f : IsPower(f)
    BY <1>3
  <2> HIDE DEF IsPower
  <2> QED BY <2>1, <2>2
<1> DEFINE p == Power(b)
           S == {n \in Nat : p[n] \in Nat}
<1> HIDE DEF p
<1>5. p = [n \in Nat |-> IF n = 0 THEN 1 ELSE Least(b * p[n - 1], MaxU128)]
  BY <1>4 DEF p
<1>6. p[0] = 1 /\ \A n \in Nat : p[n + 1] = Least(b * p[n], MaxU128)
  <2>1. \A n \in Nat : n + 1 \in Nat /\ n + 1 # 0 /\ (n + 1) - 1 = n
    OBVIOUS
  <2> QED BY <1>5, <2>1
<1>7. 0 \in S
  BY <1>6
<1>8. ASSUME NEW n \in Nat, n \in S PROVE n + 1 \in S
  BY <1>6, <1>8, Products, WidthAssumption DEF Least
<1>9. Nat \subseteq S
  <2> HIDE DEF S
  <2> QED BY <1>7, <1>8, ByInduction
<1>10. p \in [Nat -> Nat]
  <2>1. \A n \in Nat : p[n] \in Nat
    BY <1>9
  <2>2. p = [n \in Nat |-> p[n]]
    BY <1>5
  <2> QED BY <2>1, <2>2
<1> QED BY <1>6, <1>10 DEF p

LEMMA ExactPowerDefined ==
  ASSUME NEW b \in Nat
  PROVE  /\ ExactPower(b) \in [Nat -> Nat]
         /\ ExactPower(b)[0] = 1
         /\ \A n \in Nat : ExactPower(b)[n + 1] = b * ExactPower(b)[n]
<1> DEFINE step == [x \in Nat |-> b * x]
<1>1. step \in [Nat -> Nat]
  BY Products
<1> HIDE DEF step
<1>2. PICK v \in [Nat -> Nat] : Follows(v, 1, step)
  BY <1>1, DefinedOnNat
<1>3. v = [n \in Nat |-> IF n = 0 THEN 1 ELSE b * v[n - 1]]
  <2> SUFFICES ASSUME NEW n \in Nat PROVE v[n] = IF n = 0 THEN 1 ELSE b * v[n - 1]
    OBVIOUS
  <2>1. CASE n = 0
    BY <1>2, <2>1 DEF Follows
  <2>2. CASE n # 0
    <3>1. n - 1 \in Nat /\ (n - 1) + 1 = n /\ v[n - 1] \in Nat
      BY <2>2
    <3>2. v[n] = step[v[n - 1]]
      BY <1>2, <3>1 DEF Follows
    <3> QED BY <2>2, <3>1, <3>2 DEF step
  <2> QED BY <2>1, <2>2
<1> DEFINE IsPower(f) == f = [n \in Nat |-> IF n = 0 THEN 1 ELSE b * f[n - 1]]
<1>4. IsPower(ExactPower(b))
  <2>1. ExactPower(b) = CHOOSE f : IsPower(f)
    BY DEF ExactPower
  <2>2. \E f : IsPower(f)
    BY <1>3
  <2> HIDE DEF IsPower
  <2> QED BY <2>1, <2>2
<1> DEFINE p == ExactPower(b)
           S == {n \in Nat : p[n] \in Nat}
<1> HIDE DEF p
<1>5. p = [n \in Nat |-> IF n = 0 THEN 1 ELSE b * p[n - 1]]
  BY <1>4 DEF p
<1>6. p[0] = 1 /\ \A n \in Nat : p[n + 1] = b * p[n]
  <2>1. \A n \in Nat : n + 1 \in Nat /\ n + 1 # 0 /\ (n + 1) - 1 = n
    OBVIOUS
  <2> QED BY <1>5, <2>1
<1>7. 0 \in S
  BY <1>6
<1>8. ASSUME NEW n \in Nat, n \in S PROVE n + 1 \in S
  BY <1>6, <1>8, Products
<1>9. Nat \subseteq S
  <2> HIDE DEF S
  <2> QED BY <1>7, <1>8, ByInduction
<1>10. p \in [Nat -> Nat]
  <2>1. \A n \in Nat : p[n] \in Nat
    BY <1>9
  <2>2. p = [n \in Nat |-> p[n]]
    BY <1>5
  <2> QED BY <2>1, <2>2
<1> QED BY <1>6, <1>10 DEF p

\* What saturates at every step is what saturates once, at the end.
LEMMA PowerSaturates ==
  ASSUME NEW b \in Nat, b >= 1, NEW n \in Nat
  PROVE  Power(b)[n] = Least(ExactPower(b)[n], MaxU128)
<1> DEFINE p == Power(b)
           e == ExactPower(b)
           S == {k \in Nat : p[k] = Least(e[k], MaxU128)}
<1>1. /\ p[0] = 1 /\ \A k \in Nat : p[k + 1] = Least(b * p[k], MaxU128)
      /\ e[0] = 1 /\ \A k \in Nat : e[k + 1] = b * e[k]
      /\ p \in [Nat -> Nat] /\ e \in [Nat -> Nat]
  BY PowerDefined, ExactPowerDefined
<1> HIDE DEF p, e
<1>2. 0 \in S
  BY <1>1, WidthAssumption DEF Least
<1>3. ASSUME NEW k \in Nat, k \in S PROVE k + 1 \in S
  <2>1. p[k] = Least(e[k], MaxU128) /\ e[k] \in Nat
    BY <1>1, <1>3
  <2>2. p[k + 1] = Least(b * p[k], MaxU128) /\ e[k + 1] = b * e[k]
    BY <1>1
  <2>3. CASE e[k] < MaxU128
    <3>1. p[k] = e[k]
      BY <2>1, <2>3 DEF Least
    <3> QED BY <2>2, <3>1
  <2>4. CASE ~(e[k] < MaxU128)
    <3>1. p[k] = MaxU128 /\ MaxU128 \in Nat
      BY <2>1, <2>4, WidthAssumption DEF Least
    <3> DEFINE x == b * MaxU128
               y == b * e[k]
    <3>2. x \in Nat /\ x >= MaxU128 /\ y \in Nat /\ y >= e[k]
      BY <2>1, <3>1, Products
    <3>3. p[k + 1] = Least(x, MaxU128) /\ e[k + 1] = y
      BY <2>2, <3>1
    <3> HIDE DEF x, y
    <3>4. p[k + 1] = MaxU128 /\ Least(y, MaxU128) = MaxU128
      BY <2>1, <2>4, <3>1, <3>2, <3>3 DEF Least
    <3> QED BY <3>3, <3>4
  <2> QED BY <2>3, <2>4
<1>4. Nat \subseteq S
  <2> HIDE DEF S
  <2> QED BY <1>2, <1>3, ByInduction
<1> QED BY <1>4 DEF p, e

ExponentialType == [kind : {"Exponential"}, base : Nat, factor : Nat, max : Nat]

LEMMA Factors ==
  ASSUME NEW b \in ExponentialType, NEW i \in Nat \ {0}
  PROVE  /\ b.base \in Nat /\ b.max \in Nat
         /\ Greatest(b.factor, 2) \in Nat /\ Greatest(b.factor, 2) >= 1
         /\ Exponent(i) \in Nat
         /\ Least(i, MAX_EXPONENT + 1) - 1 = Exponent(i)
BY WidthAssumption DEF ExponentialType, Greatest, Exponent, Least

LEMMA ExponentialIsNat ==
  ASSUME NEW b \in ExponentialType, NEW i \in Nat \ {0}
  PROVE  Exponential(b, i) \in Nat
<1> DEFINE mult == Power(Greatest(b.factor, 2))[Exponent(i)]
           x    == b.base * mult
<1>1. mult \in Nat
  BY Factors, PowerDefined
<1> HIDE DEF mult
<1>2. x \in Nat
  BY <1>1, Factors, Products
<1>3. Exponential(b, i) = Least(Least(Least(x, MaxU128), MaxU64), b.max)
  BY DEF Exponential, mult
<1> HIDE DEF x
<1> QED BY <1>2, <1>3, Factors, WidthAssumption DEF Least

\* The four places where Backoff::delay saturates or clamps make no difference to
\* each other's effect: what is left is the clamp to max.
LEMMA ExponentialIsExact ==
  ASSUME NEW b \in ExponentialType, b.max <= MaxU64, NEW i \in Nat \ {0}
  PROVE  Exponential(b, i) = Exact(b, Least(i, MAX_EXPONENT + 1))
<1> DEFINE mult  == Power(Greatest(b.factor, 2))[Exponent(i)]
           exact == ExactPower(Greatest(b.factor, 2))[Exponent(i)]
           x     == b.base * mult
           y     == b.base * exact
<1>1. mult = Least(exact, MaxU128) /\ exact \in Nat
  BY Factors, PowerSaturates, ExactPowerDefined
<1>2. Exact(b, Least(i, MAX_EXPONENT + 1)) = Least(y, b.max)
  BY Factors DEF Exact
<1>3. Exponential(b, i) = Least(Least(Least(x, MaxU128), MaxU64), b.max)
  BY DEF Exponential
<1> HIDE DEF mult, exact
<1>4. y \in Nat /\ (b.base >= 1 => y >= exact)
  BY <1>1, Factors, Products
<1>5. MaxU64 \in Nat /\ MaxU128 \in Nat /\ MaxU64 < MaxU128 /\ b.base \in Nat /\ b.max \in Nat
  BY Factors, WidthAssumption
<1>6. CASE exact < MaxU128
  <2>1. x = y
    BY <1>1, <1>5, <1>6 DEF Least
  <2> HIDE DEF x, y
  <2> QED BY <1>2, <1>3, <1>4, <1>5, <2>1 DEF Least
<1>7. CASE ~(exact < MaxU128)
  <2>1. mult = MaxU128
    BY <1>1, <1>5, <1>7 DEF Least
  <2>2. x \in Nat /\ (b.base >= 1 => x >= MaxU128) /\ (b.base = 0 => x = 0 /\ y = 0)
    BY <1>1, <1>5, <2>1, Products
  <2> HIDE DEF x, y
  <2>3. CASE b.base = 0
    BY <1>2, <1>3, <1>5, <2>2, <2>3 DEF Least
  <2>4. CASE b.base >= 1
    BY <1>1, <1>2, <1>3, <1>4, <1>5, <1>7, <2>2, <2>4 DEF Least
  <2> QED BY <1>5, <2>3, <2>4
<1> QED BY <1>6, <1>7

LEMMA BackoffKinds ==
  ASSUME NEW b \in Backoffs
  PROVE  /\ b.kind \in {"None", "Fixed", "Exponential"}
         /\ b.kind = "Fixed" => b.delay \in Nat
         /\ b.kind = "Exponential" => b \in ExponentialType
BY BackoffAssumption DEF BackoffType, ExponentialType

LEMMA OneDelay ==
  ASSUME NEW b \in Backoffs, NEW i \in Nat \ {0}
  PROVE  IF b.kind = "None" THEN Delay(b, i) = <<>> ELSE \E d \in Nat : Delay(b, i) = <<d>>
<1>1. CASE b.kind = "None"
  BY <1>1 DEF Delay
<1>2. CASE b.kind = "Fixed"
  BY <1>2, BackoffKinds DEF Delay
<1>3. CASE b.kind = "Exponential"
  <2>1. Exponential(b, i) \in Nat
    BY <1>3, BackoffKinds, ExponentialIsNat
  <2>2. Delay(b, i) = <<Exponential(b, i)>>
    BY <1>3 DEF Delay
  <2> QED BY <1>3, <2>1, <2>2
<1> QED BY <1>1, <1>2, <1>3, BackoffKinds

-----------------------------------------------------------------------------
\* The schedule: a delay is drawn for each failure that is retried, and slept before
\* the next attempt.
Schedule ==
  /\ Len(policies) = attempts
  /\ pc = "err" => attempts >= 1
  /\ \A i \in 1..(IF pc = "err" THEN attempts - 1 ELSE attempts) : policies[i] = "Retry"
  /\ drawn = IF pc = "err" THEN attempts - 1 ELSE attempts
  /\ pc = "sleep" => backoff.kind # "None" /\ drawn >= 1
  /\ Len(slept) = IF backoff.kind = "None" THEN 0
                  ELSE IF pc = "sleep" THEN drawn - 1 ELSE drawn
  /\ \A i \in 1..Len(slept) : Delay(backoff, i) = <<slept[i]>>

RetryIInv == RetryTypeOK /\ Kept /\ Schedule

\* Attempts are numbered from 1, so that a longer run may hold what a shorter one did.
LEMMA MoreAttempts ==
  ASSUME NEW n \in Nat, NEW s \in Seq(1..n)
  PROVE  s \in Seq(1..(n + 1))
OBVIOUS

LEMMA InitRetry == RetryInit => RetryIInv
<1> SUFFICES ASSUME RetryInit PROVE RetryIInv
  OBVIOUS
<1>1. maxAttempts \in Nat
  BY AttemptsAssumption DEF RetryInit
<1>2. RetryTypeOK
  BY <1>1 DEF RetryInit, RetryTypeOK, NoFault, Greatest
<1>3. Schedule
  BY DEF RetryInit, Schedule
<1> QED BY <1>2, <1>3, InitKept DEF RetryIInv

LEMMA CollectKeeps ==
  ASSUME RetryIInv, NEW policy \in Policies, Collect(policy)
  PROVE  RetryTypeOK' /\ Schedule'
<1> USE DEF RetryIInv
<1>1. /\ pc = "call" /\ attempts' = attempts + 1 /\ drawn' = drawn + 1
      /\ policy = "Retry" /\ attempts + 1 < Greatest(maxAttempts, 1)
      /\ UNCHANGED <<maxAttempts, backoff, result, slept>>
  BY DEF Collect, MayRetry
<1>2. attempts \in Nat /\ drawn \in Nat /\ drawn = attempts /\ maxAttempts \in Nat
  BY <1>1 DEF RetryTypeOK, Greatest, Schedule
<1>3. /\ policies' \in Seq(Policies) /\ Len(policies') = attempts + 1
      /\ \A i \in 1..attempts : policies'[i] = policies[i]
      /\ policies'[attempts + 1] = policy
  <2>1. /\ policies \in Seq(Policies) /\ Len(policies) = attempts
        /\ policies' = Append(policies, policy)
    BY DEF RetryTypeOK, Schedule, Collect
  <2> QED BY <2>1, AppendProperties
<1>4. failures' \in Seq(1..(attempts + 1))
  <2>1. failures \in Seq(1..(attempts + 1)) /\ attempts + 1 \in 1..(attempts + 1)
    BY <1>2, MoreAttempts DEF RetryTypeOK
  <2>2. failures' = Append(failures, attempts + 1)
    BY DEF Collect
  <2> QED BY <2>1, <2>2, AppendProperties
<1>5. /\ pc' \in {"call", "sleep"} /\ (pc' = "sleep" <=> backoff.kind # "None")
  <2>1. backoff \in Backoffs /\ drawn + 1 \in Nat \ {0}
    BY <1>2 DEF RetryTypeOK
  <2>2. Delay(backoff, drawn + 1) = <<>> <=> backoff.kind = "None"
    BY <2>1, OneDelay
  <2>3. pc' = IF Delay(backoff, drawn + 1) = <<>> THEN "call" ELSE "sleep"
    BY DEF Collect
  <2> QED BY <2>2, <2>3
<1>6. result' \in [root : 0..(attempts + 1), context : 0..(attempts + 1),
                   children : Seq(1..(attempts + 1))]
  <2>1. /\ result = [root |-> result.root, context |-> result.context, children |-> result.children]
        /\ result.root \in 0..attempts /\ result.context \in 0..attempts
        /\ result.children \in Seq(1..attempts)
    BY DEF RetryTypeOK
  <2>2. result.children \in Seq(1..(attempts + 1))
    BY <1>2, <2>1, MoreAttempts
  <2>3. result.root \in 0..(attempts + 1) /\ result.context \in 0..(attempts + 1)
    BY <1>2, <2>1
  <2> QED BY <1>1, <2>1, <2>2, <2>3
<1>7. RetryTypeOK'
  <2>1. attempts' \in 0..Greatest(maxAttempts, 1) /\ drawn' \in 0..attempts'
    BY <1>1, <1>2 DEF Greatest
  <2> QED BY <1>1, <1>3, <1>4, <1>5, <1>6, <2>1 DEF RetryTypeOK
<1>8. Schedule'
  <2>1. \A i \in 1..(attempts + 1) : policies'[i] = "Retry"
    <3>1. \A i \in 1..attempts : policies[i] = "Retry"
      BY <1>1 DEF Schedule
    <3>2. \A i \in 1..(attempts + 1) : i \in 1..attempts \/ i = attempts + 1
      BY <1>2
    <3> QED BY <1>1, <1>3, <3>1, <3>2
  <2>2. Len(slept) = IF backoff.kind = "None" THEN 0 ELSE drawn
    BY <1>1 DEF Schedule
  <2>3. Len(slept') = IF backoff'.kind = "None" THEN 0
                     ELSE IF pc' = "sleep" THEN drawn' - 1 ELSE drawn'
    BY <1>1, <1>2, <1>5, <2>2
  <2>4. \A i \in 1..Len(slept') : Delay(backoff', i) = <<slept'[i]>>
    BY <1>1 DEF Schedule
  <2>5. pc' # "err" /\ drawn' = attempts' /\ Len(policies') = attempts' /\ drawn' >= 1
    BY <1>1, <1>2, <1>3, <1>5
  <2>6. pc' = "sleep" => backoff'.kind # "None"
    BY <1>1, <1>5
  <2>7. \A i \in 1..attempts' : policies'[i] = "Retry"
    BY <1>1, <2>1
  <2> QED BY <2>3, <2>4, <2>5, <2>6, <2>7 DEF Schedule
<1> QED BY <1>7, <1>8

LEMMA SleepKeeps ==
  ASSUME RetryIInv, Sleep
  PROVE  RetryTypeOK' /\ Schedule'
<1> USE DEF RetryIInv
<1>1. /\ pc = "sleep" /\ pc' = "call" /\ slept' = slept \o Delay(backoff, drawn)
      /\ UNCHANGED <<maxAttempts, backoff, attempts, failures, drawn, result, policies>>
  BY DEF Sleep
<1>2. backoff \in Backoffs /\ drawn \in Nat \ {0} /\ backoff.kind # "None" /\ attempts \in Nat
  BY <1>1 DEF RetryTypeOK, Schedule, Kept
<1>3. slept \in Seq(Nat) /\ Len(slept) = drawn - 1
  BY <1>1, <1>2 DEF RetryTypeOK, Schedule
<1>4. PICK d \in Nat : Delay(backoff, drawn) = <<d>>
  BY <1>2, OneDelay
<1>5. slept' = Append(slept, d)
  BY <1>1, <1>3, <1>4
<1>6. /\ slept' \in Seq(Nat) /\ Len(slept') = drawn
      /\ \A i \in 1..(drawn - 1) : slept'[i] = slept[i]
      /\ slept'[drawn] = d
  BY <1>2, <1>3, <1>5
<1>7. RetryTypeOK'
  BY <1>1, <1>6 DEF RetryTypeOK
<1>8. \A i \in 1..drawn : Delay(backoff, i) = <<slept'[i]>>
  <2> SUFFICES ASSUME NEW i \in 1..drawn PROVE Delay(backoff, i) = <<slept'[i]>>
    OBVIOUS
  <2>1. i \in 1..(drawn - 1) \/ i = drawn
    BY <1>2
  <2>2. CASE i = drawn
    BY <1>4, <1>6, <2>2
  <2>3. CASE i \in 1..(drawn - 1)
    <3>1. Delay(backoff, i) = <<slept[i]>>
      BY <1>3, <2>3 DEF Schedule
    <3> QED BY <1>6, <2>3, <3>1
  <2> QED BY <2>1, <2>2, <2>3
<1>9. Schedule'
  <2>1. Len(slept') = IF backoff'.kind = "None" THEN 0
                     ELSE IF pc' = "sleep" THEN drawn' - 1 ELSE drawn'
    BY <1>1, <1>2, <1>6
  <2>2. \A i \in 1..Len(slept') : Delay(backoff', i) = <<slept'[i]>>
    BY <1>1, <1>6, <1>8
  <2>3. /\ Len(policies') = attempts' /\ pc' # "err" /\ pc' # "sleep" /\ drawn' = attempts'
        /\ \A i \in 1..attempts' : policies'[i] = "Retry"
    BY <1>1 DEF Schedule
  <2> QED BY <2>1, <2>2, <2>3 DEF Schedule
<1> QED BY <1>7, <1>9

LEMMA GiveUpKeeps ==
  ASSUME RetryIInv, NEW policy \in Policies, GiveUp(policy)
  PROVE  RetryTypeOK' /\ Schedule'
<1> USE DEF RetryIInv
<1>1. /\ pc = "call" /\ pc' = "err" /\ attempts' = attempts + 1 /\ failures' = <<>>
      /\ UNCHANGED <<maxAttempts, backoff, drawn, slept>>
  BY DEF GiveUp
<1>2. /\ attempts \in Nat /\ drawn \in Nat /\ drawn = attempts /\ maxAttempts \in Nat
      /\ attempts < Greatest(maxAttempts, 1)
  BY <1>1 DEF RetryTypeOK, Greatest, Schedule, Kept
<1>3. /\ policies' \in Seq(Policies) /\ Len(policies') = attempts + 1
      /\ \A i \in 1..attempts : policies'[i] = policies[i]
  <2>1. /\ policies \in Seq(Policies) /\ Len(policies) = attempts
        /\ policies' = Append(policies, policy)
    BY DEF RetryTypeOK, Schedule, GiveUp
  <2> QED BY <2>1, AppendProperties
<1>4. result' \in [root : 0..(attempts + 1), context : 0..(attempts + 1),
                   children : Seq(1..(attempts + 1))]
  <2>1. failures \in Seq(1..(attempts + 1))
    BY <1>2, MoreAttempts DEF RetryTypeOK
  <2>2. result' = Merged(attempts + 1)
    BY DEF GiveUp
  <2> QED BY <1>2, <2>1, <2>2 DEF Merged
<1>5. RetryTypeOK'
  <2>1. attempts' \in 0..Greatest(maxAttempts, 1) /\ drawn' \in 0..attempts'
    BY <1>1, <1>2 DEF Greatest
  <2>2. failures' \in Seq(1..attempts')
    BY <1>1
  <2> QED BY <1>1, <1>3, <1>4, <2>1, <2>2 DEF RetryTypeOK
<1>6. Schedule'
  <2>1. \A i \in 1..attempts : policies'[i] = "Retry"
    BY <1>1, <1>3 DEF Schedule
  <2>2. Len(slept') = IF backoff'.kind = "None" THEN 0
                     ELSE IF pc' = "sleep" THEN drawn' - 1 ELSE drawn'
    BY <1>1 DEF Schedule
  <2>3. \A i \in 1..Len(slept') : Delay(backoff', i) = <<slept'[i]>>
    BY <1>1 DEF Schedule
  <2>4. /\ attempts' - 1 = attempts /\ attempts' >= 1 /\ drawn' = attempts' - 1
        /\ Len(policies') = attempts' /\ pc' = "err"
    BY <1>1, <1>2, <1>3
  <2>5. \A i \in 1..(attempts' - 1) : policies'[i] = "Retry"
    BY <2>1, <2>4
  <2> QED BY <2>2, <2>3, <2>4, <2>5 DEF Schedule
<1> QED BY <1>5, <1>6

LEMMA NextRetry == RetryIInv /\ [RetryNext]_retryVars => RetryIInv'
<1> SUFFICES ASSUME RetryIInv, [RetryNext]_retryVars PROVE RetryIInv'
  OBVIOUS
<1>1. CASE Succeed
  <2>1. RetryTypeOK' /\ Schedule'
    BY <1>1 DEF Succeed, RetryIInv, RetryTypeOK, Schedule
  <2> QED BY <2>1, NextKept DEF RetryIInv
<1>2. CASE UNCHANGED retryVars
  <2>1. RetryTypeOK' /\ Schedule'
    BY <1>2 DEF retryVars, RetryIInv, RetryTypeOK, Schedule
  <2> QED BY <2>1, NextKept DEF RetryIInv
<1>3. CASE Sleep
  BY <1>3, SleepKeeps, NextKept DEF RetryIInv
<1>4. ASSUME NEW policy \in Policies, Collect(policy) PROVE RetryIInv'
  BY <1>4, CollectKeeps, NextKept DEF RetryIInv
<1>5. ASSUME NEW policy \in Policies, GiveUp(policy) PROVE RetryIInv'
  BY <1>5, GiveUpKeeps, NextKept DEF RetryIInv
<1> QED BY <1>1, <1>2, <1>3, <1>4, <1>5 DEF RetryNext

LEMMA ScheduleKept == RetrySpec => []RetryIInv
BY InitRetry, NextRetry, PTL DEF RetrySpec

\* The operation is called at most max_attempts times, once at least, again only after
\* a failure with policy Retry, and with one delay between two calls.
\* (retry_with_backoff)
THEOREM AttemptsAreScheduled == RetrySpec => []RetryInv
<1>1. ASSUME RetryIInv PROVE RetryInv
  <2> USE <1>1 DEF RetryIInv
  <2>1. RetryTypeOK /\ attempts \in Nat
    BY DEF Kept
  <2>2. \A i \in 1..(Len(policies) - 1) : policies[i] = "Retry"
    BY <2>1 DEF Schedule
  <2>3. pc = "ok" => Len(slept) = IF backoff.kind = "None" THEN 0 ELSE (attempts + 1) - 1
    BY <2>1 DEF Schedule
  <2>4. pc = "err" => Len(slept) = IF backoff.kind = "None" THEN 0 ELSE attempts - 1
    BY <2>1 DEF Schedule
  <2>5. SleepsBetween
    BY <2>2, <2>3, <2>4 DEF SleepsBetween
  <2> QED BY <2>1, <2>5 DEF RetryInv
<1> QED BY <1>1, ScheduleKept, PTL

\* For every base, factor, max and attempt, a delay is that of exact arithmetic: the
\* saturating power and product and the clamp to 64 bits never show.  (Backoff::delay)
THEOREM DelaysAreExact == RetrySpec => []DelaysExact
<1>1. ASSUME RetryIInv PROVE DelaysExact
  <2> SUFFICES ASSUME backoff.kind = "Exponential", backoff.max <= MaxU64, NEW i \in DOMAIN slept
               PROVE  slept[i] = Exact(backoff, Least(i, MAX_EXPONENT + 1))
    BY DEF DelaysExact
  <2>1. backoff \in ExponentialType
    BY <1>1, BackoffKinds DEF RetryIInv, RetryTypeOK
  <2>2. i \in 1..Len(slept) /\ i \in Nat \ {0}
    BY <1>1 DEF RetryIInv, RetryTypeOK
  <2>3. <<slept[i]>> = <<Exponential(backoff, i)>>
    BY <1>1, <2>2 DEF RetryIInv, Schedule, Delay
  <2>4. slept[i] = Exponential(backoff, i)
    BY <2>3
  <2> QED BY <2>1, <2>2, <2>4, ExponentialIsExact
<1> QED BY <1>1, ScheduleKept, PTL

-----------------------------------------------------------------------------
\* Trees of frames, each child older than its parent.

Shaped(fs) ==
  /\ fs \in Seq(Frame)
  /\ \A f \in 1..Len(fs) : \A i \in DOMAIN fs[f].children : fs[f].children[i].frame < f

KidsOf(fs, f) == [k \in 1..Len(fs[f].children) |-> fs[f].children[k].frame]

LEMMA FrameFields ==
  ASSUME NEW fs, Shaped(fs), NEW f \in 1..Len(fs)
  PROVE  /\ Len(fs) \in Nat /\ f \in Nat \ {0} /\ fs[f] \in Frame
         /\ fs[f].error \in Nat \ {0}
         /\ fs[f].children \in Seq(Edge) /\ DOMAIN fs[f].children = 1..Len(fs[f].children)
         /\ Len(fs[f].children) \in Nat
<1>1. fs \in Seq(Frame)
  BY DEF Shaped
<1>2. Len(fs) \in Nat /\ f \in Nat \ {0} /\ fs[f] \in Frame
  BY <1>1
<1>3. fs[f].error \in Nat \ {0} /\ fs[f].children \in Seq(Edge)
  BY <1>2 DEF Frame
<1> QED BY <1>2, <1>3

LEMMA KidsType ==
  ASSUME NEW fs, Shaped(fs), NEW f \in 1..Len(fs)
  PROVE  /\ KidsOf(fs, f) \in Seq(1..(f - 1))
         /\ Len(KidsOf(fs, f)) = Len(fs[f].children)
         /\ \A k \in 1..Len(fs[f].children) : KidsOf(fs, f)[k] = fs[f].children[k].frame
<1>1. /\ Len(fs[f].children) \in Nat /\ f \in Nat
      /\ DOMAIN fs[f].children = 1..Len(fs[f].children)
      /\ fs[f].children \in Seq(Edge)
  BY FrameFields
<1>2. ASSUME NEW k \in 1..Len(fs[f].children)
      PROVE  fs[f].children[k].frame \in 1..(f - 1)
  <2>1. fs[f].children[k] \in Edge
    BY <1>1
  <2>2. fs[f].children[k].frame \in Nat \ {0}
    BY <2>1 DEF Edge
  <2>3. fs[f].children[k].frame < f
    BY <1>1 DEF Shaped
  <2> QED BY <1>1, <2>2, <2>3
<1> QED BY <1>1, <1>2 DEF KidsOf

\* What a function with values in W makes of a sequence.
LEMMA MappedType ==
  ASSUME NEW X, NEW W, NEW m \in [X -> W], NEW Y, Y \subseteq X, NEW s \in Seq(Y)
  PROVE  /\ Mapped(m, s) \in Seq(W) /\ Len(Mapped(m, s)) = Len(s)
         /\ \A i \in 1..Len(s) : Mapped(m, s)[i] = m[s[i]]
BY DEF Mapped

\* b has the frames of each tree, parents first.
Walks(fs, b) ==
  b = [n \in 1..Len(fs) |-> <<n>> \o FlattenSeq(Mapped(b, KidsOf(fs, n)))]

LEMMA WalkExists ==
  ASSUME NEW fs, Shaped(fs)
  PROVE  \E b : Walks(fs, b)
<1> DEFINE D == 1..Len(fs)
           V == Seq(D)
           step == [p \in D \X [D -> V] |->
                      <<p[1]>> \o FlattenSeq(Mapped(p[2], KidsOf(fs, p[1])))]
<1>1. Len(fs) \in Nat /\ D \subseteq 0..Len(fs) /\ D \subseteq Nat
  BY DEF Shaped
<1>2. ASSUME NEW k \in D, NEW g \in [D -> V]
      PROVE  step[<<k, g>>] = <<k>> \o FlattenSeq(Mapped(g, KidsOf(fs, k)))
  OBVIOUS
<1>3. ASSUME NEW k \in D, NEW g \in [D -> V] PROVE step[<<k, g>>] \in V
  <2>1. KidsOf(fs, k) \in Seq(1..(k - 1))
    BY KidsType
  <2>2. 1..(k - 1) \subseteq D
    BY <1>1
  <2> HIDE DEF step, D
  <2>3. Mapped(g, KidsOf(fs, k)) \in Seq(V)
    <3> HIDE DEF V
    <3> QED BY <2>1, <2>2, MappedType
  <2>4. FlattenSeq(Mapped(g, KidsOf(fs, k))) \in V
    BY <2>3, FlattenType
  <2>5. <<k>> \in V
    OBVIOUS
  <2>6. <<k>> \o FlattenSeq(Mapped(g, KidsOf(fs, k))) \in V
    BY <2>4, <2>5
  <2> QED BY <1>2, <2>6
<1>4. step \in [D \X [D -> V] -> V]
  <2>1. step = [p \in D \X [D -> V] |-> step[p]]
    OBVIOUS
  <2>2. \A p \in D \X [D -> V] : step[p] \in V
    <3> SUFFICES ASSUME NEW p \in D \X [D -> V] PROVE step[p] \in V
      OBVIOUS
    <3>1. p = <<p[1], p[2]>> /\ p[1] \in D /\ p[2] \in [D -> V]
      OBVIOUS
    <3> HIDE DEF step, D, V
    <3>2. step[<<p[1], p[2]>>] \in V
      BY <1>3, <3>1
    <3> QED BY <3>1, <3>2
  <2> HIDE DEF step
  <2> QED BY <2>1, <2>2
<1>5. ASSUME NEW k \in D, NEW g \in [D -> V], NEW h \in [D -> V],
             \A j \in D : j < k => g[j] = h[j]
      PROVE  step[<<k, g>>] = step[<<k, h>>]
  <2>1. KidsOf(fs, k) \in Seq(1..(k - 1))
    BY KidsType
  <2>2. \A i \in 1..Len(KidsOf(fs, k)) : g[KidsOf(fs, k)[i]] = h[KidsOf(fs, k)[i]]
    <3> SUFFICES ASSUME NEW i \in 1..Len(KidsOf(fs, k))
                 PROVE  g[KidsOf(fs, k)[i]] = h[KidsOf(fs, k)[i]]
      OBVIOUS
    <3>1. KidsOf(fs, k)[i] \in 1..(k - 1)
      BY <2>1
    <3>2. KidsOf(fs, k)[i] \in D /\ KidsOf(fs, k)[i] < k
      BY <1>1, <3>1
    <3> QED BY <1>5, <3>2
  <2>3. Mapped(g, KidsOf(fs, k)) = Mapped(h, KidsOf(fs, k))
    BY <2>2 DEF Mapped
  <2> HIDE DEF step, D, V
  <2> QED BY <1>2, <2>3
<1> HIDE DEF step
<1>6. Determined(D, V, step)
  <2>1. <<>> \in V
    OBVIOUS
  <2> HIDE DEF D, V
  <2> QED BY <1>1, <1>4, <1>5, <2>1 DEF Determined
<1>7. PICK b \in [D -> V] : Solves(b, D, step)
  <2> HIDE DEF D, V
  <2> QED BY <1>6, RecursiveDefinition
<1>8. \A n \in D : b[n] = <<n>> \o FlattenSeq(Mapped(b, KidsOf(fs, n)))
  <2> HIDE DEF D, V
  <2> QED BY <1>2, <1>7 DEF Solves
<1>9. Walks(fs, b)
  BY <1>7, <1>8 DEF Walks
<1> QED BY <1>9

\* The trees of the frames, as a function.
PreorderOf(fs) == [f \in 1..Len(fs) |-> Preorder(fs, f)]

LEMMA PreorderWalks ==
  ASSUME NEW fs, Shaped(fs)
  PROVE  Walks(fs, PreorderOf(fs))
<1> DEFINE Is(b) == b = [n \in 1..Len(fs) |->
                           LET kids == fs[n].children
                           IN  <<n>> \o FlattenSeq([k \in DOMAIN kids |-> b[kids[k].frame]])]
           c == CHOOSE b : Is(b)
<1>1. ASSUME NEW b, NEW n \in 1..Len(fs)
      PROVE  [k \in DOMAIN fs[n].children |-> b[fs[n].children[k].frame]]
               = Mapped(b, KidsOf(fs, n))
  <2>1. DOMAIN fs[n].children = 1..Len(fs[n].children)
    BY FrameFields
  <2>2. /\ Len(KidsOf(fs, n)) = Len(fs[n].children)
        /\ \A k \in 1..Len(fs[n].children) : KidsOf(fs, n)[k] = fs[n].children[k].frame
    BY KidsType
  <2> QED BY <2>1, <2>2 DEF Mapped
<1>2. \A b : Is(b) <=> Walks(fs, b)
  BY <1>1 DEF Walks
<1>3. \A f \in 1..Len(fs) : Preorder(fs, f) = c[f]
  BY DEF Preorder
<1> HIDE DEF Is
<1>4. Is(c)
  <2>1. \E b : Is(b)
    BY <1>2, WalkExists
  <2> QED BY <2>1
<1> HIDE DEF c
<1>5. c = [f \in 1..Len(fs) |-> c[f]]
  <2>1. Walks(fs, c)
    BY <1>2, <1>4
  <2> QED BY <2>1 DEF Walks
<1>6. PreorderOf(fs) = c
  BY <1>3, <1>5 DEF PreorderOf
<1> QED BY <1>2, <1>4, <1>6

\* A tree has its root first, and then the trees of the children; all of them are
\* older.
LEMMA PreorderType ==
  ASSUME NEW fs, Shaped(fs), NEW f \in 1..Len(fs)
  PROVE  Preorder(fs, f) \in Seq(1..f)
<1> DEFINE b == PreorderOf(fs)
           S == {m \in Nat : \A n \in 1..Len(fs) : n <= m => b[n] \in Seq(1..n)}
<1>1. \A n \in 1..Len(fs) : n \in Nat /\ n >= 1
  OBVIOUS
<1> HIDE DEF b
<1>2. 0 \in S
  BY <1>1
<1>3. ASSUME NEW m \in Nat, m \in S PROVE m + 1 \in S
  <2> SUFFICES ASSUME NEW n \in 1..Len(fs), n <= m + 1 PROVE b[n] \in Seq(1..n)
    OBVIOUS
  <2>1. b[n] = <<n>> \o FlattenSeq(Mapped(b, KidsOf(fs, n)))
    BY PreorderWalks DEF Walks, b
  <2>2. KidsOf(fs, n) \in Seq(1..(n - 1)) /\ Len(fs) \in Nat
    BY KidsType, FrameFields
  <2>3. ASSUME NEW j \in 1..(n - 1) PROVE b[j] \in Seq(1..n)
    <3>1. j \in 1..Len(fs) /\ j <= m
      BY <1>1, <2>2
    <3>2. b[j] \in Seq(1..j)
      BY <1>3, <3>1
    <3>3. 1..j \subseteq 1..n
      BY <1>1
    <3> QED BY <3>2, <3>3
  <2>4. Mapped(b, KidsOf(fs, n)) \in Seq(Seq(1..n))
    BY <2>2, <2>3 DEF Mapped
  <2>5. FlattenSeq(Mapped(b, KidsOf(fs, n))) \in Seq(1..n)
    BY <2>4, FlattenType
  <2>6. <<n>> \in Seq(1..n)
    BY <1>1
  <2> QED BY <2>1, <2>5, <2>6
<1>4. Nat \subseteq S
  <2> HIDE DEF S
  <2> QED BY <1>2, <1>3, ByInduction
<1>5. b[f] \in Seq(1..f)
  BY <1>1, <1>4
<1> QED BY <1>5 DEF b, PreorderOf

LEMMA PreorderIs ==
  ASSUME NEW fs, Shaped(fs), NEW f \in 1..Len(fs)
  PROVE  Preorder(fs, f) = <<f>> \o FlattenSeq(Mapped(PreorderOf(fs), KidsOf(fs, f)))
BY PreorderWalks DEF Walks, PreorderOf

\* A tree stays as it is while its frames keep their children.
LEMMA PreorderStable ==
  ASSUME NEW fs, NEW gs, Shaped(fs), Shaped(gs), NEW n \in Nat, n <= Len(fs), n <= Len(gs),
         \A f \in 1..n : gs[f].children = fs[f].children
  PROVE  \A f \in 1..n : Preorder(gs, f) = Preorder(fs, f)
<1> DEFINE a == PreorderOf(fs)
           b == PreorderOf(gs)
           S == {m \in Nat : \A f \in 1..n : f <= m => b[f] = a[f]}
<1>0. Len(fs) \in Nat /\ Len(gs) \in Nat /\ 1..n \subseteq 1..Len(fs) /\ 1..n \subseteq 1..Len(gs)
  BY DEF Shaped
<1>1. 0 \in S
  OBVIOUS
<1>2. ASSUME NEW m \in Nat, m \in S PROVE m + 1 \in S
  <2> SUFFICES ASSUME NEW f \in 1..n, f <= m + 1 PROVE b[f] = a[f]
    OBVIOUS
  <2>1. /\ a[f] = <<f>> \o FlattenSeq(Mapped(a, KidsOf(fs, f)))
        /\ b[f] = <<f>> \o FlattenSeq(Mapped(b, KidsOf(gs, f)))
    BY <1>0, PreorderWalks DEF Walks
  <2> HIDE DEF a, b
  <2>2. KidsOf(gs, f) = KidsOf(fs, f)
    BY DEF KidsOf
  <2>3. KidsOf(fs, f) \in Seq(1..(f - 1))
    BY <1>0, KidsType
  <2>4. ASSUME NEW i \in 1..Len(KidsOf(fs, f))
        PROVE  b[KidsOf(fs, f)[i]] = a[KidsOf(fs, f)[i]]
    <3>1. KidsOf(fs, f)[i] \in 1..(f - 1)
      BY <2>3
    <3>2. KidsOf(fs, f)[i] \in 1..n /\ KidsOf(fs, f)[i] <= m
      BY <3>1
    <3> QED BY <1>2, <3>2
  <2>5. Mapped(b, KidsOf(fs, f)) = Mapped(a, KidsOf(fs, f))
    BY <2>4 DEF Mapped
  <2> QED BY <2>1, <2>2, <2>5
<1>3. Nat \subseteq S
  <2> HIDE DEF S
  <2> QED BY <1>1, <1>2, ByInduction
<1>4. \A f \in 1..n : b[f] = a[f]
  BY <1>3
<1> QED BY <1>0, <1>4 DEF PreorderOf

\* What a tree says: the errors of its frames.
ErrorOf(fs)   == [f \in 1..Len(fs) |-> fs[f].error]
Says(fs, f)   == Mapped(ErrorOf(fs), Preorder(fs, f))
SaysOf(fs)    == [f \in 1..Len(fs) |-> Says(fs, f)]

LEMMA SaysType ==
  ASSUME NEW fs, Shaped(fs), NEW f \in 1..Len(fs)
  PROVE  /\ Says(fs, f) \in Seq(Nat)
         /\ Len(Says(fs, f)) = Len(Preorder(fs, f))
         /\ \A n \in Nat : (\A g \in 1..Len(fs) : fs[g].error \in 1..n) => Says(fs, f) \in Seq(1..n)
<1>1. Preorder(fs, f) \in Seq(1..f) /\ 1..f \subseteq 1..Len(fs)
  BY PreorderType, FrameFields
<1>2. ASSUME NEW W, \A g \in 1..Len(fs) : fs[g].error \in W
      PROVE  Says(fs, f) \in Seq(W) /\ Len(Says(fs, f)) = Len(Preorder(fs, f))
  <2>1. ErrorOf(fs) \in [1..Len(fs) -> W]
    BY <1>2 DEF ErrorOf
  <2>2. Mapped(ErrorOf(fs), Preorder(fs, f)) \in Seq(W)
        /\ Len(Mapped(ErrorOf(fs), Preorder(fs, f))) = Len(Preorder(fs, f))
    <3> DEFINE p == Preorder(fs, f)
    <3>1. p \in Seq(1..Len(fs))
      BY <1>1
    <3> HIDE DEF p
    <3>2. Mapped(ErrorOf(fs), p) \in Seq(W) /\ Len(Mapped(ErrorOf(fs), p)) = Len(p)
      BY <2>1, <3>1 DEF Mapped
    <3> QED BY <3>2 DEF p
  <2> QED BY <2>2 DEF Says
<1>3. \A g \in 1..Len(fs) : fs[g].error \in Nat
  BY FrameFields
<1>4. Says(fs, f) \in Seq(Nat) /\ Len(Says(fs, f)) = Len(Preorder(fs, f))
  BY <1>2, <1>3
<1> QED BY <1>2, <1>4

\* A tree says the error of its root, then what its children say.
LEMMA SaysIs ==
  ASSUME NEW fs, Shaped(fs), NEW f \in 1..Len(fs)
  PROVE  Says(fs, f) = <<fs[f].error>> \o FlattenSeq(Mapped(SaysOf(fs), KidsOf(fs, f)))
<1> DEFINE D == 1..Len(fs)
           m == ErrorOf(fs)
           kids == KidsOf(fs, f)
           trees == Mapped(PreorderOf(fs), kids)
<1>1. kids \in Seq(1..(f - 1)) /\ 1..(f - 1) \subseteq D /\ f \in D
  BY KidsType, FrameFields
<1>2. PreorderOf(fs) \in [D -> Seq(D)]
  <2>1. \A g \in 1..Len(fs) : Preorder(fs, g) \in Seq(1..Len(fs))
    <3> SUFFICES ASSUME NEW g \in 1..Len(fs) PROVE Preorder(fs, g) \in Seq(1..Len(fs))
      OBVIOUS
    <3>1. Preorder(fs, g) \in Seq(1..g) /\ 1..g \subseteq 1..Len(fs)
      BY PreorderType, FrameFields
    <3> QED BY <3>1
  <2> QED BY <2>1 DEF PreorderOf
<1> HIDE DEF D, kids
<1>3. /\ trees \in Seq(Seq(D)) /\ Len(trees) = Len(kids)
      /\ \A i \in 1..Len(kids) : trees[i] = PreorderOf(fs)[kids[i]]
  <2> DEFINE P == PreorderOf(fs)
  <2>1. kids \in Seq(D) /\ P \in [D -> Seq(D)]
    BY <1>1, <1>2
  <2> HIDE DEF P
  <2> QED BY <2>1 DEF Mapped, P
<1>4. Says(fs, f) = Mapped(m, <<f>> \o FlattenSeq(trees))
  BY PreorderIs DEF Says, kids
<1> HIDE DEF m, trees
<1>5. Mapped(m, <<f>> \o FlattenSeq(trees)) = Mapped(m, <<f>>) \o Mapped(m, FlattenSeq(trees))
  <2>1. FlattenSeq(trees) \in Seq(D) /\ <<f>> \in Seq(D)
    BY <1>1, <1>3, FlattenType
  <2>2. \A s, t \in Seq(D) : Mapped(m, s \o t) = Mapped(m, s) \o Mapped(m, t)
    BY MappedConcat
  <2> QED BY <2>1, <2>2
<1>6. Mapped(m, FlattenSeq(trees)) = FlattenSeq([i \in 1..Len(trees) |-> Mapped(m, trees[i])])
  <2>1. \A ss \in Seq(Seq(D)) :
          Mapped(m, FlattenSeq(ss)) = FlattenSeq([i \in 1..Len(ss) |-> Mapped(m, ss[i])])
    BY MappedFlatten
  <2> QED BY <1>3, <2>1
<1>7. [i \in 1..Len(trees) |-> Mapped(m, trees[i])] = Mapped(SaysOf(fs), kids)
  <2>1. \A i \in 1..Len(kids) : Mapped(m, trees[i]) = SaysOf(fs)[kids[i]]
    <3> SUFFICES ASSUME NEW i \in 1..Len(kids) PROVE Mapped(m, trees[i]) = SaysOf(fs)[kids[i]]
      OBVIOUS
    <3>1. kids[i] \in D
      BY <1>1
    <3>2. trees[i] = Preorder(fs, kids[i])
      BY <1>3, <3>1 DEF PreorderOf, D
    <3>3. SaysOf(fs)[kids[i]] = Says(fs, kids[i])
      BY <3>1 DEF SaysOf, D
    <3> QED BY <3>2, <3>3 DEF Says, m
  <2> QED BY <1>3, <2>1 DEF Mapped
<1>8. Mapped(m, <<f>>) = <<fs[f].error>>
  <2>1. m[f] = fs[f].error
    BY DEF m, ErrorOf
  <2> QED BY <2>1 DEF Mapped
<1> QED BY <1>4, <1>5, <1>6, <1>7, <1>8 DEF kids

\* gs is like fs up to n.
Alike(fs, gs, n) ==
  /\ n \in Nat /\ n <= Len(fs) /\ n <= Len(gs)
  /\ \A f \in 1..n : gs[f].children = fs[f].children /\ gs[f].error = fs[f].error

LEMMA SaysStable ==
  ASSUME NEW fs, NEW gs, NEW n, Shaped(fs), Shaped(gs), Alike(fs, gs, n)
  PROVE  \A f \in 1..n : Preorder(gs, f) = Preorder(fs, f) /\ Says(gs, f) = Says(fs, f)
<1>1. n \in Nat /\ n <= Len(fs) /\ n <= Len(gs)
  BY DEF Alike
<1>2. \A f \in 1..n : Preorder(gs, f) = Preorder(fs, f)
  <2>1. \A f \in 1..n : gs[f].children = fs[f].children
    BY DEF Alike
  <2> QED BY <1>1, <2>1, PreorderStable
<1>3. ASSUME NEW f \in 1..n PROVE Says(gs, f) = Says(fs, f)
  <2>1. Len(fs) \in Nat /\ Len(gs) \in Nat /\ f \in 1..Len(fs) /\ f \in 1..Len(gs)
    BY <1>1 DEF Shaped
  <2>2. Preorder(fs, f) \in Seq(1..f)
    BY <2>1, PreorderType
  <2>3. \A i \in 1..Len(Preorder(fs, f)) :
          ErrorOf(gs)[Preorder(fs, f)[i]] = ErrorOf(fs)[Preorder(fs, f)[i]]
    <3> SUFFICES ASSUME NEW i \in 1..Len(Preorder(fs, f))
                 PROVE  ErrorOf(gs)[Preorder(fs, f)[i]] = ErrorOf(fs)[Preorder(fs, f)[i]]
      OBVIOUS
    <3>1. Preorder(fs, f)[i] \in 1..f
      BY <2>2
    <3>2. Preorder(fs, f)[i] \in 1..n
      BY <1>1, <3>1
    <3>3. Preorder(fs, f)[i] \in 1..Len(fs) /\ Preorder(fs, f)[i] \in 1..Len(gs)
      BY <1>1, <2>1, <3>2
    <3> QED BY <3>2, <3>3 DEF ErrorOf, Alike
  <2>4. Mapped(ErrorOf(gs), Preorder(fs, f)) = Mapped(ErrorOf(fs), Preorder(fs, f))
    BY <2>3 DEF Mapped
  <2>5. Preorder(gs, f) = Preorder(fs, f)
    BY <1>2
  <2> QED BY <2>4, <2>5 DEF Says
<1> QED BY <1>2, <1>3

-----------------------------------------------------------------------------
\* Frames are made.

Chains == Seq(Nat \ {0})

\* The frames of a chain come after those there are; each but the first has the one
\* before it as its child.
LEMMA LinkedFrames ==
  ASSUME NEW fs, Shaped(fs), NEW chain \in Chains, chain # <<>>,
         NEW gs, gs = Linked(fs, chain)
  PROVE  /\ Shaped(gs) /\ Len(gs) = Len(fs) + Len(chain)
         /\ \A f \in 1..Len(fs) : gs[f] = fs[f]
         /\ \A i \in 1..Len(chain) :
              /\ gs[Len(fs) + i].error = chain[Len(chain) - i + 1]
              /\ gs[Len(fs) + i].children =
                   IF i = 1 THEN <<>> ELSE <<[kind |-> "source", frame |-> Len(fs) + i - 1]>>
<1> DEFINE n == Len(fs)
           k == Len(chain)
           link(i) == [error |-> chain[k - i + 1], context |-> 0, attachments |-> <<>>,
                       children |-> IF i = 1 THEN <<>>
                                    ELSE <<[kind |-> "source", frame |-> n + i - 1]>>]
           links == [i \in 1..k |-> link(i)]
<1>1. n \in Nat /\ k \in Nat \ {0} /\ fs \in Seq(Frame)
  BY DEF Shaped, Chains
<1>2. ASSUME NEW i \in 1..k PROVE link(i) \in Frame
  <2>1. chain[k - i + 1] \in Nat \ {0}
    <3>1. k - i + 1 \in 1..k
      BY <1>1
    <3> QED BY <3>1 DEF Chains
  <2>2. i # 1 => [kind |-> "source", frame |-> n + i - 1] \in Edge
    BY <1>1 DEF Edge, Kinds
  <2>3. (IF i = 1 THEN <<>> ELSE <<[kind |-> "source", frame |-> n + i - 1]>>) \in Seq(Edge)
    BY <2>2
  <2>4. 0 \in Nat /\ <<>> \in Seq(Nat)
    OBVIOUS
  <2> QED BY <2>1, <2>3, <2>4 DEF Frame
<1> HIDE DEF link
<1>3. links \in Seq(Frame) /\ Len(links) = k /\ \A i \in 1..k : links[i] = link(i)
  BY <1>1, <1>2
<1>4. gs = fs \o links
  BY DEF Linked, link
<1> HIDE DEF links
<1>5. /\ gs \in Seq(Frame) /\ Len(gs) = n + k
      /\ \A f \in 1..n : gs[f] = fs[f]
      /\ \A i \in 1..k : gs[n + i] = link(i)
  <2>1. /\ fs \o links \in Seq(Frame) /\ Len(fs \o links) = Len(fs) + Len(links)
        /\ \A i \in 1..Len(fs) : (fs \o links)[i] = fs[i]
        /\ \A i \in 1..Len(links) : (fs \o links)[Len(fs) + i] = links[i]
    <3>1. fs \in Seq(Frame) /\ links \in Seq(Frame)
      BY <1>1, <1>3
    <3> HIDE DEF n, k
    <3> QED BY ONLY <3>1, Concat
  <2> QED BY <1>3, <1>4, <2>1
<1>6. \A i \in 1..k :
        /\ gs[n + i].error = chain[k - i + 1]
        /\ gs[n + i].children = IF i = 1 THEN <<>> ELSE <<[kind |-> "source", frame |-> n + i - 1]>>
  <2>1. \A i : /\ link(i).error = chain[k - i + 1]
               /\ link(i).children = IF i = 1 THEN <<>>
                                     ELSE <<[kind |-> "source", frame |-> n + i - 1]>>
    BY DEF link
  <2> QED BY <1>5, <2>1
<1>7. ASSUME NEW f \in 1..Len(gs), NEW i \in DOMAIN gs[f].children
      PROVE  gs[f].children[i].frame < f
  <2>1. CASE f \in 1..n
    <3>1. gs[f] = fs[f]
      BY <1>5, <2>1
    <3> QED BY <2>1, <3>1 DEF Shaped
  <2>2. CASE f \notin 1..n
    <3>1. f - n \in 1..k /\ n + (f - n) = f
      BY <1>1, <1>5, <2>2
    <3>2. gs[f].children = IF f - n = 1 THEN <<>>
                           ELSE <<[kind |-> "source", frame |-> n + (f - n) - 1]>>
      BY <1>6, <3>1
    <3>3. CASE f - n = 1
      BY <3>2, <3>3
    <3>4. CASE f - n # 1
      <4>1. gs[f].children = <<[kind |-> "source", frame |-> f - 1]>>
        BY <1>1, <3>1, <3>2, <3>4
      <4>2. i = 1
        BY <4>1
      <4>3. gs[f].children[i].frame = f - 1
        BY <4>1, <4>2
      <4> QED BY <1>1, <1>5, <4>3
    <3> QED BY <3>3, <3>4
  <2> QED BY <2>1, <2>2
<1>8. Shaped(gs)
  BY <1>5, <1>7 DEF Shaped
<1> QED BY <1>5, <1>6, <1>8

LEMMA KidsOfNone ==
  ASSUME NEW fs, NEW f, fs[f].children = <<>>
  PROVE  KidsOf(fs, f) = <<>>
BY DEF KidsOf

LEMMA KidsOfOne ==
  ASSUME NEW fs, NEW f, NEW kind, NEW c, fs[f].children = <<[kind |-> kind, frame |-> c]>>
  PROVE  KidsOf(fs, f) = <<c>>
<1>1. Len(fs[f].children) = 1 /\ fs[f].children[1].frame = c
  OBVIOUS
<1>2. KidsOf(fs, f) = [k \in 1..1 |-> c]
  BY <1>1 DEF KidsOf
<1> QED BY <1>2

LEMMA MappedOne ==
  ASSUME NEW m, NEW c
  PROVE  Mapped(m, <<c>>) = <<m[c]>> /\ Mapped(m, <<>>) = <<>>
BY DEF Mapped

LEMMA SaysAlone ==
  ASSUME NEW fs, Shaped(fs), NEW f \in 1..Len(fs), fs[f].children = <<>>
  PROVE  Says(fs, f) = <<fs[f].error>>
<1>1. Says(fs, f) = <<fs[f].error>> \o FlattenSeq(<<>>)
  <2>1. KidsOf(fs, f) = <<>>
    BY KidsOfNone
  <2>2. Mapped(SaysOf(fs), <<>>) = <<>>
    BY DEF Mapped
  <2>3. Says(fs, f) = <<fs[f].error>> \o FlattenSeq(Mapped(SaysOf(fs), KidsOf(fs, f)))
    BY SaysIs
  <2> QED BY <2>1, <2>2, <2>3
<1>2. <<fs[f].error>> \o <<>> = <<fs[f].error>>
  OBVIOUS
<1> QED BY <1>1, <1>2, FlattenEmpty

LEMMA SaysWithOne ==
  ASSUME NEW fs, Shaped(fs), NEW f \in 1..Len(fs), NEW kind, NEW c \in 1..Len(fs),
         fs[f].children = <<[kind |-> kind, frame |-> c]>>
  PROVE  Says(fs, f) = <<fs[f].error>> \o Says(fs, c)
<1>1. Says(fs, f) = <<fs[f].error>> \o FlattenSeq(<<SaysOf(fs)[c]>>)
  <2>1. KidsOf(fs, f) = <<c>>
    BY KidsOfOne
  <2>2. Mapped(SaysOf(fs), <<c>>) = <<SaysOf(fs)[c]>>
    BY MappedOne
  <2> QED BY <2>1, <2>2, SaysIs
<1>2. SaysOf(fs)[c] = Says(fs, c)
  BY DEF SaysOf
<1>3. Says(fs, c) \in Seq(Nat)
  BY SaysType
<1>4. FlattenSeq(<<Says(fs, c)>>) = Says(fs, c)
  BY <1>3, FlattenOne
<1> QED BY <1>1, <1>2, <1>4

\* One element more at the front of the last i of chain.
LEMMA LongerEnd ==
  ASSUME NEW chain \in Chains, NEW i \in Nat, i + 1 <= Len(chain), i >= 1
  PROVE  <<chain[Len(chain) - i]>> \o [j \in 1..i |-> chain[Len(chain) - i + j]]
           = [j \in 1..(i + 1) |-> chain[Len(chain) - (i + 1) + j]]
<1> DEFINE n == Len(chain)
           a == [j \in 1..i |-> chain[n - i + j]]
           b == [j \in 1..(i + 1) |-> chain[n - (i + 1) + j]]
           c == <<chain[n - i]>>
<1>1. n \in Nat /\ \A j \in 1..n : chain[j] \in Nat
  BY DEF Chains
<1>2. /\ a \in Seq(Nat) /\ Len(a) = i /\ \A j \in 1..i : a[j] = chain[n - i + j]
  <2>1. \A j \in 1..i : n - i + j \in 1..n
    BY <1>1
  <2> QED BY <1>1, <2>1
<1>3. /\ b \in Seq(Nat) /\ Len(b) = i + 1
      /\ \A j \in 1..(i + 1) : b[j] = chain[n - (i + 1) + j]
  <2>1. \A j \in 1..(i + 1) : n - (i + 1) + j \in 1..n
    BY <1>1
  <2> QED BY <1>1, <2>1
<1>4. c \in Seq(Nat) /\ Len(c) = 1 /\ c[1] = chain[n - i]
  BY <1>1
<1> HIDE DEF a, b, c
<1>5. /\ c \o a \in Seq(Nat) /\ Len(c \o a) = i + 1
      /\ (c \o a)[1] = c[1]
      /\ \A j \in 2..(i + 1) : (c \o a)[j] = a[j - 1]
  <2> DEFINE d == c \o a
  <2>1. /\ d \in Seq(Nat) /\ Len(d) = Len(c) + Len(a)
        /\ \A j \in 1..Len(c) : d[j] = c[j]
        /\ \A j \in 1..Len(a) : d[Len(c) + j] = a[j]
    <3>1. a \in Seq(Nat) /\ c \in Seq(Nat)
      BY <1>2, <1>4
    <3> QED BY ONLY <3>1, Concat
  <2> HIDE DEF d
  <2>2. d \in Seq(Nat) /\ Len(d) = i + 1 /\ d[1] = c[1]
    BY <1>2, <1>4, <2>1
  <2>3. ASSUME NEW j \in 2..(i + 1) PROVE d[j] = a[j - 1]
    <3>1. j - 1 \in 1..Len(a) /\ Len(c) + (j - 1) = j
      BY <1>2, <1>4
    <3> QED BY <2>1, <3>1
  <2> QED BY <2>2, <2>3 DEF d
<1>6. ASSUME NEW j \in 1..(i + 1) PROVE (c \o a)[j] = b[j]
  <2>1. CASE j = 1
    <3>1. n - (i + 1) + 1 = n - i
      BY <1>1
    <3> QED BY <1>3, <1>4, <1>5, <2>1, <3>1
  <2>2. CASE j # 1
    <3>1. j \in 2..(i + 1) /\ j - 1 \in 1..i /\ n - i + (j - 1) = n - (i + 1) + j
      BY <1>1, <2>2
    <3> QED BY <1>2, <1>3, <1>5, <3>1
  <2> QED BY <2>1, <2>2
<1>7. c \o a = b
  BY <1>3, <1>5, <1>6, SeqEqual
<1> QED BY <1>7 DEF a, b, c

\* The frames of a chain say the chain.
LEMMA LinkedSays ==
  ASSUME NEW fs, Shaped(fs), NEW chain \in Chains, chain # <<>>,
         NEW gs, gs = Linked(fs, chain)
  PROVE  Says(gs, Len(gs)) = chain
<1> DEFINE n == Len(fs)
           k == Len(chain)
           end(i) == [j \in 1..i |-> chain[k - i + j]]
           S == {i \in Nat : i \in 1..k => Says(gs, n + i) = end(i)}
<1>1. /\ n \in Nat /\ k \in Nat \ {0} /\ chain \in Seq(Nat \ {0})
      /\ Shaped(gs) /\ Len(gs) = n + k
      /\ \A i \in 1..k :
           /\ gs[n + i].error = chain[k - i + 1]
           /\ gs[n + i].children = IF i = 1 THEN <<>>
                                   ELSE <<[kind |-> "source", frame |-> n + i - 1]>>
  <2>1. n \in Nat /\ k \in Nat \ {0} /\ chain \in Seq(Nat \ {0})
    BY DEF Shaped, Chains
  <2> QED BY <2>1, LinkedFrames
<1>2. 0 \in S
  OBVIOUS
<1>3. ASSUME NEW i \in Nat, i \in S PROVE i + 1 \in S
  <2> SUFFICES ASSUME i + 1 \in 1..k PROVE Says(gs, n + (i + 1)) = end(i + 1)
    OBVIOUS
  <2>1. CASE i = 0
    <3>1. /\ n + 1 \in 1..Len(gs) /\ gs[n + 1].children = <<>>
          /\ gs[n + 1].error = chain[k]
      <4>1. 1 \in 1..k /\ n + 1 \in 1..(n + k) /\ k - 1 + 1 = k
        BY <1>1
      <4>2. gs[n + 1].error = chain[k - 1 + 1] /\ gs[n + 1].children = <<>>
        BY <1>1, <4>1
      <4> QED BY <1>1, <4>1, <4>2
    <3>2. Says(gs, n + 1) = <<chain[k]>>
      BY <1>1, <3>1, SaysAlone
    <3>3. end(1) = <<chain[k]>>
      BY <1>1
    <3> QED BY <2>1, <3>2, <3>3
  <2>2. CASE i # 0
    <3>1. /\ i \in 1..k /\ n + (i + 1) \in 1..Len(gs) /\ n + i \in 1..Len(gs)
          /\ n + (i + 1) - 1 = n + i /\ k - (i + 1) + 1 = k - i /\ i + 1 # 1
      BY <1>1, <2>2
    <3>2. /\ gs[n + (i + 1)].error = chain[k - i]
          /\ gs[n + (i + 1)].children = <<[kind |-> "source", frame |-> n + i]>>
      BY <1>1, <3>1
    <3>3. Says(gs, n + (i + 1)) = <<chain[k - i]>> \o Says(gs, n + i)
      <4> DEFINE f == n + (i + 1)
                 c == n + i
      <4>1. /\ Shaped(gs) /\ f \in 1..Len(gs) /\ c \in 1..Len(gs)
            /\ gs[f].children = <<[kind |-> "source", frame |-> c]>>
        BY <1>1, <3>1, <3>2
      <4> HIDE DEF f, c
      <4>2. Says(gs, f) = <<gs[f].error>> \o Says(gs, c)
        BY <4>1, SaysWithOne
      <4> QED BY <3>2, <4>2 DEF f, c
    <3>4. Says(gs, n + i) = end(i)
      BY <1>3, <3>1
    <3>5. <<chain[k - i]>> \o end(i) = end(i + 1)
      BY <1>1, <2>2, LongerEnd
    <3> QED BY <3>3, <3>4, <3>5
  <2> QED BY <2>1, <2>2
<1>4. Nat \subseteq S
  <2> HIDE DEF S
  <2> QED BY <1>2, <1>3, ByInduction
<1>5. k \in 1..k
  BY <1>1
<1>6. Says(gs, Len(gs)) = end(k)
  BY <1>1, <1>4, <1>5
<1>7. end(k) = chain
  BY <1>1
<1> QED BY <1>6, <1>7

\* The edges that a root gets for the frames it adopts.
Edges(kind, kids) == [i \in 1..Len(kids) |-> [kind |-> kind, frame |-> kids[i]]]

\* Further children of the last frame; older frames stay as they are.
LEMMA AdoptedFrames ==
  ASSUME NEW gs, Shaped(gs), Len(gs) # 0, NEW kind \in Kinds,
         NEW kids \in Seq(1..(Len(gs) - 1)),
         NEW hs, hs = Adopted(gs, kind, kids)
  PROVE  /\ Shaped(hs) /\ Len(hs) = Len(gs)
         /\ \A f \in 1..(Len(gs) - 1) : hs[f] = gs[f]
         /\ hs[Len(gs)].error = gs[Len(gs)].error
         /\ hs[Len(gs)].children = gs[Len(gs)].children \o Edges(kind, kids)
         /\ KidsOf(hs, Len(gs)) = KidsOf(gs, Len(gs)) \o kids
<1> DEFINE n == Len(gs)
           old == gs[n].children
           new == [i \in 1..Len(kids) |-> [kind |-> kind, frame |-> kids[i]]]
<1>1. n \in Nat \ {0} /\ n \in 1..n /\ gs \in Seq(Frame) /\ DOMAIN gs = 1..n
  BY DEF Shaped
<1>2. gs[n] \in Frame /\ old \in Seq(Edge) /\ DOMAIN old = 1..Len(old) /\ Len(old) \in Nat
  BY <1>1, FrameFields
<1>3. new \in Seq(Edge) /\ Len(new) = Len(kids) /\ \A i \in 1..Len(kids) : new[i].frame = kids[i]
  <2>1. \A i \in 1..Len(kids) : kids[i] \in Nat \ {0}
    BY <1>1
  <2>2. \A i \in 1..Len(kids) : [kind |-> kind, frame |-> kids[i]] \in Edge
    BY <2>1 DEF Edge
  <2> QED BY <2>2
<1>4. kids \in Seq(1..(n - 1)) /\ Len(kids) \in Nat /\ DOMAIN kids = 1..Len(kids)
  OBVIOUS
<1>5. hs = [gs EXCEPT ![n].children = old \o new]
  BY <1>1, <1>4 DEF Adopted
<1>6. /\ old \o new \in Seq(Edge) /\ Len(old \o new) = Len(old) + Len(kids)
      /\ \A i \in 1..Len(old) : (old \o new)[i] = old[i]
      /\ \A i \in 1..Len(kids) : (old \o new)[Len(old) + i] = new[i]
  <2> HIDE DEF old, new
  <2>1. old \in Seq(Edge) /\ new \in Seq(Edge)
    BY <1>2, <1>3
  <2>2. /\ old \o new \in Seq(Edge) /\ Len(old \o new) = Len(old) + Len(new)
        /\ \A i \in 1..Len(old) : (old \o new)[i] = old[i]
        /\ \A i \in 1..Len(new) : (old \o new)[Len(old) + i] = new[i]
    BY ONLY <2>1, Concat
  <2> QED BY <1>3, <2>2
<1> HIDE DEF new
<1>7. [gs[n] EXCEPT !.children = old \o new] \in Frame
  <2> DEFINE now == old \o new
  <2>1. now \in Seq(Edge)
    BY <1>6
  <2> HIDE DEF now
  <2>2. [gs[n] EXCEPT !.children = now] \in Frame
    BY <1>2, <2>1, Zenon DEF Frame
  <2> QED BY <2>2 DEF now
<1>8. /\ hs \in Seq(Frame) /\ Len(hs) = n
      /\ \A f \in 1..n : f # n => hs[f] = gs[f]
      /\ hs[n] = [gs[n] EXCEPT !.children = old \o new]
  <2> DEFINE now == [gs[n] EXCEPT !.children = old \o new]
  <2>1. hs = [gs EXCEPT ![n] = now]
    BY <1>5
  <2>2. now \in Frame
    BY <1>7
  <2> HIDE DEF now
  <2>3. hs \in Seq(Frame) /\ Len(hs) = n /\ (\A f \in 1..n : f # n => hs[f] = gs[f]) /\ hs[n] = now
    BY <1>1, <2>1, <2>2
  <2> QED BY <2>3 DEF now
<1>9. hs[n].error = gs[n].error /\ hs[n].children = old \o new
  <2> DEFINE now == old \o new
  <2> HIDE DEF now
  <2>1. [gs[n] EXCEPT !.children = now].error = gs[n].error
    BY <1>2 DEF Frame
  <2>2. [gs[n] EXCEPT !.children = now].children = now
    BY <1>2 DEF Frame
  <2> QED BY <1>8, <2>1, <2>2 DEF now
<1>10. \A f \in 1..(n - 1) : hs[f] = gs[f]
  BY <1>1, <1>8
<1>11. \A i \in 1..(Len(old) + Len(kids)) :
         i \in 1..Len(old) \/ (i - Len(old) \in 1..Len(kids) /\ Len(old) + (i - Len(old)) = i)
  BY <1>2, <1>4
<1>12. ASSUME NEW f \in 1..Len(hs), NEW i \in DOMAIN hs[f].children
       PROVE  hs[f].children[i].frame < f
  <2>1. CASE f # n
    <3>1. hs[f] = gs[f] /\ f \in 1..Len(gs)
      BY <1>8, <2>1
    <3> QED BY <3>1 DEF Shaped
  <2>2. CASE f = n
    <3>1. hs[f].children = old \o new /\ i \in 1..(Len(old) + Len(kids))
      <4>1. hs[f].children = old \o new
        BY <1>9, <2>2
      <4>2. DOMAIN (old \o new) = 1..(Len(old) + Len(kids))
        BY <1>6
      <4> QED BY <4>1, <4>2
    <3>2. CASE i \in 1..Len(old)
      <4>1. hs[f].children[i] = old[i]
        BY <1>6, <3>1, <3>2
      <4>2. old[i].frame < n
        BY <1>1, <1>2, <3>2 DEF Shaped
      <4> QED BY <2>2, <4>1, <4>2
    <3>3. CASE i - Len(old) \in 1..Len(kids) /\ Len(old) + (i - Len(old)) = i
      <4>1. hs[f].children[i] = new[i - Len(old)]
        BY <1>6, <3>1, <3>3
      <4>2. new[i - Len(old)].frame = kids[i - Len(old)]
        BY <1>3, <3>3
      <4>3. kids[i - Len(old)] \in 1..(n - 1)
        BY <1>4, <3>3
      <4> QED BY <1>1, <2>2, <4>1, <4>2, <4>3
    <3> QED BY <1>11, <3>1, <3>2, <3>3
  <2> QED BY <2>1, <2>2
<1>13. Shaped(hs)
  BY <1>8, <1>12 DEF Shaped
<1>14. KidsOf(hs, n) = KidsOf(gs, n) \o kids
  <2> DEFINE a == KidsOf(gs, n)
             b == KidsOf(hs, n)
             X == 1..(n - 1)
  <2>1. /\ a \in Seq(X) /\ Len(a) = Len(old)
        /\ \A i \in 1..Len(old) : a[i] = old[i].frame
    BY <1>1, KidsType
  <2>2. /\ b \in Seq(X) /\ Len(b) = Len(old) + Len(kids)
        /\ \A i \in 1..(Len(old) + Len(kids)) : b[i] = (old \o new)[i].frame
    <3>1. n \in 1..Len(hs)
      BY <1>1, <1>8
    <3>2. /\ b \in Seq(X) /\ Len(b) = Len(hs[n].children)
          /\ \A i \in 1..Len(hs[n].children) : b[i] = hs[n].children[i].frame
      BY <1>13, <3>1, KidsType
    <3> QED BY <1>6, <1>9, <3>2
  <2> HIDE DEF a, b, old
  <2>3. /\ a \o kids \in Seq(X) /\ Len(a \o kids) = Len(a) + Len(kids)
        /\ \A i \in 1..Len(a) : (a \o kids)[i] = a[i]
        /\ \A i \in 1..Len(kids) : (a \o kids)[Len(a) + i] = kids[i]
    <3>1. a \in Seq(X) /\ kids \in Seq(X)
      BY <2>1
    <3> HIDE DEF X
    <3> QED BY ONLY <3>1, Concat
  <2>4. ASSUME NEW i \in 1..(Len(old) + Len(kids)) PROVE b[i] = (a \o kids)[i]
    <3>1. CASE i \in 1..Len(old)
      BY <1>6, <2>1, <2>2, <2>3, <3>1
    <3>2. CASE i - Len(old) \in 1..Len(kids) /\ Len(old) + (i - Len(old)) = i
      <4>1. (old \o new)[i].frame = kids[i - Len(old)]
        BY <1>3, <1>6, <3>2
      <4>2. (a \o kids)[i] = kids[i - Len(old)]
        BY <2>1, <2>3, <3>2
      <4> QED BY <2>2, <4>1, <4>2
    <3> QED BY <1>11, <3>1, <3>2
  <2>5. b = a \o kids
    BY <2>1, <2>2, <2>3, <2>4, SeqEqual
  <2> QED BY <2>5 DEF a, b
<1> QED BY <1>8, <1>9, <1>10, <1>13, <1>14 DEF new, Edges

\* A root says what the adopted trees say after what it said before.
LEMMA AdoptedSays ==
  ASSUME NEW gs, Shaped(gs), Len(gs) # 0, NEW kind \in Kinds,
         NEW kids \in Seq(1..(Len(gs) - 1)),
         NEW hs, hs = Adopted(gs, kind, kids)
  PROVE  /\ Says(hs, Len(hs)) = Says(gs, Len(gs)) \o FlattenSeq(Mapped(SaysOf(gs), kids))
         /\ \A f \in 1..(Len(gs) - 1) : Says(hs, f) = Says(gs, f)
<1> DEFINE n == Len(gs)
           a == KidsOf(gs, n)
           X == 1..(n - 1)
<1>1. /\ Shaped(hs) /\ Len(hs) = n
      /\ \A f \in X : hs[f] = gs[f]
      /\ hs[n].error = gs[n].error
      /\ KidsOf(hs, n) = a \o kids
  BY AdoptedFrames
<1>2. n \in Nat \ {0} /\ n \in 1..n /\ n - 1 \in Nat /\ X \subseteq 1..n
  BY DEF Shaped
<1>3. a \in Seq(X) /\ kids \in Seq(X) /\ a \o kids \in Seq(X)
  <2>1. a \in Seq(X) /\ kids \in Seq(X)
    BY <1>2, KidsType
  <2> HIDE DEF a, X
  <2> QED BY <2>1
<1>4. \A f \in X : Says(hs, f) = Says(gs, f)
  <2>1. Alike(gs, hs, n - 1)
    BY <1>1, <1>2 DEF Alike
  <2> QED BY <1>1, <2>1, SaysStable
<1>5. Mapped(SaysOf(hs), a \o kids) = Mapped(SaysOf(gs), a \o kids)
  <2>1. \A f \in X : SaysOf(hs)[f] = SaysOf(gs)[f]
    BY <1>1, <1>2, <1>4 DEF SaysOf
  <2> DEFINE b == a \o kids
  <2>2. b \in Seq(X)
    BY <1>3
  <2> HIDE DEF b, X
  <2>3. \A i \in 1..Len(b) : SaysOf(hs)[b[i]] = SaysOf(gs)[b[i]]
    BY <2>1, <2>2
  <2>4. Mapped(SaysOf(hs), b) = Mapped(SaysOf(gs), b)
    BY <2>3 DEF Mapped
  <2> QED BY <2>4 DEF b
<1>6. Mapped(SaysOf(gs), a \o kids) = Mapped(SaysOf(gs), a) \o Mapped(SaysOf(gs), kids)
  <2> HIDE DEF a, X
  <2>1. \A s, t \in Seq(X) :
          Mapped(SaysOf(gs), s \o t) = Mapped(SaysOf(gs), s) \o Mapped(SaysOf(gs), t)
    BY MappedConcat
  <2> QED BY <1>3, <2>1
<1>7. \A s \in Seq(X) : Mapped(SaysOf(gs), s) \in Seq(Seq(Nat))
  <2>1. \A f \in X : SaysOf(gs)[f] \in Seq(Nat)
    BY <1>2, SaysType DEF SaysOf
  <2> HIDE DEF X
  <2> QED BY <2>1 DEF Mapped
<1>8. FlattenSeq(Mapped(SaysOf(gs), a) \o Mapped(SaysOf(gs), kids))
        = FlattenSeq(Mapped(SaysOf(gs), a)) \o FlattenSeq(Mapped(SaysOf(gs), kids))
  <2>1. /\ Mapped(SaysOf(gs), a) \in Seq(Seq(Nat))
        /\ Mapped(SaysOf(gs), kids) \in Seq(Seq(Nat))
    BY <1>3, <1>7
  <2> QED BY ONLY <2>1, FlattenConcat
<1>9. Says(hs, n) = <<gs[n].error>> \o (FlattenSeq(Mapped(SaysOf(gs), a))
                                         \o FlattenSeq(Mapped(SaysOf(gs), kids)))
  <2>1. Says(hs, n) = <<hs[n].error>> \o FlattenSeq(Mapped(SaysOf(hs), KidsOf(hs, n)))
    BY <1>1, <1>2, SaysIs
  <2> HIDE DEF a
  <2> QED BY <1>1, <1>5, <1>6, <1>8, <2>1
<1>10. Says(gs, n) = <<gs[n].error>> \o FlattenSeq(Mapped(SaysOf(gs), a))
  BY <1>2, SaysIs
<1>11. \A p, q, r \in Seq(Nat) : (p \o q) \o r = p \o (q \o r)
  BY ONLY ConcatAssociative
<1>12. /\ <<gs[n].error>> \in Seq(Nat)
       /\ FlattenSeq(Mapped(SaysOf(gs), a)) \in Seq(Nat)
       /\ FlattenSeq(Mapped(SaysOf(gs), kids)) \in Seq(Nat)
  <2>1. gs[n].error \in Nat
    BY <1>2, FrameFields
  <2>2. /\ Mapped(SaysOf(gs), a) \in Seq(Seq(Nat))
        /\ Mapped(SaysOf(gs), kids) \in Seq(Seq(Nat))
    BY <1>3, <1>7
  <2>3. /\ FlattenSeq(Mapped(SaysOf(gs), a)) \in Seq(Nat)
        /\ FlattenSeq(Mapped(SaysOf(gs), kids)) \in Seq(Nat)
    BY <2>2, FlattenType
  <2> QED BY <2>1, <2>3
<1>13. Says(hs, n) = Says(gs, n) \o FlattenSeq(Mapped(SaysOf(gs), kids))
  <2> DEFINE p == <<gs[n].error>>
             q == FlattenSeq(Mapped(SaysOf(gs), a))
             r == FlattenSeq(Mapped(SaysOf(gs), kids))
  <2>1. p \in Seq(Nat) /\ q \in Seq(Nat) /\ r \in Seq(Nat)
    BY <1>12
  <2>2. Says(hs, n) = p \o (q \o r) /\ Says(gs, n) = p \o q
    BY <1>9, <1>10
  <2> HIDE DEF p, q, r, a, n
  <2>3. (p \o q) \o r = p \o (q \o r)
    BY <1>11, <2>1
  <2> QED BY <2>2, <2>3 DEF r
<1> QED BY <1>1, <1>4, <1>13

-----------------------------------------------------------------------------
\* First branches and what they lead to.

\* b has the first branch under each frame.
Descends(fs, b) ==
  b = [n \in 0..Len(fs) |->
         IF n = 0 THEN <<>>
         ELSE <<n>> \o b[IF fs[n].children = <<>> THEN 0 ELSE fs[n].children[1].frame]]

\* The next frame down, 0 at the end.
Down(fs, n) == IF fs[n].children = <<>> THEN 0 ELSE fs[n].children[1].frame

LEMMA DownType ==
  ASSUME NEW fs, Shaped(fs), NEW n \in 1..Len(fs)
  PROVE  Down(fs, n) \in 0..(n - 1) /\ (Down(fs, n) = 0 <=> fs[n].children = <<>>)
<1>1. n \in Nat \ {0}
  BY FrameFields
<1>2. CASE fs[n].children = <<>>
  BY <1>1, <1>2 DEF Down
<1>3. CASE fs[n].children # <<>>
  <2>1. 1 \in 1..Len(fs[n].children)
    BY <1>3, FrameFields
  <2>2. KidsOf(fs, n)[1] = fs[n].children[1].frame /\ KidsOf(fs, n)[1] \in 1..(n - 1)
    BY <2>1, KidsType
  <2> QED BY <1>1, <1>3, <2>2 DEF Down
<1> QED BY <1>2, <1>3

LEMMA BranchExists ==
  ASSUME NEW fs, Shaped(fs)
  PROVE  \E b : Descends(fs, b)
<1> DEFINE D == 0..Len(fs)
           V == Seq(D)
           step == [p \in D \X [D -> V] |->
                      IF p[1] = 0 THEN <<>> ELSE <<p[1]>> \o p[2][Down(fs, p[1])]]
<1>1. Len(fs) \in Nat /\ D \subseteq 0..Len(fs)
  BY DEF Shaped
<1>2. ASSUME NEW k \in D, NEW g \in [D -> V]
      PROVE  step[<<k, g>>] = IF k = 0 THEN <<>> ELSE <<k>> \o g[Down(fs, k)]
  OBVIOUS
<1>3. \A k \in D : k # 0 => k \in 1..Len(fs) /\ Down(fs, k) \in D /\ Down(fs, k) < k
  <2> SUFFICES ASSUME NEW k \in D, k # 0
               PROVE  k \in 1..Len(fs) /\ Down(fs, k) \in D /\ Down(fs, k) < k
    OBVIOUS
  <2>1. k \in 1..Len(fs)
    BY <1>1
  <2>2. Down(fs, k) \in 0..(k - 1)
    BY <2>1, DownType
  <2> QED BY <1>1, <2>1, <2>2
<1>4. ASSUME NEW k \in D, NEW g \in [D -> V] PROVE step[<<k, g>>] \in V
  <2>1. CASE k = 0
    <3>1. <<>> \in V
      OBVIOUS
    <3> HIDE DEF step, V, D
    <3> QED BY <1>2, <2>1, <3>1
  <2>2. CASE k # 0
    <3>1. <<k>> \in V /\ g[Down(fs, k)] \in V
      BY <1>3, <2>2
    <3>2. <<k>> \o g[Down(fs, k)] \in V
      BY <3>1
    <3> HIDE DEF step, V, D
    <3> QED BY <1>2, <2>2, <3>2
  <2> QED BY <2>1, <2>2
<1>5. step \in [D \X [D -> V] -> V]
  <2>1. step = [p \in D \X [D -> V] |-> step[p]]
    OBVIOUS
  <2>2. \A p \in D \X [D -> V] : step[p] \in V
    <3> SUFFICES ASSUME NEW p \in D \X [D -> V] PROVE step[p] \in V
      OBVIOUS
    <3>1. p = <<p[1], p[2]>> /\ p[1] \in D /\ p[2] \in [D -> V]
      OBVIOUS
    <3> HIDE DEF step, D, V
    <3>2. step[<<p[1], p[2]>>] \in V
      BY <1>4, <3>1
    <3> QED BY <3>1, <3>2
  <2> HIDE DEF step
  <2> QED BY <2>1, <2>2
<1>6. ASSUME NEW k \in D, NEW g \in [D -> V], NEW h \in [D -> V],
             \A j \in D : j < k => g[j] = h[j]
      PROVE  step[<<k, g>>] = step[<<k, h>>]
  <2>1. k # 0 => g[Down(fs, k)] = h[Down(fs, k)]
    BY <1>3, <1>6
  <2> HIDE DEF step, D, V
  <2> QED BY <1>2, <2>1
<1> HIDE DEF step
<1>7. Determined(D, V, step)
  <2>1. <<>> \in V
    OBVIOUS
  <2> HIDE DEF D, V
  <2> QED BY <1>1, <1>5, <1>6, <2>1 DEF Determined
<1>8. PICK b \in [D -> V] : Solves(b, D, step)
  <2> HIDE DEF D, V
  <2> QED BY <1>7, RecursiveDefinition
<1>9. \A n \in D : b[n] = IF n = 0 THEN <<>> ELSE <<n>> \o b[Down(fs, n)]
  <2> HIDE DEF D, V
  <2> QED BY <1>2, <1>8 DEF Solves
<1>10. Descends(fs, b)
  BY <1>8, <1>9 DEF Descends, Down
<1> QED BY <1>10

LEMMA BranchIs ==
  ASSUME NEW fs, Shaped(fs), NEW f \in 1..Len(fs)
  PROVE  /\ fs[f].children = <<>> => FirstBranch(fs, f) = <<f>>
         /\ fs[f].children # <<>> =>
              FirstBranch(fs, f) = <<f>> \o FirstBranch(fs, fs[f].children[1].frame)
<1> DEFINE c == CHOOSE b : Descends(fs, b)
<1>1. \A n \in 0..Len(fs) : FirstBranch(fs, n) = c[n]
  BY DEF FirstBranch, Descends
<1>2. Descends(fs, c)
  BY BranchExists
<1> HIDE DEF c
<1>3. \A n \in 0..Len(fs) : c[n] = IF n = 0 THEN <<>> ELSE <<n>> \o c[Down(fs, n)]
  BY <1>2 DEF Descends, Down
<1>4. /\ f \in 0..Len(fs) /\ f # 0 /\ Down(fs, f) \in 0..Len(fs) /\ 0 \in 0..Len(fs)
      /\ (Down(fs, f) = 0 <=> fs[f].children = <<>>)
  <2>1. Down(fs, f) \in 0..(f - 1) /\ (Down(fs, f) = 0 <=> fs[f].children = <<>>)
    BY DownType
  <2>2. Len(fs) \in Nat /\ f \in Nat
    BY FrameFields
  <2> QED BY <2>1, <2>2
<1>5. CASE fs[f].children = <<>>
  <2>1. c[f] = <<f>> \o c[0] /\ c[0] = <<>>
    BY <1>3, <1>4, <1>5
  <2>2. c[f] = <<f>>
    BY <2>1
  <2> QED BY <1>1, <1>4, <1>5, <2>2
<1>6. CASE fs[f].children # <<>>
  <2>1. Down(fs, f) = fs[f].children[1].frame
    BY <1>6 DEF Down
  <2> QED BY <1>1, <1>3, <1>4, <1>6, <2>1
<1> QED BY <1>5, <1>6

LEMMA BranchType ==
  ASSUME NEW fs, Shaped(fs), NEW f \in 1..Len(fs)
  PROVE  FirstBranch(fs, f) \in Seq(1..f) /\ FirstBranch(fs, f) # <<>>
<1> DEFINE Good(n) == FirstBranch(fs, n) \in Seq(1..n) /\ FirstBranch(fs, n) # <<>>
           S == {m \in Nat : \A n \in 1..Len(fs) : n <= m => Good(n)}
<1>1. \A n \in 1..Len(fs) : n \in Nat /\ n >= 1
  OBVIOUS
<1>2. 0 \in S
  BY <1>1
<1>3. ASSUME NEW m \in Nat, m \in S PROVE m + 1 \in S
  <2> SUFFICES ASSUME NEW n \in 1..Len(fs), n <= m + 1 PROVE Good(n)
    OBVIOUS
  <2>1. CASE fs[n].children = <<>>
    <3>1. FirstBranch(fs, n) = <<n>>
      BY <2>1, BranchIs
    <3> QED BY <1>1, <3>1
  <2>2. CASE fs[n].children # <<>>
    <3>1. PICK d \in 1..(n - 1) : d = fs[n].children[1].frame
      <4>1. Down(fs, n) \in 0..(n - 1) /\ Down(fs, n) # 0
        BY <2>2, DownType
      <4>2. Down(fs, n) = fs[n].children[1].frame
        BY <2>2 DEF Down
      <4> QED BY <1>1, <4>1, <4>2
    <3>2. FirstBranch(fs, n) = <<n>> \o FirstBranch(fs, d)
      BY <2>2, <3>1, BranchIs
    <3>3. FirstBranch(fs, d) \in Seq(1..d)
      <4>1. d \in 1..Len(fs) /\ d <= m
        BY <1>1
      <4> QED BY <1>3, <4>1
    <3>4. 1..d \subseteq 1..n /\ n \in 1..n
      BY <1>1
    <3> DEFINE b == FirstBranch(fs, d)
    <3>5. b \in Seq(1..n) /\ <<n>> \in Seq(1..n)
      BY <3>3, <3>4
    <3> HIDE DEF b
    <3>6. <<n>> \o b \in Seq(1..n) /\ <<n>> \o b # <<>>
      BY <3>5
    <3> QED BY <3>2, <3>6 DEF b
  <2> QED BY <2>1, <2>2
<1>4. Nat \subseteq S
  <2> HIDE DEF S
  <2> QED BY <1>2, <1>3, ByInduction
<1> QED BY <1>1, <1>4

\* The cause of a frame without children is its own error, else its first child's.
LEMMA CauseIs ==
  ASSUME NEW fs, Shaped(fs), NEW f \in 1..Len(fs)
  PROVE  /\ fs[f].children = <<>> => Cause(fs, f) = fs[f].error
         /\ fs[f].children # <<>> => Cause(fs, f) = Cause(fs, fs[f].children[1].frame)
<1>1. CASE fs[f].children = <<>>
  <2>1. FirstBranch(fs, f) = <<f>>
    BY <1>1, BranchIs
  <2>2. Last(<<f>>) = f
    BY DEF Last
  <2> QED BY <1>1, <2>1, <2>2 DEF Cause
<1>2. CASE fs[f].children # <<>>
  <2>1. PICK d \in 1..(f - 1) : d = fs[f].children[1].frame
    <3>1. Down(fs, f) \in 0..(f - 1) /\ Down(fs, f) # 0
      BY <1>2, DownType
    <3>2. Down(fs, f) = fs[f].children[1].frame
      BY <1>2 DEF Down
    <3> QED BY <3>1, <3>2
  <2>2. FirstBranch(fs, f) = <<f>> \o FirstBranch(fs, d)
    BY <1>2, <2>1, BranchIs
  <2>3. FirstBranch(fs, d) \in Seq(Nat) /\ FirstBranch(fs, d) # <<>> /\ f \in Nat
    <3>1. d \in 1..Len(fs) /\ f \in Nat
      BY FrameFields
    <3>2. FirstBranch(fs, d) \in Seq(1..d) /\ FirstBranch(fs, d) # <<>>
      BY <3>1, BranchType
    <3>3. 1..d \subseteq Nat
      OBVIOUS
    <3> QED BY <3>1, <3>2, <3>3
  <2>4. Last(<<f>> \o FirstBranch(fs, d)) = Last(FirstBranch(fs, d))
    BY <2>3, LastOfLonger
  <2> QED BY <1>2, <2>1, <2>2, <2>4 DEF Cause
<1> QED BY <1>1, <1>2

\* A cause is the error of some frame, and stays.
LEMMA CauseStable ==
  ASSUME NEW fs, NEW gs, NEW n, Shaped(fs), Shaped(gs), Alike(fs, gs, n)
  PROVE  \A f \in 1..n : Cause(gs, f) = Cause(fs, f)
<1> DEFINE S == {m \in Nat : \A f \in 1..n : f <= m => Cause(gs, f) = Cause(fs, f)}
<1>1. /\ n \in Nat /\ Len(fs) \in Nat /\ Len(gs) \in Nat
      /\ 1..n \subseteq 1..Len(fs) /\ 1..n \subseteq 1..Len(gs)
  BY DEF Alike, Shaped
<1>2. 0 \in S
  BY <1>1
<1>3. ASSUME NEW m \in Nat, m \in S PROVE m + 1 \in S
  <2> SUFFICES ASSUME NEW f \in 1..n, f <= m + 1 PROVE Cause(gs, f) = Cause(fs, f)
    OBVIOUS
  <2>1. gs[f].children = fs[f].children /\ gs[f].error = fs[f].error
    BY DEF Alike
  <2>2. CASE fs[f].children = <<>>
    BY <1>1, <2>1, <2>2, CauseIs
  <2>3. CASE fs[f].children # <<>>
    <3>1. fs[f].children[1].frame \in 1..(f - 1)
      <4>1. Down(fs, f) \in 0..(f - 1) /\ Down(fs, f) # 0
        BY <1>1, <2>3, DownType
      <4>2. Down(fs, f) = fs[f].children[1].frame
        BY <2>3 DEF Down
      <4> QED BY <4>1, <4>2
    <3>2. fs[f].children[1].frame \in 1..n /\ fs[f].children[1].frame <= m
      BY <1>1, <3>1
    <3>3. Cause(gs, fs[f].children[1].frame) = Cause(fs, fs[f].children[1].frame)
      BY <1>3, <3>2
    <3>4. Cause(fs, f) = Cause(fs, fs[f].children[1].frame)
      BY <1>1, <2>3, CauseIs
    <3>5. Cause(gs, f) = Cause(gs, fs[f].children[1].frame)
      BY <1>1, <2>1, <2>3, CauseIs
    <3> QED BY <3>3, <3>4, <3>5
  <2> QED BY <2>2, <2>3
<1>4. Nat \subseteq S
  <2> HIDE DEF S
  <2> QED BY <1>2, <1>3, ByInduction
<1> QED BY <1>1, <1>4

\* The frames of a chain lead to its end.
LEMMA LinkedCause ==
  ASSUME NEW fs, Shaped(fs), NEW chain \in Chains, chain # <<>>,
         NEW gs, gs = Linked(fs, chain)
  PROVE  Cause(gs, Len(gs)) = chain[Len(chain)]
<1> DEFINE n == Len(fs)
           k == Len(chain)
           S == {i \in Nat : i \in 1..k => Cause(gs, n + i) = chain[k]}
<1>1. /\ n \in Nat /\ k \in Nat \ {0}
      /\ Shaped(gs) /\ Len(gs) = n + k
      /\ \A i \in 1..k :
           /\ gs[n + i].error = chain[k - i + 1]
           /\ gs[n + i].children = IF i = 1 THEN <<>>
                                   ELSE <<[kind |-> "source", frame |-> n + i - 1]>>
  <2>1. n \in Nat /\ k \in Nat \ {0}
    BY DEF Shaped, Chains
  <2> QED BY <2>1, LinkedFrames
<1>2. 0 \in S
  OBVIOUS
<1>3. ASSUME NEW i \in Nat, i \in S PROVE i + 1 \in S
  <2> SUFFICES ASSUME i + 1 \in 1..k PROVE Cause(gs, n + (i + 1)) = chain[k]
    OBVIOUS
  <2>1. CASE i = 0
    <3>1. 1 \in 1..k /\ n + 1 \in 1..(n + k) /\ k - 1 + 1 = k
      BY <1>1
    <3>2. gs[n + 1].error = chain[k - 1 + 1] /\ gs[n + 1].children = <<>>
      BY <1>1, <3>1
    <3>3. Cause(gs, n + 1) = gs[n + 1].error
      BY <1>1, <3>1, <3>2, CauseIs
    <3> QED BY <2>1, <3>1, <3>2, <3>3
  <2>2. CASE i # 0
    <3>1. /\ i \in 1..k /\ n + (i + 1) \in 1..(n + k)
          /\ n + (i + 1) - 1 = n + i /\ i + 1 # 1
      BY <1>1, <2>2
    <3>2. gs[n + (i + 1)].children = <<[kind |-> "source", frame |-> n + i]>>
      BY <1>1, <3>1
    <3>3. gs[n + (i + 1)].children # <<>> /\ gs[n + (i + 1)].children[1].frame = n + i
      BY <3>2
    <3>4. Cause(gs, n + (i + 1)) = Cause(gs, n + i)
      BY <1>1, <3>1, <3>3, CauseIs
    <3>5. Cause(gs, n + i) = chain[k]
      BY <1>3, <3>1
    <3> QED BY <3>4, <3>5
  <2> QED BY <2>1, <2>2
<1>4. Nat \subseteq S
  <2> HIDE DEF S
  <2> QED BY <1>2, <1>3, ByInduction
<1>5. k \in 1..k
  BY <1>1
<1> QED BY <1>1, <1>4, <1>5

-----------------------------------------------------------------------------
\* What a constructor makes of the frames there are.

\* An error is numbered by a frame.
Sound(fs) == Shaped(fs) /\ \A f \in 1..Len(fs) : fs[f].error \in 1..Len(fs)

\* fs has more frames than base; of those of base, only kids get parents.
Grown(base, fs, kids) ==
  /\ Sound(fs) /\ Len(fs) > Len(base)
  /\ \A f \in 1..Len(base) : fs[f] = base[f]
  /\ \A f \in 1..Len(fs) : f > Len(base) =>
       \A i \in 1..Len(KidsOf(fs, f)) :
         KidsOf(fs, f)[i] > Len(base) \/ KidsOf(fs, f)[i] \in ToSet(kids)

LEMMA SequenceNumbers ==
  ASSUME NEW n \in Nat, NEW chain \in Seq(1..n)
  PROVE  chain \in Chains
BY DEF Chains

\* Raising: the frames of one chain.
LEMMA LinkedGrows ==
  ASSUME NEW base, Sound(base), NEW chain, chain \in Seq(1..(Len(base) + Len(chain))), chain # <<>>,
         NEW fs, fs = Linked(base, chain)
  PROVE  /\ Grown(base, fs, <<>>) /\ Len(fs) = Len(base) + Len(chain)
         /\ Says(fs, Len(fs)) = chain
         /\ Cause(fs, Len(fs)) = chain[Len(chain)]
<1> DEFINE n == Len(base)
           k == Len(chain)
<1>1. n \in Nat /\ Shaped(base) /\ k \in Nat \ {0} /\ n + k \in Nat
  BY DEF Sound, Shaped
<1>2. chain \in Chains
  BY <1>1, SequenceNumbers
<1>3. /\ Shaped(fs) /\ Len(fs) = n + k
      /\ \A f \in 1..n : fs[f] = base[f]
      /\ \A i \in 1..k :
           /\ fs[n + i].error = chain[k - i + 1]
           /\ fs[n + i].children = IF i = 1 THEN <<>>
                                   ELSE <<[kind |-> "source", frame |-> n + i - 1]>>
  BY <1>1, <1>2, LinkedFrames, SMTT(30)
<1>4. ASSUME NEW f \in 1..Len(fs) PROVE f \in 1..n \/ (f - n \in 1..k /\ n + (f - n) = f)
  BY <1>1, <1>3
<1>5. ASSUME NEW f \in 1..Len(fs) PROVE fs[f].error \in 1..Len(fs)
  <2>1. CASE f \in 1..n
    <3>1. fs[f].error \in 1..n
      BY <1>3, <2>1 DEF Sound
    <3> QED BY <1>1, <1>3, <3>1
  <2>2. CASE f - n \in 1..k /\ n + (f - n) = f
    <3>1. fs[f].error = chain[k - (f - n) + 1]
      BY <1>3, <2>2
    <3>2. k - (f - n) + 1 \in 1..k
      BY <1>1, <2>2
    <3>3. chain[k - (f - n) + 1] \in 1..(n + k)
      BY <3>2
    <3> QED BY <1>3, <3>1, <3>3
  <2> QED BY <1>4, <2>1, <2>2
<1>6. ASSUME NEW f \in 1..Len(fs), f > n, NEW i \in 1..Len(KidsOf(fs, f))
      PROVE  KidsOf(fs, f)[i] > n
  <2>1. f - n \in 1..k /\ n + (f - n) = f
    BY <1>1, <1>4, <1>6
  <2>2. fs[f].children = IF f - n = 1 THEN <<>>
                         ELSE <<[kind |-> "source", frame |-> n + (f - n) - 1]>>
    BY <1>3, <2>1
  <2>3. f - n # 1
    <3>1. fs[f].children = <<>> => KidsOf(fs, f) = <<>>
      BY KidsOfNone
    <3> QED BY <2>2, <3>1
  <2>4. KidsOf(fs, f) = <<n + (f - n) - 1>>
    BY <2>2, <2>3, KidsOfOne
  <2>5. KidsOf(fs, f)[i] = n + (f - n) - 1
    BY <2>4
  <2> QED BY <1>1, <2>1, <2>3, <2>5
<1>7. Grown(base, fs, <<>>)
  BY <1>1, <1>3, <1>5, <1>6 DEF Grown, Sound
<1>8. Says(fs, Len(fs)) = chain /\ Cause(fs, Len(fs)) = chain[Len(chain)]
  BY <1>1, <1>2, LinkedSays, LinkedCause
<1> QED BY <1>3, <1>7, <1>8

\* The root of a chain is the end of it when it has no sources, and else has the rest
\* of it as its first child.
LEMMA LinkedRoot ==
  ASSUME NEW base, Shaped(base), NEW chain \in Chains, chain # <<>>,
         NEW fs, fs = Linked(base, chain)
  PROVE  /\ fs[Len(fs)].error = chain[1]
         /\ Len(chain) = 1 => fs[Len(fs)].children = <<>>
         /\ Len(chain) # 1 => \E c \in Nat :
              fs[Len(fs)].children = <<[kind |-> "source", frame |-> c]>>
<1> DEFINE n == Len(base)
           k == Len(chain)
<1>1. n \in Nat /\ k \in Nat \ {0} /\ k \in 1..k /\ k - k + 1 = 1 /\ n + k - 1 \in Nat
  BY DEF Shaped, Chains
<1>2. /\ Len(fs) = n + k
      /\ \A i \in 1..k :
           /\ fs[n + i].error = chain[k - i + 1]
           /\ fs[n + i].children = IF i = 1 THEN <<>>
                                   ELSE <<[kind |-> "source", frame |-> n + i - 1]>>
  BY LinkedFrames
<1>3. fs[n + k].error = chain[k - k + 1]
  BY <1>1, <1>2
<1>4. fs[n + k].children = IF k = 1 THEN <<>>
                           ELSE <<[kind |-> "source", frame |-> n + k - 1]>>
  BY <1>1, <1>2
<1> QED BY <1>1, <1>2, <1>3, <1>4

\* Wrapping and collecting: a chain whose root adopts trees there are.
LEMMA AdoptedGrows ==
  ASSUME NEW base, Sound(base), NEW chain, chain \in Seq(1..(Len(base) + Len(chain))), chain # <<>>,
         NEW kind \in Kinds, NEW kids \in Seq(1..Len(base)),
         NEW fs, fs = Adopted(Linked(base, chain), kind, kids)
  PROVE  /\ Grown(base, fs, kids) /\ Len(fs) = Len(base) + Len(chain)
         /\ Says(fs, Len(fs)) = chain \o FlattenSeq(Mapped(SaysOf(base), kids))
         /\ fs[Len(fs)].error = chain[1]
         /\ Len(chain) # 1 => fs[Len(fs)].children[1].kind = "source"
         /\ Len(chain) = 1 /\ kids # <<>> => Cause(fs, Len(fs)) = Cause(base, kids[1])
<1> DEFINE n == Len(base)
           k == Len(chain)
           top == Linked(base, chain)
           m == Len(top)
           new == Edges(kind, kids)
<1>1. n \in Nat /\ Shaped(base) /\ k \in Nat \ {0} /\ n + k \in Nat
  BY DEF Sound, Shaped
<1>2. chain \in Chains
  BY <1>1, SequenceNumbers
<1>3. Grown(base, top, <<>>) /\ m = n + k /\ Says(top, m) = chain
  BY LinkedGrows
<1>4. /\ top[m].error = chain[1]
      /\ k = 1 => top[m].children = <<>>
      /\ k # 1 => \E c \in Nat : top[m].children = <<[kind |-> "source", frame |-> c]>>
  BY <1>1, <1>2, LinkedRoot
<1> HIDE DEF top, m
<1>5. fs = Adopted(top, kind, kids)
  BY DEF top
<1>6. /\ Shaped(top) /\ m = Len(top) /\ m # 0 /\ m \in Nat \ {0} /\ m \in 1..m
      /\ \A f \in 1..n : top[f] = base[f]
      /\ 1..n \subseteq 1..(m - 1)
  BY <1>1, <1>3 DEF Grown, Sound, m
<1>7. kids \in Seq(1..(m - 1))
  <2> DEFINE A == 1..n
             B == 1..(m - 1)
  <2>1. kids \in Seq(A) /\ A \subseteq B
    BY <1>6
  <2> HIDE DEF A, B
  <2>2. kids \in Seq(B)
    BY ONLY <2>1, MoreValues
  <2> QED BY <2>2 DEF B
<1>8. /\ Shaped(fs) /\ Len(fs) = m
      /\ \A f \in 1..(m - 1) : fs[f] = top[f]
      /\ fs[m].error = top[m].error
      /\ fs[m].children = top[m].children \o new
      /\ KidsOf(fs, m) = KidsOf(top, m) \o kids
  <2>1. Shaped(top) /\ Len(top) # 0 /\ kids \in Seq(1..(Len(top) - 1))
    BY <1>6, <1>7
  <2>2. /\ Shaped(fs) /\ Len(fs) = Len(top)
        /\ \A f \in 1..(Len(top) - 1) : fs[f] = top[f]
        /\ fs[Len(top)].error = top[Len(top)].error
        /\ KidsOf(fs, Len(top)) = KidsOf(top, Len(top)) \o kids
    BY ONLY <1>5, <2>1, AdoptedFrames
  <2>3. fs[Len(top)].children = top[Len(top)].children \o Edges(kind, kids)
    BY ONLY <1>5, <2>1, AdoptedFrames, SMTT(30)
  <2> QED BY <1>6, <2>2, <2>3
<1>9. /\ Says(fs, Len(fs)) = Says(top, m) \o FlattenSeq(Mapped(SaysOf(top), kids))
  BY <1>5, <1>6, <1>7, AdoptedSays, SMTT(30)
<1>10. Alike(base, top, n)
  BY <1>1, <1>3, <1>6 DEF Alike
<1>11. Mapped(SaysOf(top), kids) = Mapped(SaysOf(base), kids)
  <2>1. \A f \in 1..n : SaysOf(top)[f] = SaysOf(base)[f]
    <3>1. \A f \in 1..n : Says(top, f) = Says(base, f)
      BY <1>1, <1>6, <1>10, SaysStable
    <3> QED BY <1>1, <1>3, <1>6, <3>1 DEF SaysOf
  <2>2. \A i \in 1..Len(kids) : kids[i] \in 1..n
    OBVIOUS
  <2> QED BY <2>1, <2>2 DEF Mapped
<1>12. ASSUME NEW f \in 1..Len(fs) PROVE fs[f].error \in 1..Len(fs)
  <2>1. fs[f].error = top[f].error
    <3>1. f \in 1..(m - 1) \/ f = m
      BY <1>6, <1>8
    <3> HIDE DEF new
    <3> QED BY <1>8, <3>1
  <2>2. top[f].error \in 1..m
    BY <1>3, <1>6, <1>8 DEF Grown, Sound
  <2> QED BY <1>8, <2>1, <2>2
<1>13. ASSUME NEW f \in 1..Len(fs), f > n, NEW i \in 1..Len(KidsOf(fs, f))
       PROVE  KidsOf(fs, f)[i] > n \/ KidsOf(fs, f)[i] \in ToSet(kids)
  <2>1. \A g \in 1..m : g > n => \A j \in 1..Len(KidsOf(top, g)) : KidsOf(top, g)[j] > n
    <3>1. ToSet(<<>>) = {}
      BY DEF ToSet
    <3> QED BY <1>3, <1>6, <3>1 DEF Grown
  <2>2. CASE f # m
    <3>1. f \in 1..(m - 1) /\ f \in 1..m
      BY <1>6, <1>8, <2>2
    <3>2. KidsOf(fs, f) = KidsOf(top, f)
      BY <1>8, <3>1 DEF KidsOf
    <3> QED BY <1>13, <2>1, <3>1, <3>2
  <2>3. CASE f = m
    <3> DEFINE a == KidsOf(top, m)
               X == 1..(m - 1)
    <3>1. a \in Seq(X) /\ kids \in Seq(X)
      BY <1>6, <1>7, KidsType
    <3>2. \A j \in 1..Len(a) : a[j] > n
      <4>1. m > n
        BY <1>1, <1>3
      <4> QED BY <1>6, <2>1, <4>1
    <3>3. KidsOf(fs, f) = a \o kids
      BY <1>8, <2>3
    <3> HIDE DEF a, X
    <3>4. /\ a \o kids \in Seq(X) /\ Len(a \o kids) = Len(a) + Len(kids)
          /\ \A j \in 1..Len(a) : (a \o kids)[j] = a[j]
          /\ \A j \in 1..Len(kids) : (a \o kids)[Len(a) + j] = kids[j]
      BY ONLY <3>1, Concat
    <3>5. Len(a) \in Nat /\ Len(kids) \in Nat
      BY <3>1
    <3>6. CASE i \in 1..Len(a)
      BY <3>2, <3>3, <3>4, <3>6
    <3>7. CASE i \notin 1..Len(a)
      <4>1. i - Len(a) \in 1..Len(kids) /\ Len(a) + (i - Len(a)) = i
        BY <3>3, <3>4, <3>5, <3>7
      <4>2. KidsOf(fs, f)[i] = kids[i - Len(a)]
        BY <3>3, <3>4, <4>1
      <4>3. kids[i - Len(a)] \in ToSet(kids)
        BY <3>5, <4>1 DEF ToSet
      <4> QED BY <4>2, <4>3
    <3> QED BY <3>6, <3>7
  <2> QED BY <2>2, <2>3
<1>14. Grown(base, fs, kids)
  <2>1. \A f \in 1..n : fs[f] = base[f]
    BY <1>6, <1>8
  <2>2. Len(fs) > Len(base)
    BY <1>1, <1>3, <1>8
  <2> QED BY <1>8, <1>12, <1>13, <2>1, <2>2 DEF Grown, Sound
<1>15. k # 1 => fs[m].children[1].kind = "source"
  <2> SUFFICES ASSUME k # 1 PROVE fs[m].children[1].kind = "source"
    OBVIOUS
  <2>1. PICK c \in Nat : top[m].children = <<[kind |-> "source", frame |-> c]>>
    BY <1>4
  <2> HIDE DEF new
  <2>2. new \in Seq(Edge)
    <3>1. \A i \in 1..Len(kids) : kids[i] \in Nat \ {0}
      OBVIOUS
    <3>2. \A i \in 1..Len(kids) : [kind |-> kind, frame |-> kids[i]] \in Edge
      BY <3>1 DEF Edge
    <3> QED BY <3>2 DEF new, Edges
  <2> DEFINE e == [kind |-> "source", frame |-> c]
  <2>3. e.kind = "source" /\ fs[m].children = <<e>> \o new
    BY <1>8, <2>1 DEF new
  <2>4. e \in Edge
    <3>1. top[m].children \in Seq(Edge)
      BY <1>6, FrameFields
    <3> QED BY <2>1, <3>1
  <2> HIDE DEF e
  <2>5. (<<e>> \o new)[1] = e
    BY <2>2, <2>4
  <2> QED BY <2>3, <2>5
<1>16. k = 1 /\ kids # <<>> => Cause(fs, m) = Cause(base, kids[1])
  <2> SUFFICES ASSUME k = 1, kids # <<>> PROVE Cause(fs, m) = Cause(base, kids[1])
    OBVIOUS
  <2>1. 1 \in 1..Len(kids) /\ kids[1] \in 1..n /\ m \in 1..Len(fs)
    BY <1>6, <1>8
  <2>2. KidsOf(fs, m) = kids
    <3>1. KidsOf(top, m) = <<>>
      BY <1>4, KidsOfNone
    <3> QED BY <1>7, <1>8, <3>1
  <2>3. fs[m].children # <<>> /\ fs[m].children[1].frame = kids[1]
    <3>1. /\ Len(KidsOf(fs, m)) = Len(fs[m].children)
          /\ \A j \in 1..Len(fs[m].children) : KidsOf(fs, m)[j] = fs[m].children[j].frame
      <4>1. Shaped(fs)
        BY <1>14 DEF Grown, Sound
      <4> QED BY ONLY <2>1, <4>1, KidsType
    <3> QED BY <2>1, <2>2, <3>1, SMTT(30)
  <2>4. Cause(fs, m) = Cause(fs, kids[1])
    <3>1. Shaped(fs)
      BY <1>14 DEF Grown, Sound
    <3>2. fs[m].children # <<>> => Cause(fs, m) = Cause(fs, fs[m].children[1].frame)
      BY ONLY <2>1, <3>1, CauseIs
    <3> QED BY <2>3, <3>2
  <2>5. Alike(base, fs, n)
    <3>1. \A f \in 1..n : fs[f] = base[f]
      BY <1>14 DEF Grown
    <3> QED BY <1>1, <1>3, <1>8, <3>1 DEF Alike
  <2>6. Cause(fs, kids[1]) = Cause(base, kids[1])
    BY <1>1, <1>8, <2>1, <2>5, CauseStable
  <2> QED BY <2>4, <2>6
<1> QED BY <1>3, <1>4, <1>8, <1>9, <1>11, <1>14, <1>15, <1>16

\* Context: a second chain over the first.
LEMMA TwiceGrown ==
  ASSUME NEW base, Sound(base), NEW chain, chain \in Seq(1..(Len(base) + Len(chain))), chain # <<>>,
         NEW outer, outer \in Seq(1..(Len(base) + Len(chain) + Len(outer))), outer # <<>>,
         NEW raised, raised = Linked(base, chain),
         NEW fs, fs = Adopted(Linked(raised, outer), "wrap", <<Len(raised)>>)
  PROVE  /\ Grown(base, fs, <<>>) /\ Len(fs) = Len(base) + Len(chain) + Len(outer)
         /\ Says(fs, Len(fs)) = outer \o chain
         /\ fs[Len(fs)].error = outer[1]
         /\ Len(outer) # 1 => fs[Len(fs)].children[1].kind = "source"
         /\ Len(outer) = 1 => Cause(fs, Len(fs)) = chain[Len(chain)]
<1> DEFINE n == Len(base)
           r == Len(raised)
           kids == <<r>>
<1>1. n \in Nat /\ Len(chain) \in Nat \ {0} /\ Len(outer) \in Nat \ {0}
  BY DEF Sound, Shaped
<1>2. /\ Grown(base, raised, <<>>) /\ r = n + Len(chain)
      /\ Says(raised, r) = chain /\ Cause(raised, r) = chain[Len(chain)]
  BY LinkedGrows
<1>3. Sound(raised) /\ r \in Nat \ {0} /\ r \in 1..r /\ kids \in Seq(1..r) /\ kids # <<>>
  <2>1. r \in Nat \ {0}
    BY <1>1, <1>2
  <2>2. r \in 1..r
    BY <2>1
  <2> QED BY <1>2, <2>1, <2>2 DEF Grown
<1>4. outer \in Seq(1..(Len(raised) + Len(outer)))
  BY <1>2
<1>5. kids[1] = r /\ ToSet(kids) = {r}
  BY DEF ToSet
<1>6. PICK kind \in Kinds : kind = "wrap"
  BY DEF Kinds
<1>7. fs = Adopted(Linked(raised, outer), kind, kids)
  BY <1>6
<1> HIDE DEF kids
<1>8. /\ Grown(raised, fs, kids) /\ Len(fs) = r + Len(outer)
      /\ Says(fs, Len(fs)) = outer \o FlattenSeq(Mapped(SaysOf(raised), kids))
      /\ fs[Len(fs)].error = outer[1]
      /\ Len(outer) # 1 => fs[Len(fs)].children[1].kind = "source"
      /\ Len(outer) = 1 /\ kids # <<>> => Cause(fs, Len(fs)) = Cause(raised, kids[1])
  <2>1. Sound(raised) /\ kids \in Seq(1..Len(raised))
    BY <1>3
  <2>2. /\ Grown(raised, fs, kids) /\ Len(fs) = Len(raised) + Len(outer)
        /\ Says(fs, Len(fs)) = outer \o FlattenSeq(Mapped(SaysOf(raised), kids))
        /\ fs[Len(fs)].error = outer[1]
        /\ Len(outer) # 1 => fs[Len(fs)].children[1].kind = "source"
        /\ Len(outer) = 1 /\ kids # <<>> => Cause(fs, Len(fs)) = Cause(raised, kids[1])
    BY ONLY <1>4, <1>7, <2>1, outer # <<>>, AdoptedGrows, SMTT(30)
  <2> QED BY <2>2
<1>9. FlattenSeq(Mapped(SaysOf(raised), kids)) = chain
  <2>1. Mapped(SaysOf(raised), kids) = <<SaysOf(raised)[r]>>
    BY MappedOne DEF kids
  <2>2. SaysOf(raised)[r] = chain
    BY <1>2, <1>3 DEF SaysOf
  <2>3. FlattenSeq(<<chain>>) = chain
    BY FlattenOne
  <2> QED BY <2>1, <2>2, <2>3
<1>10. ASSUME NEW f \in 1..Len(fs), f > n, NEW i \in 1..Len(KidsOf(fs, f))
       PROVE  KidsOf(fs, f)[i] > n
  <2>1. CASE f > r
    <3>1. KidsOf(fs, f)[i] > r \/ KidsOf(fs, f)[i] \in ToSet(kids)
      BY <1>8, <1>10, <2>1 DEF Grown
    <3>2. f \in 1..Len(fs) /\ KidsOf(fs, f)[i] \in Nat
      <4>1. KidsOf(fs, f) \in Seq(1..(f - 1))
        BY <1>8, KidsType DEF Grown, Sound
      <4>2. KidsOf(fs, f)[i] \in 1..(f - 1)
        BY <4>1
      <4> QED BY <4>2
    <3> QED BY <1>1, <1>2, <1>5, <3>1, <3>2
  <2>2. CASE ~(f > r)
    <3>1. f \in 1..r
      BY <1>3, <2>2
    <3>2. KidsOf(fs, f) = KidsOf(raised, f)
      BY <1>8, <3>1 DEF Grown, KidsOf
    <3>3. ToSet(<<>>) = {}
      BY DEF ToSet
    <3> QED BY <1>2, <1>10, <3>1, <3>2, <3>3 DEF Grown
  <2> QED BY <2>1, <2>2
<1>11. Grown(base, fs, <<>>)
  <2>1. Sound(fs) /\ (\A f \in 1..r : fs[f] = raised[f]) /\ (\A f \in 1..n : raised[f] = base[f])
    BY <1>2, <1>8 DEF Grown
  <2>2. \A f \in 1..n : fs[f] = base[f]
    BY <1>1, <1>2, <2>1, SMTT(30)
  <2>3. Len(fs) > n
    BY <1>1, <1>2, <1>8
  <2>4. \A f \in 1..Len(fs) : f > Len(base) =>
          \A i \in 1..Len(KidsOf(fs, f)) :
            KidsOf(fs, f)[i] > Len(base) \/ KidsOf(fs, f)[i] \in ToSet(<<>>)
    BY ONLY <1>10
  <2> QED BY ONLY <2>1, <2>2, <2>3, <2>4, Zenon DEF Grown
<1> QED BY <1>1, <1>2, <1>3, <1>5, <1>8, <1>9, <1>11

-----------------------------------------------------------------------------
\* The trees of the program's faults.

Roots == faults \cup ToSet(collection)

\* What the iterator with the stack p has left, from its top.
Left(fs, p) == [i \in 1..Len(p) |-> Preorder(fs, p[Len(p) - i + 1])]

\* Errors are numbered by frames, the trees of the program's faults say their stories,
\* the iterator has the rest of its tree before it, and no one's fault is in a tree or
\* in two places.
TreeIInv ==
  /\ TypeOK
  /\ \A f \in Ids : frames[f].error \in Ids
  /\ \A r \in Roots : story[r] = Says(frames, r)
  /\ FlattenSeq(Left(frames, pending)) = toVisit
  /\ faults \cap ToSet(collection) = {}
  /\ \A f \in Ids : \A i \in 1..Len(KidsOf(frames, f)) : KidsOf(frames, f)[i] \notin Roots

LEMMA TreeFacts ==
  ASSUME TreeIInv
  PROVE  /\ Sound(frames) /\ Shaped(frames) /\ Ids = 1..Len(frames) /\ Len(frames) \in Nat
         /\ Roots \subseteq Ids /\ faults \subseteq Roots /\ pending \in Seq(Ids)
         /\ collection \in Seq(Ids) /\ ToSet(collection) \subseteq Ids /\ Ids \subseteq Nat \ {0}
<1>1. TypeOK
  BY DEF TreeIInv
<1>2. Shaped(frames) /\ Ids = 1..Len(frames) /\ Len(frames) \in Nat
  BY <1>1 DEF TypeOK, Shaped, Ids
<1>3. Sound(frames)
  BY <1>2 DEF Sound, TreeIInv
<1>4. ToSet(collection) \subseteq Ids
  BY <1>1 DEF TypeOK, ToSet
<1>5. faults \subseteq Ids /\ pending \in Seq(Ids) /\ collection \in Seq(Ids)
  BY <1>1 DEF TypeOK
<1>6. Ids \subseteq Nat \ {0}
  BY <1>2
<1>7. Roots \subseteq Ids /\ faults \subseteq Roots
  BY <1>4, <1>5 DEF Roots
<1> QED BY <1>2, <1>3, <1>4, <1>5, <1>6, <1>7

LEMMA StoryIs ==
  ASSUME NEW fs, Shaped(fs), NEW r \in 1..Len(fs), NEW tree, tree = Preorder(fs, r)
  PROVE  [i \in DOMAIN tree |-> fs[tree[i]].error] = Says(fs, r)
<1>1. tree \in Seq(1..r) /\ Len(fs) \in Nat
  BY PreorderType, FrameFields
<1>2. \A i \in 1..Len(tree) : tree[i] \in 1..Len(fs)
  BY <1>1
<1>3. DOMAIN tree = 1..Len(tree)
  BY <1>1
<1>4. \A i \in 1..Len(tree) : ErrorOf(fs)[tree[i]] = fs[tree[i]].error
  BY <1>2 DEF ErrorOf
<1> QED BY <1>3, <1>4 DEF Says, Mapped

LEMMA TreeImpliesInv == TreeIInv => Inv
<1> SUFFICES ASSUME TreeIInv PROVE Inv
  OBVIOUS
<1>1. /\ Shaped(frames) /\ Roots \subseteq 1..Len(frames) /\ pending \in Seq(Ids)
  BY TreeFacts
<1>2. NothingLost
  <2> SUFFICES ASSUME NEW r \in Roots, NEW tree, tree = Preorder(frames, r)
               PROVE  story[r] = [i \in DOMAIN tree |-> frames[tree[i]].error]
    BY DEF NothingLost, Roots
  <2>1. r \in 1..Len(frames)
    BY <1>1
  <2>2. [i \in DOMAIN tree |-> frames[tree[i]].error] = Says(frames, r)
    BY <1>1, <2>1, StoryIs
  <2> QED BY <2>2 DEF TreeIInv
<1>3. IteratesPreorder
  <2>1. DOMAIN pending = 1..Len(pending)
    BY <1>1
  <2> QED BY <2>1 DEF IteratesPreorder, Left, TreeIInv
<1> QED BY <1>2, <1>3 DEF Inv, TreeIInv

LEMMA LeftStable ==
  ASSUME NEW fs, NEW gs, NEW n \in Nat, NEW p \in Seq(1..n),
         \A f \in 1..n : Preorder(gs, f) = Preorder(fs, f)
  PROVE  Left(gs, p) = Left(fs, p)
<1>1. \A i \in 1..Len(p) : Len(p) - i + 1 \in 1..Len(p)
  OBVIOUS
<1>2. \A i \in 1..Len(p) : p[Len(p) - i + 1] \in 1..n
  BY <1>1
<1> QED BY <1>2 DEF Left

\* A constructor gives the program a fault that says what it must.
LEMMA ReturnKeeps ==
  ASSUME TreeIInv, NEW fs, NEW kids, Grown(frames, fs, kids), NEW used, NEW box,
         NEW errors, errors = Says(fs, Len(fs)), Return(fs, used, errors, box),
         ToSet(collection') \subseteq ToSet(collection), collection' \in Seq(Ids),
         ToSet(kids) \cap ((faults \ used) \cup ToSet(collection')) = {}
  PROVE  TreeIInv'
<1> DEFINE n == Len(frames)
           m == Len(fs)
<1>1. /\ Shaped(frames) /\ Ids = 1..n /\ n \in Nat /\ Roots \subseteq Ids /\ TypeOK
  BY TreeFacts DEF TreeIInv
<1>2. /\ Shaped(fs) /\ m \in Nat /\ m > n /\ (\A f \in 1..n : fs[f] = frames[f])
      /\ \A f \in 1..m : fs[f].error \in 1..m
  BY DEF Grown, Sound, Shaped
<1>3. /\ frames' = fs /\ faults' = (faults \ used) \cup {m}
      /\ boxed' = (IF box THEN boxed \cup {m} ELSE boxed)
      /\ story' = Tell(fs, m, Says(fs, m))
      /\ pending' = pending /\ held' = held /\ toVisit' = toVisit /\ uses' = uses
  BY DEF Return
<1>4. Ids' = 1..m /\ Ids \subseteq 1..m /\ m \in 1..m /\ m \notin Ids
  BY <1>1, <1>2, <1>3 DEF Ids
<1>5. Says(fs, m) \in Seq(1..m)
  BY <1>2, <1>4, SaysType
<1>6. Alike(frames, fs, n)
  BY <1>1, <1>2 DEF Alike
<1>7. \A f \in Ids : Preorder(fs, f) = Preorder(frames, f) /\ Says(fs, f) = Says(frames, f)
  BY <1>1, <1>2, <1>6, SaysStable
<1>8. /\ story' = [f \in 1..m |-> story'[f]]
      /\ story'[m] = Says(fs, m)
      /\ \A f \in Ids : story'[f] = story[f]
      /\ \A f \in 1..m : f # m /\ f \notin Ids => story'[f] = <<>>
  BY <1>3, <1>4 DEF Tell
<1> HIDE DEF n, m
<1>9. TypeOK'
  <2>1. /\ frames \in Seq(Frame) /\ faults \in SUBSET Ids /\ boxed \in SUBSET Ids
        /\ pending \in Seq(Ids) /\ held \in SUBSET Ids /\ story \in [Ids -> Seq(Ids)]
        /\ toVisit \in Seq(Ids) /\ uses \in Nat
    BY <1>1 DEF TypeOK
  <2>2. frames' \in Seq(Frame)
    BY <1>2, <1>3 DEF Shaped
  <2>3. faults' \in SUBSET 1..m /\ boxed' \in SUBSET 1..m /\ held' \in SUBSET 1..m
    BY <1>3, <1>4, <2>1
  <2>4. collection' \in Seq(1..m) /\ pending' \in Seq(1..m) /\ toVisit' \in Seq(1..m)
    <3> DEFINE D == 1..m
    <3>1. Ids \subseteq D
      BY <1>4
    <3> HIDE DEF D
    <3>2. collection' \in Seq(D) /\ pending \in Seq(D) /\ toVisit \in Seq(D)
      BY <2>1, <3>1
    <3> QED BY <1>3, <3>2 DEF D
  <2>5. story' \in [1..m -> Seq(1..m)]
    <3>1. \A f \in 1..m : story'[f] \in Seq(1..m)
      <4> SUFFICES ASSUME NEW f \in 1..m PROVE story'[f] \in Seq(1..m)
        OBVIOUS
      <4>1. CASE f = m
        BY <1>5, <1>8, <4>1
      <4>2. CASE f \in Ids
        <5> DEFINE D == 1..m
        <5>1. Ids \subseteq D
          BY <1>4
        <5> HIDE DEF D
        <5>2. story[f] \in Seq(Ids)
          BY <2>1, <4>2
        <5>3. story[f] \in Seq(D)
          BY ONLY <5>1, <5>2, MoreValues
        <5> QED BY <1>8, <4>2, <5>3 DEF D
      <4>3. CASE f # m /\ f \notin Ids
        <5>1. <<>> \in Seq(1..m)
          OBVIOUS
        <5> QED BY <1>8, <4>3, <5>1
      <4> QED BY <4>1, <4>2, <4>3
    <3> QED BY <1>8, <3>1
  <2>6. \A f \in 1..m : \A i \in DOMAIN frames'[f].children : frames'[f].children[i].frame < f
    BY <1>2, <1>3 DEF Shaped, m
  <2>7. uses' \in Nat
    BY <1>3, <2>1
  <2> QED BY <1>4, <2>2, <2>3, <2>4, <2>5, <2>6, <2>7 DEF TypeOK
<1>10. \A f \in Ids' : frames'[f].error \in Ids'
  BY <1>2, <1>3, <1>4
<1>11. Roots' \subseteq Roots \cup {m}
  BY <1>3 DEF Roots
<1>12. \A r \in Roots' : story'[r] = Says(frames', r)
  <2> SUFFICES ASSUME NEW r \in Roots' PROVE story'[r] = Says(frames', r)
    OBVIOUS
  <2>1. CASE r = m
    BY <1>3, <1>8, <2>1
  <2>2. CASE r # m
    <3>1. r \in Roots /\ r \in Ids
      BY <1>1, <1>11, <2>2
    <3>2. story[r] = Says(frames, r)
      BY <3>1 DEF TreeIInv
    <3> QED BY <1>3, <1>7, <1>8, <3>1, <3>2
  <2> QED BY <2>1, <2>2
<1>13. FlattenSeq(Left(frames', pending')) = toVisit'
  <2>1. Left(fs, pending) = Left(frames, pending)
    <3>1. pending \in Seq(1..n)
      BY <1>1 DEF TypeOK
    <3> QED BY <1>1, <1>7, <3>1, LeftStable
  <2>2. FlattenSeq(Left(frames, pending)) = toVisit
    BY DEF TreeIInv
  <2> QED BY <1>3, <2>1, <2>2
<1>14. faults' \cap ToSet(collection') = {}
  <2>1. m \notin ToSet(collection')
    BY <1>1, <1>4 DEF Roots
  <2>2. faults \cap ToSet(collection) = {}
    BY DEF TreeIInv
  <2> QED BY <1>3, <2>1, <2>2
<1>15. ASSUME NEW f \in Ids', NEW i \in 1..Len(KidsOf(frames', f))
       PROVE  KidsOf(frames', f)[i] \notin Roots'
  <2> DEFINE c == KidsOf(fs, f)[i]
  <2>1. f \in 1..Len(fs) /\ f \in 1..m /\ i \in 1..Len(KidsOf(fs, f))
    BY <1>3, <1>4 DEF m
  <2>2. c \in 1..(f - 1)
    <3>1. KidsOf(fs, f) \in Seq(1..(f - 1))
      BY <1>2, <2>1, KidsType
    <3> QED BY <2>1, <3>1
  <2>3. c # m
    BY <1>2, <2>1, <2>2
  <2>4. CASE f \in Ids
    <3>1. KidsOf(fs, f) = KidsOf(frames, f)
      BY <1>1, <1>2, <2>4 DEF KidsOf
    <3>2. c \notin Roots
      BY <2>1, <2>4, <3>1 DEF TreeIInv
    <3> QED BY <1>3, <1>11, <2>3, <3>2
  <2>5. CASE f \notin Ids
    <3>1. f > Len(frames)
      BY <1>1, <2>1, <2>5 DEF n
    <3>2. c > Len(frames) \/ c \in ToSet(kids)
      BY <2>1, <3>1 DEF Grown
    <3>3. CASE c > Len(frames)
      <4>1. c \notin Ids
        BY <1>1, <2>2, <3>3 DEF n
      <4> QED BY <1>1, <1>3, <1>11, <2>3, <4>1
    <3>4. CASE c \in ToSet(kids)
      <4>1. c \notin (faults \ used) \cup ToSet(collection')
        BY <3>4
      <4>2. Roots' = (faults \ used) \cup {m} \cup ToSet(collection')
        BY <1>3 DEF Roots
      <4> QED BY <1>3, <2>3, <4>1, <4>2
    <3> QED BY <3>2, <3>3, <3>4
  <2> QED BY <2>4, <2>5
<1> QED BY <1>9, <1>10, <1>12, <1>13, <1>14, <1>15 DEF TreeIInv

\* A chain of errors that have a frame or are about to get one.
Usable(chain) == chain # <<>> /\ chain \in Seq(1..(Len(frames) + Len(chain)))

LEMMA MadeFacts ==
  ASSUME TreeIInv, NEW e \in Errors
  PROVE  /\ Usable(Made(e)) /\ Len(Made(e)) = Sources[e] + 1
         /\ Made(e)[1] = Len(frames) + Len(Made(e))
         /\ Sources[e] \in Nat
<1> DEFINE n == Len(frames)
           k == Sources[e] + 1
<1>1. n \in Nat /\ Sources[e] \in Nat /\ k \in Nat \ {0}
  BY TreeFacts, SourcesAssumption
<1>2. Made(e) = [i \in 1..k |-> n + k - i + 1]
  BY DEF Made
<1> HIDE DEF n, k
<1>3. \A i \in 1..k : n + k - i + 1 \in 1..(n + k)
  BY <1>1
<1>4. /\ Made(e) \in Seq(1..(n + k)) /\ Len(Made(e)) = k /\ Made(e) # <<>>
      /\ Made(e)[1] = n + k
  BY <1>1, <1>2, <1>3
<1> QED BY <1>1, <1>4 DEF Usable, n, k

LEMMA LentFacts ==
  ASSUME TreeIInv, NEW r \in faults
  PROVE  /\ Usable(Lent(r)) /\ Lent(r) \in Seq(Ids)
         /\ Lent(r)[Len(Lent(r))] = Cause(frames, r)
<1> DEFINE branch == FirstBranch(frames, r)
           n == Len(frames)
<1>1. /\ Shaped(frames) /\ Ids = 1..n /\ n \in Nat /\ r \in 1..n
      /\ \A f \in 1..n : frames[f].error \in 1..n
  BY TreeFacts DEF TreeIInv
<1>2. branch \in Seq(1..n) /\ branch # <<>>
  <2>1. branch \in Seq(1..r) /\ branch # <<>>
    BY <1>1, BranchType
  <2>2. 1..r \subseteq 1..n
    BY <1>1
  <2> QED BY ONLY <2>1, <2>2, MoreValues
<1>3. Lent(r) = [i \in DOMAIN branch |-> frames[branch[i]].error]
  BY DEF Lent
<1>4. Cause(frames, r) = frames[branch[Len(branch)]].error
  BY DEF Cause, Last
<1> HIDE DEF branch, n
<1>5. /\ Len(branch) \in Nat \ {0} /\ DOMAIN branch = 1..Len(branch)
      /\ \A i \in 1..Len(branch) : branch[i] \in 1..n
  <2> DEFINE D == 1..n
  <2>1. branch \in Seq(D) /\ branch # <<>>
    BY <1>2
  <2> HIDE DEF D
  <2>2. Len(branch) \in Nat \ {0}
    BY <2>1
  <2>3. DOMAIN branch = 1..Len(branch)
    BY <2>1
  <2>4. \A i \in 1..Len(branch) : branch[i] \in D
    BY <2>1
  <2> QED BY <2>2, <2>3, <2>4 DEF D
<1>6. /\ Lent(r) \in Seq(1..n) /\ Len(Lent(r)) = Len(branch)
      /\ Lent(r)[Len(branch)] = frames[branch[Len(branch)]].error
  BY <1>1, <1>3, <1>5
<1>7. Lent(r) # <<>>
  BY <1>5, <1>6
<1>8. Lent(r) \in Seq(1..(n + Len(branch)))
  <2>1. 1..n \subseteq 1..(n + Len(branch))
    BY <1>1, <1>5
  <2> QED BY ONLY <1>6, <2>1, MoreValues
<1> QED BY <1>1, <1>4, <1>6, <1>7, <1>8 DEF Usable, n

LEMMA NoneAdopted == ToSet(<<>>) = {}
BY DEF ToSet

LEMMA RaiseKeeps ==
  ASSUME TreeIInv, NEW chain, Usable(chain), NEW used, NEW box, Raise(chain, used, box)
  PROVE  TreeIInv'
<1> DEFINE fs == Linked(frames, chain)
<1>1. Grown(frames, fs, <<>>) /\ Says(fs, Len(fs)) = chain
  BY TreeFacts, LinkedGrows DEF Usable
<1>2. Return(fs, used, chain, box) /\ collection' = collection
  BY DEF Raise
<1> HIDE DEF fs
<1>3. ToSet(collection') \subseteq ToSet(collection) /\ collection' \in Seq(Ids)
  BY <1>2, TreeFacts
<1> QED BY <1>1, <1>2, <1>3, NoneAdopted, ReturnKeeps

LEMMA WrapGrows ==
  ASSUME TreeIInv, NEW r \in faults, NEW e \in Errors,
         NEW fs, fs = Adopted(Linked(frames, Made(e)), "wrap", <<r>>)
  PROVE  /\ Grown(frames, fs, <<r>>) /\ Len(fs) = Len(frames) + Len(Made(e))
         /\ Says(fs, Len(fs)) = Made(e) \o story[r]
         /\ fs[Len(fs)].error = Made(e)[1]
         /\ Len(Made(e)) # 1 => fs[Len(fs)].children[1].kind = "source"
         /\ Len(Made(e)) = 1 => Cause(fs, Len(fs)) = Cause(frames, r)
<1> DEFINE kids == <<r>>
           chain == Made(e)
<1>1. PICK kind \in Kinds : kind = "wrap"
  BY DEF Kinds
<1>2. /\ Sound(frames) /\ Shaped(frames) /\ r \in 1..Len(frames) /\ kids \in Seq(1..Len(frames))
      /\ story[r] = Says(frames, r)
  <2>1. r \in Roots /\ r \in 1..Len(frames) /\ Sound(frames) /\ Shaped(frames)
    BY TreeFacts
  <2> QED BY <2>1 DEF TreeIInv
<1>3. chain # <<>> /\ chain \in Seq(1..(Len(frames) + Len(chain)))
  BY MadeFacts DEF Usable
<1>4. kids # <<>> /\ kids[1] = r
  OBVIOUS
<1>5. FlattenSeq(Mapped(SaysOf(frames), kids)) = story[r]
  <2>1. Mapped(SaysOf(frames), kids) = <<SaysOf(frames)[r]>>
    BY MappedOne
  <2>2. SaysOf(frames)[r] = story[r]
    BY <1>2 DEF SaysOf
  <2>3. story[r] \in Seq(Nat)
    BY <1>2, SaysType
  <2>4. FlattenSeq(<<story[r]>>) = story[r]
    BY <2>3, FlattenOne
  <2> QED BY <2>1, <2>2, <2>4
<1>6. fs = Adopted(Linked(frames, chain), kind, kids)
  BY <1>1
<1> HIDE DEF kids, chain
<1>7. /\ Grown(frames, fs, kids) /\ Len(fs) = Len(frames) + Len(chain)
      /\ Says(fs, Len(fs)) = chain \o FlattenSeq(Mapped(SaysOf(frames), kids))
  BY ONLY <1>2, <1>3, <1>6, AdoptedGrows
<1>8. /\ fs[Len(fs)].error = chain[1]
      /\ Len(chain) # 1 => fs[Len(fs)].children[1].kind = "source"
      /\ Len(chain) = 1 /\ kids # <<>> => Cause(fs, Len(fs)) = Cause(frames, kids[1])
  BY ONLY <1>2, <1>3, <1>6, AdoptedGrows, SMTT(30)
<1> QED BY <1>4, <1>5, <1>7, <1>8 DEF kids, chain

LEMMA WrapKeeps ==
  ASSUME TreeIInv, NEW r \in faults, NEW e \in Errors, Wrap(r, e)
  PROVE  TreeIInv'
<1> DEFINE fs == Adopted(Linked(frames, Made(e)), "wrap", <<r>>)
           kids == <<r>>
           errors == Made(e) \o story[r]
<1>1. Grown(frames, fs, kids) /\ Says(fs, Len(fs)) = errors
  BY WrapGrows
<1>2. Return(fs, {r}, errors, FALSE) /\ collection' = collection
  BY DEF Wrap
<1>3. ToSet(kids) = {r}
  BY DEF ToSet
<1> HIDE DEF fs, kids, errors
<1>4. ToSet(collection') \subseteq ToSet(collection) /\ collection' \in Seq(Ids)
  BY <1>2, TreeFacts
<1>5. ToSet(kids) \cap ((faults \ {r}) \cup ToSet(collection')) = {}
  BY <1>2, <1>3 DEF TreeIInv
<1> QED BY <1>1, <1>2, <1>4, <1>5, ReturnKeeps

\* A message, or an error with its sources, over what is raised from a chain.
LEMMA ContextKeeps ==
  ASSUME TreeIInv, NEW chain, Usable(chain), NEW outer, outer # <<>>,
         outer \in Seq(1..(Len(frames) + Len(chain) + Len(outer))),
         NEW raised, raised = Linked(frames, chain),
         NEW fs, fs = Adopted(Linked(raised, outer), "wrap", <<Len(raised)>>),
         NEW used, NEW box, Return(fs, used, outer \o chain, box), collection' = collection
  PROVE  TreeIInv'
<1> DEFINE errors == outer \o chain
<1>1. chain # <<>> /\ chain \in Seq(1..(Len(frames) + Len(chain))) /\ Sound(frames)
  BY TreeFacts DEF Usable
<1>2. Grown(frames, fs, <<>>) /\ Says(fs, Len(fs)) = errors
  <2>1. Grown(frames, fs, <<>>) /\ Says(fs, Len(fs)) = outer \o chain
    <3>1. /\ outer # <<>> /\ outer \in Seq(1..(Len(frames) + Len(chain) + Len(outer)))
          /\ raised = Linked(frames, chain)
          /\ fs = Adopted(Linked(raised, outer), "wrap", <<Len(raised)>>)
      OBVIOUS
    <3> QED BY ONLY <1>1, <3>1, TwiceGrown, SMTT(30)
  <2> QED BY <2>1
<1>3. ToSet(collection') \subseteq ToSet(collection) /\ collection' \in Seq(Ids)
  BY TreeFacts
<1> HIDE DEF errors
<1>4. Return(fs, used, errors, box)
  BY DEF errors
<1> QED BY <1>2, <1>3, <1>4, NoneAdopted, ReturnKeeps

LEMMA MessageFacts ==
  ASSUME TreeIInv, NEW chain, Usable(chain), NEW outer,
         outer = <<Len(Linked(frames, chain)) + 1>>
  PROVE  /\ outer # <<>> /\ Len(outer) = 1
         /\ outer \in Seq(1..(Len(frames) + Len(chain) + Len(outer)))
<1>1. Len(Linked(frames, chain)) = Len(frames) + Len(chain)
  BY TreeFacts, LinkedGrows DEF Usable
<1>2. Len(frames) \in Nat /\ Len(chain) \in Nat
  BY TreeFacts DEF Usable
<1> QED BY <1>1, <1>2

LEMMA GiveContextKeeps ==
  ASSUME TreeIInv, NEW chain, Usable(chain), NEW used, GiveContext(chain, used)
  PROVE  TreeIInv'
<1> DEFINE raised == Linked(frames, chain)
           outer == <<Len(raised) + 1>>
           fs == Adopted(Linked(raised, outer), "wrap", <<Len(raised)>>)
<1>1. outer # <<>> /\ outer \in Seq(1..(Len(frames) + Len(chain) + Len(outer)))
  BY MessageFacts
<1>2. Return(fs, used, outer \o chain, TRUE) /\ collection' = collection
  BY DEF GiveContext
<1>3. raised = Linked(frames, chain) /\ fs = Adopted(Linked(raised, outer), "wrap", <<Len(raised)>>)
  OBVIOUS
<1> HIDE DEF raised, outer, fs
<1> QED BY <1>1, <1>2, <1>3, ContextKeeps

\* ChangeContext numbers the outer error's frames after those of the chain.
OuterFrames(e, chain) == [i \in DOMAIN Made(e) |-> Made(e)[i] + Len(chain)]

LEMMA OuterFacts ==
  ASSUME TreeIInv, NEW chain, Usable(chain), NEW e \in Errors,
         NEW outer, outer = OuterFrames(e, chain)
  PROVE  /\ outer # <<>> /\ Len(outer) = Len(Made(e))
         /\ outer \in Seq(1..(Len(frames) + Len(chain) + Len(outer)))
         /\ outer[1] = Len(frames) + Len(chain) + Len(outer)
<1> DEFINE n == Len(frames)
           k == Len(Made(e))
           c == Len(chain)
<1>1. n \in Nat /\ c \in Nat /\ k \in Nat \ {0}
  BY TreeFacts, MadeFacts DEF Usable
<1>2. Made(e) \in Seq(1..(n + k)) /\ Made(e)[1] = n + k
  BY MadeFacts DEF Usable
<1>3. DOMAIN Made(e) = 1..k /\ \A i \in 1..k : Made(e)[i] \in 1..(n + k)
  BY <1>2
<1>4. outer = [i \in 1..k |-> Made(e)[i] + c]
  BY <1>3 DEF OuterFrames
<1> HIDE DEF n, k, c
<1>5. \A i \in 1..k : Made(e)[i] + c \in 1..(n + c + k)
  BY <1>1, <1>3
<1>6. outer \in Seq(1..(n + c + k)) /\ Len(outer) = k /\ outer[1] = Made(e)[1] + c /\ outer # <<>>
  BY <1>1, <1>4, <1>5
<1>7. Made(e)[1] + c = n + c + k
  BY <1>1, <1>2
<1> QED BY <1>6, <1>7 DEF n, k, c

LEMMA ChangeContextKeeps ==
  ASSUME TreeIInv, NEW chain, Usable(chain), NEW used, NEW e \in Errors,
         ChangeContext(chain, used, e)
  PROVE  TreeIInv'
<1> DEFINE raised == Linked(frames, chain)
           outer == OuterFrames(e, chain)
           fs == Adopted(Linked(raised, outer), "wrap", <<Len(raised)>>)
<1>1. outer # <<>> /\ outer \in Seq(1..(Len(frames) + Len(chain) + Len(outer)))
  BY OuterFacts
<1>2. Return(fs, used, outer \o chain, FALSE) /\ collection' = collection
  BY DEF ChangeContext, OuterFrames
<1>3. raised = Linked(frames, chain) /\ fs = Adopted(Linked(raised, outer), "wrap", <<Len(raised)>>)
  OBVIOUS
<1> HIDE DEF raised, outer, fs
<1> QED BY <1>1, <1>2, <1>3, ContextKeeps

LEMMA IntoFaultKeeps ==
  ASSUME TreeIInv, NEW e \in Errors, NEW box, IntoFault(e, box)
  PROVE  TreeIInv'
<1> DEFINE chain == Made(e)
           kids == collection
           fs == Adopted(Linked(frames, chain), "batch", kids)
           told == [i \in DOMAIN collection |-> story[collection[i]]]
           errors == chain \o FlattenSeq(told)
<1>1. PICK kind \in Kinds : kind = "batch"
  BY DEF Kinds
<1>2. Sound(frames) /\ kids \in Seq(1..Len(frames)) /\ Ids = 1..Len(frames)
  BY TreeFacts
<1>3. chain # <<>> /\ chain \in Seq(1..(Len(frames) + Len(chain)))
  BY MadeFacts DEF Usable
<1>4. told = Mapped(SaysOf(frames), kids)
  <2>1. \A i \in 1..Len(kids) : kids[i] \in Roots /\ kids[i] \in 1..Len(frames)
    <3>1. DOMAIN kids = 1..Len(kids)
      BY <1>2
    <3> QED BY <1>2, <3>1 DEF Roots, ToSet
  <2>2. \A i \in 1..Len(kids) : story[kids[i]] = SaysOf(frames)[kids[i]]
    BY <2>1 DEF TreeIInv, SaysOf
  <2>3. DOMAIN collection = 1..Len(kids)
    BY <1>2
  <2> QED BY <2>2, <2>3 DEF Mapped
<1>5. Return(fs, {}, errors, box) /\ collection' = <<>>
  BY DEF IntoFault
<1>6. fs = Adopted(Linked(frames, chain), kind, kids)
  BY <1>1
<1> HIDE DEF chain, kids, fs, told
<1>7. /\ Grown(frames, fs, kids)
      /\ Says(fs, Len(fs)) = chain \o FlattenSeq(Mapped(SaysOf(frames), kids))
  BY ONLY <1>2, <1>3, <1>6, AdoptedGrows
<1>8. Says(fs, Len(fs)) = errors
  BY <1>4, <1>7
<1>9. ToSet(collection') \subseteq ToSet(collection) /\ collection' \in Seq(Ids)
  BY <1>5, NoneAdopted
<1>10. ToSet(kids) \cap ((faults \ {}) \cup ToSet(collection')) = {}
  <2>1. faults \cap ToSet(collection) = {}
    BY DEF TreeIInv
  <2> QED BY <1>5, <2>1, NoneAdopted DEF kids
<1> HIDE DEF errors
<1> QED BY <1>5, <1>7, <1>8, <1>9, <1>10, ReturnKeeps

\* Frames whose contexts and attachments are written.
LEMMA WriteFrames ==
  ASSUME TreeIInv, NEW r \in faults, Write(r)
  PROVE  /\ frames' \in Seq(Frame) /\ Len(frames') = Len(frames)
         /\ \A f \in Ids : f # r => frames'[f] = frames[f]
         /\ \A f \in Ids : /\ frames'[f].children = frames[f].children
                           /\ frames'[f].error = frames[f].error
         /\ frames' # frames => r \notin held \cup ToSet(pending)
<1>1. /\ frames \in Seq(Frame) /\ Ids = 1..Len(frames) /\ DOMAIN frames = Ids /\ r \in Ids
      /\ uses + 1 \in Nat /\ frames[r] \in Frame
  <2>1. r \in Ids /\ Ids = 1..Len(frames)
    BY TreeFacts
  <2>2. frames \in Seq(Frame) /\ uses \in Nat
    BY DEF TreeIInv, TypeOK
  <2> QED BY <2>1, <2>2
<1>2. ASSUME NEW v \in Frame, v.children = frames[r].children, v.error = frames[r].error,
             frames' = [frames EXCEPT ![r] = v]
      PROVE  /\ frames' \in Seq(Frame) /\ Len(frames') = Len(frames)
             /\ \A f \in Ids : f # r => frames'[f] = frames[f]
             /\ \A f \in Ids : /\ frames'[f].children = frames[f].children
                               /\ frames'[f].error = frames[f].error
  <2>1. /\ frames' \in Seq(Frame) /\ Len(frames') = Len(frames)
        /\ \A f \in Ids : f # r => frames'[f] = frames[f]
        /\ frames'[r] = v
    BY <1>1, <1>2
  <2> QED BY <1>2, <2>1
<1>3. CASE UNCHANGED frames
  BY <1>1, <1>3
<1>4. CASE SoleOwner(r) /\ frames' = [frames EXCEPT ![r].context = uses + 1]
  <2> DEFINE v == [frames[r] EXCEPT !.context = uses + 1]
  <2>1. v \in Frame /\ v.children = frames[r].children /\ v.error = frames[r].error
    <3> DEFINE c == uses + 1
    <3>1. c \in Nat
      BY <1>1
    <3> HIDE DEF c
    <3>2. [frames[r] EXCEPT !.context = c] \in Frame
      BY <1>1, <3>1, Zenon DEF Frame
    <3>3. /\ [frames[r] EXCEPT !.context = c].children = frames[r].children
          /\ [frames[r] EXCEPT !.context = c].error = frames[r].error
      BY <1>1 DEF Frame
    <3> QED BY <3>2, <3>3 DEF c
  <2>2. frames' = [frames EXCEPT ![r] = v]
    BY <1>4
  <2> HIDE DEF v
  <2> QED BY <1>2, <1>4, <2>1, <2>2 DEF SoleOwner
<1>5. CASE SoleOwner(r) /\ frames' = [frames EXCEPT ![r].attachments = Append(@, uses + 1)]
  <2> DEFINE a == Append(frames[r].attachments, uses + 1)
             v == [frames[r] EXCEPT !.attachments = a]
  <2>1. v \in Frame /\ v.children = frames[r].children /\ v.error = frames[r].error
    <3>1. a \in Seq(Nat)
      <4>1. frames[r].attachments \in Seq(Nat)
        BY <1>1 DEF Frame
      <4> QED BY <1>1, <4>1
    <3> HIDE DEF a
    <3>2. [frames[r] EXCEPT !.attachments = a] \in Frame
      BY <1>1, <3>1, Zenon DEF Frame
    <3>3. /\ [frames[r] EXCEPT !.attachments = a].children = frames[r].children
          /\ [frames[r] EXCEPT !.attachments = a].error = frames[r].error
      BY <1>1 DEF Frame
    <3> QED BY <3>2, <3>3
  <2>2. frames' = [frames EXCEPT ![r] = v]
    BY <1>5
  <2> HIDE DEF v
  <2> QED BY <1>2, <1>5, <2>1, <2>2 DEF SoleOwner
<1> QED BY <1>3, <1>4, <1>5 DEF Write

LEMMA WriteKeeps ==
  ASSUME TreeIInv, NEW r \in faults, Write(r)
  PROVE  TreeIInv'
<1> DEFINE n == Len(frames)
<1>1. /\ Shaped(frames) /\ Ids = 1..n /\ n \in Nat /\ Roots \subseteq Ids /\ TypeOK
      /\ Ids \subseteq Nat
  BY TreeFacts DEF TreeIInv
<1>2. /\ frames' \in Seq(Frame) /\ Len(frames') = n
      /\ \A f \in Ids : /\ frames'[f].children = frames[f].children
                        /\ frames'[f].error = frames[f].error
  BY WriteFrames
<1>3. /\ uses' \in Nat
      /\ UNCHANGED <<faults, boxed, collection, pending, held, story, toVisit>>
  BY <1>1 DEF Write, Use, TypeOK
<1>4. Ids' = Ids
  BY <1>1, <1>2 DEF Ids
<1>5. \A f \in Ids : \A i \in DOMAIN frames'[f].children : frames'[f].children[i].frame < f
  BY <1>1, <1>2 DEF Shaped
<1>6. Shaped(frames')
  BY <1>1, <1>2, <1>5 DEF Shaped
<1>7. Alike(frames, frames', n)
  BY <1>1, <1>2 DEF Alike
<1>8. \A f \in Ids :
        Preorder(frames', f) = Preorder(frames, f) /\ Says(frames', f) = Says(frames, f)
  BY <1>1, <1>6, <1>7, SaysStable
<1> HIDE DEF n
<1>9. TypeOK'
  BY <1>1, <1>2, <1>3, <1>4, <1>5 DEF TypeOK
<1>10. Roots' = Roots
  BY <1>3 DEF Roots
<1>11. \A f \in Ids' : frames'[f].error \in Ids'
  BY <1>2, <1>4 DEF TreeIInv
<1>12. \A r1 \in Roots' : story'[r1] = Says(frames', r1)
  BY <1>1, <1>3, <1>8, <1>10 DEF TreeIInv
<1>13. FlattenSeq(Left(frames', pending')) = toVisit'
  <2>1. Left(frames', pending) = Left(frames, pending)
    <3>1. pending \in Seq(1..n)
      BY <1>1 DEF TypeOK
    <3> QED BY <1>1, <1>8, <3>1, LeftStable
  <2> QED BY <1>3, <2>1 DEF TreeIInv
<1>14. faults' \cap ToSet(collection') = {}
  BY <1>3 DEF TreeIInv
<1>15. \A f \in Ids' : \A i \in 1..Len(KidsOf(frames', f)) : KidsOf(frames', f)[i] \notin Roots'
  <2>1. \A f \in Ids : KidsOf(frames', f) = KidsOf(frames, f)
    BY <1>2 DEF KidsOf
  <2> QED BY <1>4, <1>10, <2>1 DEF TreeIInv
<1> QED BY <1>9, <1>11, <1>12, <1>13, <1>14, <1>15 DEF TreeIInv

\* Fewer faults, more Arcs.
LEMMA SameFrames ==
  ASSUME TreeIInv, UNCHANGED <<frames, story>>, TypeOK', Roots' \subseteq Roots,
         faults' \cap ToSet(collection') = {},
         FlattenSeq(Left(frames, pending')) = toVisit'
  PROVE  TreeIInv'
<1>1. Ids' = Ids
  BY DEF Ids
<1>2. \A r \in Roots' : story'[r] = Says(frames', r)
  BY DEF TreeIInv
<1>3. \A f \in Ids : \A i \in 1..Len(KidsOf(frames, f)) : KidsOf(frames, f)[i] \notin Roots'
  BY DEF TreeIInv
<1> QED BY <1>1, <1>2, <1>3 DEF TreeIInv

LEMMA PushKeeps ==
  ASSUME TreeIInv, NEW r \in faults, Push(r)
  PROVE  TreeIInv'
<1>1. /\ collection' = Append(collection, r) /\ faults' = faults \ {r}
      /\ UNCHANGED <<frames, boxed, pending, held, story, toVisit, uses>>
  BY DEF Push
<1>2. TypeOK /\ collection \in Seq(Ids) /\ r \in Ids /\ Ids' = Ids
  BY <1>1, TreeFacts DEF TreeIInv, Ids
<1>3. collection' \in Seq(Ids) /\ ToSet(collection') = ToSet(collection) \cup {r}
  <2>1. /\ collection' \in Seq(Ids) /\ Len(collection') = Len(collection) + 1
        /\ \A i \in 1..Len(collection) : collection'[i] = collection[i]
        /\ collection'[Len(collection) + 1] = r
    BY <1>1, <1>2, AppendProperties
  <2>2. /\ DOMAIN collection' = 1..(Len(collection) + 1) /\ DOMAIN collection = 1..Len(collection)
        /\ Len(collection) \in Nat
    BY <1>2, <2>1
  <2>3. \A i \in 1..(Len(collection) + 1) : i \in 1..Len(collection) \/ i = Len(collection) + 1
    BY <2>2
  <2>4. 1..Len(collection) \subseteq 1..(Len(collection) + 1)
        /\ Len(collection) + 1 \in 1..(Len(collection) + 1)
    BY <2>2
  <2>5. ToSet(collection') \subseteq ToSet(collection) \cup {r}
    BY <2>1, <2>2, <2>3 DEF ToSet
  <2>6. ToSet(collection) \cup {r} \subseteq ToSet(collection')
    BY <2>1, <2>2, <2>4 DEF ToSet
  <2> QED BY <2>1, <2>5, <2>6
<1>4. TypeOK'
  BY <1>1, <1>2, <1>3 DEF TypeOK
<1>5. Roots' \subseteq Roots /\ faults' \cap ToSet(collection') = {}
  BY <1>1, <1>3 DEF Roots, TreeIInv
<1>6. FlattenSeq(Left(frames, pending')) = toVisit'
  BY <1>1 DEF TreeIInv
<1> QED BY <1>1, <1>4, <1>5, <1>6, SameFrames

LEMMA IntoFrameKeeps ==
  ASSUME TreeIInv, NEW r \in faults, IntoFrame(r)
  PROVE  TreeIInv'
<1>1. /\ uses' = uses + 1 /\ faults' = faults \ {r} /\ held' = held \cup {r}
      /\ UNCHANGED <<frames, boxed, collection, pending, story, toVisit>>
  BY DEF IntoFrame, Use
<1>2. TypeOK /\ r \in Ids /\ Ids' = Ids
  BY <1>1, TreeFacts DEF TreeIInv, Ids
<1>3. TypeOK'
  BY <1>1, <1>2 DEF TypeOK
<1>4. Roots' \subseteq Roots /\ faults' \cap ToSet(collection') = {}
  BY <1>1 DEF Roots, TreeIInv
<1>5. FlattenSeq(Left(frames, pending')) = toVisit'
  BY <1>1 DEF TreeIInv
<1> QED BY <1>1, <1>3, <1>4, <1>5, SameFrames

LEMMA RootCauseType ==
  ASSUME TreeIInv, NEW r \in faults
  PROVE  RootCause(r) \in Ids
<1>1. Shaped(frames) /\ r \in 1..Len(frames) /\ Ids = 1..Len(frames)
  BY TreeFacts
<1> DEFINE branch == FirstBranch(frames, r)
<1>2. branch \in Seq(1..r) /\ branch # <<>>
  BY <1>1, BranchType
<1> HIDE DEF branch
<1>3. Len(branch) \in 1..Len(branch)
  BY <1>2
<1>4. branch[Len(branch)] \in 1..r
  <2> DEFINE D == 1..r
  <2>1. branch \in Seq(D)
    BY <1>2
  <2> HIDE DEF D
  <2>2. branch[Len(branch)] \in D
    BY <1>3, <2>1
  <2> QED BY <2>2 DEF D
<1> QED BY <1>1, <1>4 DEF RootCause, Last, branch

\* root_cause and drops of Arcs.
LEMMA HoldKeeps ==
  ASSUME TreeIInv, held' \in SUBSET Ids, uses' \in Nat,
         UNCHANGED <<frames, faults, boxed, collection, pending, story, toVisit>>
  PROVE  TreeIInv'
<1>1. TypeOK /\ Ids' = Ids
  BY DEF TreeIInv, Ids
<1>2. TypeOK'
  BY <1>1 DEF TypeOK
<1>3. Roots' \subseteq Roots /\ faults' \cap ToSet(collection') = {}
  BY DEF Roots, TreeIInv
<1>4. FlattenSeq(Left(frames, pending')) = toVisit'
  BY DEF TreeIInv
<1> QED BY <1>2, <1>3, <1>4, SameFrames

-----------------------------------------------------------------------------
\* The iterator.

LEMMA LeftNone == ASSUME NEW fs PROVE Left(fs, <<>>) = <<>>
BY DEF Left

LEMMA LeftOne == ASSUME NEW fs, NEW f PROVE Left(fs, <<f>>) = <<Preorder(fs, f)>>
<1>1. Left(fs, <<f>>) = [i \in 1..1 |-> Preorder(fs, f)]
  BY DEF Left
<1> QED BY <1>1

\* Two stacks, one on the other.
LEMMA LeftConcat ==
  ASSUME NEW fs, NEW D, NEW V, \A f \in D : Preorder(fs, f) \in V,
         NEW p \in Seq(D), NEW q \in Seq(D)
  PROVE  /\ Left(fs, p \o q) = Left(fs, q) \o Left(fs, p)
         /\ Left(fs, p) \in Seq(V)
<1>1. /\ p \o q \in Seq(D) /\ Len(p \o q) = Len(p) + Len(q)
      /\ \A i \in 1..Len(p) : (p \o q)[i] = p[i]
      /\ \A i \in 1..Len(q) : (p \o q)[Len(p) + i] = q[i]
  BY ONLY p \in Seq(D), q \in Seq(D), Concat
<1>2. ASSUME NEW s \in Seq(D)
      PROVE  /\ Left(fs, s) \in Seq(V) /\ Len(Left(fs, s)) = Len(s) /\ Len(s) \in Nat
             /\ \A i \in 1..Len(s) : Left(fs, s)[i] = Preorder(fs, s[Len(s) - i + 1])
  <2>1. \A i \in 1..Len(s) : Len(s) - i + 1 \in 1..Len(s)
    OBVIOUS
  <2>2. \A i \in 1..Len(s) : Preorder(fs, s[Len(s) - i + 1]) \in V
    BY <2>1
  <2> QED BY <2>2 DEF Left
<1> DEFINE a == Left(fs, p)
           b == Left(fs, q)
           c == Left(fs, p \o q)
<1>3. /\ a \in Seq(V) /\ Len(a) = Len(p) /\ Len(p) \in Nat
      /\ \A i \in 1..Len(p) : a[i] = Preorder(fs, p[Len(p) - i + 1])
  BY <1>2
<1>4. /\ b \in Seq(V) /\ Len(b) = Len(q) /\ Len(q) \in Nat
      /\ \A i \in 1..Len(q) : b[i] = Preorder(fs, q[Len(q) - i + 1])
  BY <1>2
<1>5. /\ c \in Seq(V) /\ Len(c) = Len(p) + Len(q)
      /\ \A i \in 1..(Len(p) + Len(q)) :
           c[i] = Preorder(fs, (p \o q)[Len(p) + Len(q) - i + 1])
  <2> DEFINE s == p \o q
  <2>1. s \in Seq(D) /\ Len(s) = Len(p) + Len(q)
    BY <1>1
  <2> HIDE DEF s
  <2>2. /\ Left(fs, s) \in Seq(V) /\ Len(Left(fs, s)) = Len(s)
        /\ \A i \in 1..Len(s) : Left(fs, s)[i] = Preorder(fs, s[Len(s) - i + 1])
    BY <1>2, <2>1
  <2>3. /\ Left(fs, s) \in Seq(V) /\ Len(Left(fs, s)) = Len(p) + Len(q)
        /\ \A i \in 1..(Len(p) + Len(q)) :
             Left(fs, s)[i] = Preorder(fs, s[Len(p) + Len(q) - i + 1])
    BY <2>1, <2>2
  <2> QED BY <2>3 DEF s
<1> HIDE DEF a, b, c
<1>6. /\ b \o a \in Seq(V) /\ Len(b \o a) = Len(b) + Len(a)
      /\ \A i \in 1..Len(b) : (b \o a)[i] = b[i]
      /\ \A i \in 1..Len(a) : (b \o a)[Len(b) + i] = a[i]
  <2>1. a \in Seq(V) /\ b \in Seq(V)
    BY <1>3, <1>4
  <2> QED BY ONLY <2>1, Concat
<1>7. ASSUME NEW i \in 1..(Len(p) + Len(q)) PROVE c[i] = (b \o a)[i]
  <2>1. CASE i \in 1..Len(q)
    <3>1. /\ Len(q) - i + 1 \in 1..Len(q)
          /\ Len(p) + Len(q) - i + 1 = Len(p) + (Len(q) - i + 1)
      BY <1>3, <1>4, <2>1
    <3>2. (p \o q)[Len(p) + Len(q) - i + 1] = q[Len(q) - i + 1]
      BY <1>1, <3>1
    <3> QED BY <1>4, <1>5, <1>6, <2>1, <3>2
  <2>2. CASE i \notin 1..Len(q)
    <3>1. /\ i - Len(q) \in 1..Len(p) /\ Len(q) + (i - Len(q)) = i
          /\ Len(p) + Len(q) - i + 1 \in 1..Len(p)
          /\ Len(p) - (i - Len(q)) + 1 = Len(p) + Len(q) - i + 1
      BY <1>3, <1>4, <2>2
    <3>2. (p \o q)[Len(p) + Len(q) - i + 1] = p[Len(p) + Len(q) - i + 1]
      BY <1>1, <3>1
    <3>3. (b \o a)[i] = a[i - Len(q)]
      BY <1>3, <1>4, <1>6, <3>1
    <3>4. a[i - Len(q)] = Preorder(fs, p[Len(p) + Len(q) - i + 1])
      BY <1>3, <3>1
    <3> QED BY <1>5, <3>2, <3>3, <3>4
  <2> QED BY <2>1, <2>2
<1>8. c = b \o a
  BY <1>3, <1>4, <1>5, <1>6, <1>7, SeqEqual, SMTT(30)
<1> QED BY <1>3, <1>8 DEF a, b, c

\* The children of a frame, pushed in reverse, are visited in order.
LEMMA LeftReversed ==
  ASSUME NEW fs, Shaped(fs), NEW f \in 1..Len(fs), NEW rev,
         rev = Reverse(fs[f].children),
         NEW pushed, pushed = [i \in DOMAIN rev |-> rev[i].frame]
  PROVE  /\ pushed \in Seq(1..Len(fs))
         /\ Left(fs, pushed) = Mapped(PreorderOf(fs), KidsOf(fs, f))
<1> DEFINE kids == KidsOf(fs, f)
           c == fs[f].children
           k == Len(c)
<1>1. k \in Nat /\ f \in Nat /\ Len(fs) \in Nat /\ c \in Seq(Edge)
  BY FrameFields
<1>2. /\ kids \in Seq(1..(f - 1)) /\ Len(kids) = k /\ \A i \in 1..k : kids[i] = c[i].frame
  BY KidsType
<1>3. rev = [i \in 1..k |-> c[(k - i) + 1]]
  BY DEF Reverse
<1> HIDE DEF kids, c, k
<1>4. \A i \in 1..k : (k - i) + 1 \in 1..k /\ k - i + 1 \in 1..k /\ k - (k - i + 1) + 1 = i
  BY <1>1
<1>5. pushed = [i \in 1..k |-> kids[k - i + 1]]
  <2>1. pushed = [i \in 1..k |-> c[(k - i) + 1].frame]
    BY <1>3
  <2>2. \A i \in 1..k : c[(k - i) + 1].frame = kids[k - i + 1]
    BY <1>1, <1>2, <1>4
  <2> QED BY <2>1, <2>2
<1>6. \A i \in 1..k : kids[i] \in 1..Len(fs)
  <2>1. \A i \in 1..k : kids[i] \in 1..(f - 1)
    BY <1>2
  <2> QED BY <1>1, <2>1
<1>7. pushed \in Seq(1..Len(fs)) /\ Len(pushed) = k
  <2>1. \A i \in 1..k : kids[k - i + 1] \in 1..Len(fs)
    BY <1>4, <1>6
  <2> QED BY ONLY <1>1, <1>5, <2>1
<1>8. ASSUME NEW i \in 1..k PROVE pushed[k - i + 1] = kids[i]
  <2>1. k - i + 1 \in 1..k /\ k - (k - i + 1) + 1 = i
    BY <1>4
  <2>2. pushed[k - i + 1] = kids[k - (k - i + 1) + 1]
    BY ONLY <1>5, <2>1
  <2> QED BY <2>1, <2>2
<1>9. \A i \in 1..k : PreorderOf(fs)[kids[i]] = Preorder(fs, kids[i])
  BY <1>6 DEF PreorderOf
<1>10. Left(fs, pushed) = Mapped(PreorderOf(fs), kids)
  <2>1. \A i \in 1..k :
          Preorder(fs, pushed[Len(pushed) - i + 1]) = PreorderOf(fs)[kids[i]]
    <3> SUFFICES ASSUME NEW i \in 1..k
                 PROVE  Preorder(fs, pushed[Len(pushed) - i + 1]) = PreorderOf(fs)[kids[i]]
      OBVIOUS
    <3>1. Len(pushed) - i + 1 = k - i + 1
      BY <1>7
    <3>2. pushed[k - i + 1] = kids[i]
      BY <1>8
    <3>3. PreorderOf(fs)[kids[i]] = Preorder(fs, kids[i])
      BY <1>9
    <3> QED BY ONLY <3>1, <3>2, <3>3
  <2> QED BY <1>2, <1>7, <2>1 DEF Left, Mapped
<1> QED BY <1>7, <1>10 DEF kids

LEMMA IterateKeeps ==
  ASSUME TreeIInv, NEW r \in faults, Iterate(r)
  PROVE  TreeIInv'
<1>1. /\ uses' = uses + 1 /\ pending' = <<r>> /\ toVisit' = Preorder(frames, r)
      /\ UNCHANGED <<frames, faults, boxed, collection, held, story>>
  BY DEF Iterate, Use
<1>2. /\ TypeOK /\ r \in Ids /\ Ids' = Ids /\ Shaped(frames) /\ Ids = 1..Len(frames)
      /\ Ids \subseteq Nat \ {0}
  BY <1>1, TreeFacts DEF TreeIInv, Ids
<1>3. Preorder(frames, r) \in Seq(Ids)
  <2>1. Preorder(frames, r) \in Seq(1..r)
    BY <1>2, PreorderType
  <2>2. 1..r \subseteq Ids
    BY <1>2, FrameFields
  <2> QED BY ONLY <2>1, <2>2, MoreValues
<1>4. TypeOK'
  <2>1. <<r>> \in Seq(Ids)
    BY <1>2
  <2> QED BY <1>1, <1>2, <1>3, <2>1 DEF TypeOK
<1>5. Roots' \subseteq Roots /\ faults' \cap ToSet(collection') = {}
  BY <1>1 DEF Roots, TreeIInv
<1>6. FlattenSeq(Left(frames, pending')) = toVisit'
  <2>1. Left(frames, <<r>>) = <<Preorder(frames, r)>>
    BY LeftOne
  <2>2. FlattenSeq(<<Preorder(frames, r)>>) = Preorder(frames, r)
    BY <1>3, FlattenOne
  <2> QED BY <1>1, <2>1, <2>2
<1> QED BY <1>1, <1>4, <1>5, <1>6, SameFrames

LEMMA StopKeeps ==
  ASSUME TreeIInv, StopIterating
  PROVE  TreeIInv'
<1>1. /\ pending' = <<>> /\ toVisit' = <<>>
      /\ UNCHANGED <<frames, faults, boxed, collection, held, story, uses>>
  BY DEF StopIterating
<1>2. TypeOK /\ Ids' = Ids
  BY <1>1 DEF TreeIInv, Ids
<1>3. TypeOK'
  <2>1. <<>> \in Seq(Ids)
    OBVIOUS
  <2> QED BY <1>1, <1>2, <2>1 DEF TypeOK
<1>4. Roots' \subseteq Roots /\ faults' \cap ToSet(collection') = {}
  BY <1>1 DEF Roots, TreeIInv
<1>5. FlattenSeq(Left(frames, pending')) = toVisit'
  BY <1>1, LeftNone, FlattenEmpty
<1> QED BY <1>1, <1>3, <1>4, <1>5, SameFrames

LEMMA TailOfTree ==
  ASSUME NEW X, NEW f \in X, NEW a \in Seq(X), NEW b \in Seq(X)
  PROVE  Tail((<<f>> \o a) \o b) = a \o b
<1>1. (<<f>> \o a) \o b = <<f>> \o (a \o b)
  <2>1. <<f>> \in Seq(X)
    OBVIOUS
  <2> QED BY ONLY <2>1, a \in Seq(X), b \in Seq(X), ConcatAssociative
<1>2. a \o b \in Seq(X)
  OBVIOUS
<1>3. ASSUME NEW s \in Seq(X) PROVE Tail(<<f>> \o s) = s
  <2>1. /\ <<f>> \o s \in Seq(X) /\ Len(<<f>> \o s) = 1 + Len(s)
        /\ \A i \in 1..Len(s) : (<<f>> \o s)[1 + i] = s[i]
    OBVIOUS
  <2> DEFINE t == <<f>> \o s
  <2>2. /\ t \in Seq(X) /\ Len(t) = 1 + Len(s) /\ Len(s) \in Nat
        /\ \A i \in 1..Len(s) : t[1 + i] = s[i]
    BY <2>1
  <2> HIDE DEF t
  <2>3. /\ Tail(t) \in Seq(X) /\ Len(Tail(t)) = Len(s)
        /\ \A i \in 1..Len(s) : Tail(t)[i] = t[i + 1]
    BY <2>2
  <2>4. \A i \in 1..Len(s) : Tail(t)[i] = s[i]
    BY <2>2, <2>3
  <2>5. Tail(t) = s
    BY <2>3, <2>4, SeqEqual
  <2> QED BY <2>5 DEF t
<1> QED BY <1>1, <1>2, <1>3

LEMMA IterNextKeeps ==
  ASSUME TreeIInv, NEW keep \in BOOLEAN, IterNext(keep)
  PROVE  TreeIInv'
<1> DEFINE f == Last(pending)
           front == Front(pending)
           rev == Reverse(frames[f].children)
           pushed == [i \in DOMAIN rev |-> rev[i].frame]
           trees == Mapped(PreorderOf(frames), KidsOf(frames, f))
           left == Left(frames, front)
           V == Seq(Ids)
<1>1. /\ pending # <<>> /\ pending' = front \o pushed /\ toVisit' = Tail(toVisit)
      /\ UNCHANGED <<frames, faults, boxed, collection, story>>
  BY DEF IterNext
<1>2. /\ TypeOK /\ Ids' = Ids /\ Shaped(frames) /\ Ids = 1..Len(frames)
      /\ pending \in Seq(Ids) /\ Ids \subseteq Nat \ {0}
  BY <1>1, TreeFacts DEF TreeIInv, Ids
<1>3. f \in Ids /\ front \in Seq(Ids) /\ pending = front \o <<f>>
  <2>1. Len(pending) \in Nat \ {0} /\ f = pending[Len(pending)]
    BY <1>1, <1>2 DEF Last
  <2>2. f \in Ids
    BY <1>2, <2>1
  <2>3. /\ front \in Seq(Ids) /\ Len(front) = Len(pending) - 1
        /\ \A i \in 1..(Len(pending) - 1) : front[i] = pending[i]
    <3>1. front = [i \in 1..(Len(pending) - 1) |-> pending[i]]
      BY <1>2, <2>1 DEF Front
    <3>2. \A i \in 1..(Len(pending) - 1) : pending[i] \in Ids
      BY <1>2, <2>1
    <3> HIDE DEF front
    <3> QED BY <2>1, <3>1, <3>2
  <2> HIDE DEF f, front
  <2>4. Append(front, f) = pending
    <3>1. /\ Append(front, f) \in Seq(Ids) /\ Len(Append(front, f)) = Len(pending)
          /\ \A i \in 1..Len(pending) : Append(front, f)[i] = pending[i]
      BY <2>1, <2>2, <2>3
    <3> QED BY <1>2, <3>1, SeqEqual
  <2>5. Append(front, f) = front \o <<f>>
    BY <2>2, <2>3
  <2> QED BY <2>2, <2>3, <2>4, <2>5
<1>4. f \in Nat /\ Len(frames) \in Nat
  BY <1>2, <1>3, FrameFields
<1> HIDE DEF f, front
<1>5. pushed \in Seq(Ids) /\ Left(frames, pushed) = trees
  BY <1>2, <1>3, LeftReversed
<1>6. \A g \in Ids : Preorder(frames, g) \in V
  <2> SUFFICES ASSUME NEW g \in Ids PROVE Preorder(frames, g) \in V
    OBVIOUS
  <2>1. Preorder(frames, g) \in Seq(1..g)
    BY <1>2, PreorderType
  <2>2. 1..g \subseteq Ids
    BY <1>2, FrameFields
  <2>3. Preorder(frames, g) \in Seq(Ids)
    BY ONLY <2>1, <2>2, MoreValues
  <2> QED BY <2>3
<1> HIDE DEF pushed, trees, left, V
<1>7. /\ Left(frames, front \o pushed) = trees \o left
      /\ left \in Seq(V)
  <2>1. /\ Left(frames, front \o pushed) = Left(frames, pushed) \o Left(frames, front)
        /\ Left(frames, front) \in Seq(V)
    BY <1>3, <1>5, <1>6, LeftConcat
  <2> QED BY <1>5, <2>1 DEF left
<1>8. trees \in Seq(V)
  <2>1. Left(frames, pushed \o <<>>) = Left(frames, <<>>) \o Left(frames, pushed)
        /\ Left(frames, pushed) \in Seq(V)
    <3>1. <<>> \in Seq(Ids)
      OBVIOUS
    <3> QED BY <1>5, <1>6, <3>1, LeftConcat
  <2> QED BY <1>5, <2>1
<1>9. FlattenSeq(trees) \in V /\ FlattenSeq(left) \in V
  BY <1>7, <1>8, FlattenType DEF V
<1>10. FlattenSeq(trees \o left) = FlattenSeq(trees) \o FlattenSeq(left)
  BY <1>7, <1>8, FlattenConcat DEF V
<1>11. toVisit = (<<f>> \o FlattenSeq(trees)) \o FlattenSeq(left)
  <2>1. Left(frames, pending) = <<Preorder(frames, f)>> \o left
    <3>1. <<f>> \in Seq(Ids)
      BY <1>3
    <3>2. Left(frames, front \o <<f>>) = Left(frames, <<f>>) \o Left(frames, front)
      BY <1>3, <1>6, <3>1, LeftConcat
    <3> QED BY <1>3, <3>2, LeftOne DEF left
  <2>2. Preorder(frames, f) \in V
    BY <1>3, <1>6
  <2>3. <<Preorder(frames, f)>> \in Seq(V)
    BY <2>2
  <2>4. FlattenSeq(<<Preorder(frames, f)>> \o left)
          = FlattenSeq(<<Preorder(frames, f)>>) \o FlattenSeq(left)
    BY <1>7, <2>3, FlattenConcat DEF V
  <2>5. FlattenSeq(<<Preorder(frames, f)>>) = Preorder(frames, f)
    BY <2>2, FlattenOne DEF V
  <2>6. Preorder(frames, f) = <<f>> \o FlattenSeq(trees)
    BY <1>2, <1>3, PreorderIs DEF trees
  <2>7. FlattenSeq(Left(frames, pending)) = toVisit
    BY DEF TreeIInv
  <2> QED BY <2>1, <2>4, <2>5, <2>6, <2>7
<1>12. toVisit' = FlattenSeq(trees) \o FlattenSeq(left)
  BY <1>1, <1>3, <1>9, <1>11, TailOfTree DEF V
<1>13. FlattenSeq(Left(frames, pending')) = toVisit'
  BY <1>1, <1>7, <1>10, <1>12
<1>14. pending' \in Seq(Ids) /\ toVisit' \in Seq(Ids)
  <2>1. pending' \in Seq(Ids)
    BY <1>1, <1>3, <1>5
  <2>2. toVisit' \in Seq(Ids)
    BY <1>9, <1>12 DEF V
  <2> QED BY <2>1, <2>2
<1>15. held' \in SUBSET Ids /\ uses' \in Nat
  <2>1. held \in SUBSET Ids /\ uses \in Nat
    BY <1>2 DEF TypeOK
  <2>2. CASE keep
    <3>1. held' = held \cup {f} /\ uses' = uses + 1
      BY <2>2 DEF IterNext, Use, f
    <3> QED BY <1>3, <2>1, <3>1
  <2>3. CASE ~keep
    <3>1. held' = held /\ uses' = uses
      BY <2>3 DEF IterNext
    <3> QED BY <2>1, <3>1
  <2> QED BY <2>2, <2>3
<1>16. TypeOK'
  BY <1>1, <1>2, <1>14, <1>15 DEF TypeOK
<1>17. Roots' \subseteq Roots /\ faults' \cap ToSet(collection') = {}
  BY <1>1 DEF Roots, TreeIInv
<1> QED BY <1>1, <1>13, <1>16, <1>17, SameFrames

-----------------------------------------------------------------------------
\* The steps.

LEMMA InitTree == Init => TreeIInv
<1> SUFFICES ASSUME Init PROVE TreeIInv
  OBVIOUS
<1>1. /\ frames = <<>> /\ faults = {} /\ boxed = {} /\ collection = <<>> /\ pending = <<>>
      /\ held = {} /\ story = <<>> /\ toVisit = <<>> /\ uses = 0
  BY DEF Init
<1>2. Ids = {}
  BY <1>1 DEF Ids
<1>3. Roots = {}
  BY <1>1, NoneAdopted DEF Roots
<1>4. TypeOK
  BY <1>1, <1>2 DEF TypeOK
<1>5. FlattenSeq(Left(frames, pending)) = toVisit
  BY <1>1, LeftNone, FlattenEmpty
<1> QED BY <1>1, <1>2, <1>3, <1>4, <1>5 DEF TreeIInv

LEMMA FindRootCauseKeeps ==
  ASSUME TreeIInv, NEW r \in faults, FindRootCause(r)
  PROVE  TreeIInv'
<1>1. /\ held' = held \cup {RootCause(r)} /\ uses' = uses + 1
      /\ UNCHANGED <<frames, faults, boxed, collection, pending, story, toVisit>>
  BY DEF FindRootCause, Use
<1>2. held \in SUBSET Ids /\ uses \in Nat /\ RootCause(r) \in Ids
  BY RootCauseType DEF TreeIInv, TypeOK
<1>3. held' \in SUBSET Ids /\ uses' \in Nat
  BY <1>1, <1>2
<1> QED BY <1>1, <1>3, HoldKeeps

LEMMA ReleaseKeeps ==
  ASSUME TreeIInv, NEW f \in held, Release(f)
  PROVE  TreeIInv'
<1>1. /\ held' = held \ {f} /\ uses' = uses
      /\ UNCHANGED <<frames, faults, boxed, collection, pending, story, toVisit>>
  BY DEF Release
<1>2. held \in SUBSET Ids /\ uses \in Nat
  BY DEF TreeIInv, TypeOK
<1>3. held' \in SUBSET Ids /\ uses' \in Nat
  BY <1>1, <1>2
<1> QED BY <1>1, <1>3, HoldKeeps

LEMMA IdleKeeps == ASSUME TreeIInv, UNCHANGED vars PROVE TreeIInv'
<1>1. /\ UNCHANGED <<frames, faults, boxed, collection, pending, story, toVisit>>
      /\ held' = held /\ uses' = uses
  BY DEF vars
<1>2. held' \in SUBSET Ids /\ uses' \in Nat
  BY <1>1 DEF TreeIInv, TypeOK
<1> QED BY <1>1, <1>2, HoldKeeps

LEMMA NextTree == TreeIInv /\ [Next]_vars => TreeIInv'
<1> SUFFICES ASSUME TreeIInv, [Next]_vars PROVE TreeIInv'
  OBVIOUS
<1>1. ASSUME NEW e \in Errors,
             \/ Raise(Made(e), {}, e \in BoxedErrors) \/ GiveContext(Made(e), {})
             \/ \E box \in BOOLEAN : IntoFault(e, box)
             \/ \E outer \in Errors : ChangeContext(Made(e), {}, outer)
      PROVE  TreeIInv'
  <2>1. Usable(Made(e))
    BY MadeFacts
  <2>2. CASE Raise(Made(e), {}, e \in BoxedErrors)
    BY <2>1, <2>2, RaiseKeeps
  <2>3. CASE GiveContext(Made(e), {})
    BY <2>1, <2>3, GiveContextKeeps
  <2>4. CASE \E box \in BOOLEAN : IntoFault(e, box)
    BY <2>4, IntoFaultKeeps
  <2>5. CASE \E outer \in Errors : ChangeContext(Made(e), {}, outer)
    BY <2>1, <2>5, ChangeContextKeeps
  <2> QED BY <1>1, <2>2, <2>3, <2>4, <2>5
<1>2. ASSUME NEW r \in faults \ boxed,
             \/ Raise(Lent(r), {r}, FALSE) \/ GiveContext(Lent(r), {r})
             \/ \E e \in Errors : ChangeContext(Lent(r), {r}, e)
      PROVE  TreeIInv'
  <2>1. Usable(Lent(r))
    BY LentFacts
  <2>2. CASE Raise(Lent(r), {r}, FALSE)
    BY <2>1, <2>2, RaiseKeeps
  <2>3. CASE GiveContext(Lent(r), {r})
    BY <2>1, <2>3, GiveContextKeeps
  <2>4. CASE \E e \in Errors : ChangeContext(Lent(r), {r}, e)
    BY <2>1, <2>4, ChangeContextKeeps
  <2> QED BY <1>2, <2>2, <2>3, <2>4
<1>3. ASSUME NEW r \in faults,
             \/ \E e \in Errors : Wrap(r, e)
             \/ Push(r) \/ Write(r) \/ FindRootCause(r) \/ Iterate(r) \/ IntoFrame(r)
      PROVE  TreeIInv'
  BY <1>3, WrapKeeps, PushKeeps, WriteKeeps, FindRootCauseKeeps, IterateKeeps, IntoFrameKeeps
<1>4. ASSUME NEW f \in held, Release(f) PROVE TreeIInv'
  BY <1>4, ReleaseKeeps
<1>5. ASSUME NEW keep \in BOOLEAN, IterNext(keep) PROVE TreeIInv'
  BY <1>5, IterNextKeeps
<1>6. CASE StopIterating
  BY <1>6, StopKeeps
<1>7. CASE UNCHANGED vars
  BY <1>7, IdleKeeps
<1> QED BY <1>1, <1>2, <1>3, <1>4, <1>5, <1>6, <1>7 DEF Next

LEMMA TreeInvariant == Spec => []TreeIInv
<1> QED BY InitTree, NextTree, PTL DEF Spec

\* Whatever is raised, wrapped, given context, collected, written and walked (exn.rs),
\* frames refer to older frames only, the tree of a fault holds exactly the errors it was
\* made of, each before its causes, and an iterator has before it the rest of the tree it
\* was made for, parents first.
THEOREM TreesLoseNothing == Spec => []Inv
<1> QED BY TreeInvariant, TreeImpliesInv, PTL

-----------------------------------------------------------------------------
\* Frames that are shared.

LEMMA SeenAreFrames ==
  ASSUME TreeIInv
  PROVE  Seen \subseteq Ids
<1>1. /\ TypeOK /\ Shaped(frames) /\ Ids = 1..Len(frames) /\ pending \in Seq(Ids)
      /\ ToSet(collection) \subseteq Ids
  BY TreeFacts DEF TreeIInv
<1>2. ToSet(pending) \subseteq Ids
  BY <1>1 DEF ToSet
<1>3. ASSUME NEW f \in Ids PROVE Children(f) \subseteq Ids
  <2>1. /\ frames[f].children \in Seq(Edge)
        /\ \A i \in DOMAIN frames[f].children : frames[f].children[i].frame < f
    BY <1>1, FrameFields DEF TypeOK
  <2>2. ASSUME NEW i \in DOMAIN frames[f].children PROVE frames[f].children[i].frame \in Ids
    <3>1. frames[f].children[i] \in Edge
      BY <2>1
    <3>2. frames[f].children[i].frame \in Nat \ {0} /\ frames[f].children[i].frame < f
      BY <2>1, <3>1 DEF Edge
    <3> QED BY <1>1, <3>2
  <2> QED BY <2>2 DEF Children
<1>4. held \subseteq Ids
  BY <1>1 DEF TypeOK
<1> QED BY <1>1, <1>2, <1>3, <1>4, ZenonT(40) DEF Seen

\* A fault that is no one else's is in no one's sight but its own program's.
LEMMA RootsUnseen ==
  ASSUME TreeIInv, NEW r \in faults, r \notin held \cup ToSet(pending)
  PROVE  r \notin Seen
<1>1. r \notin ToSet(collection) /\ r \in Roots
  BY DEF TreeIInv, Roots
<1>2. ASSUME NEW f \in Ids PROVE r \notin Children(f)
  <2>1. /\ Len(frames[f].children) \in Nat
        /\ DOMAIN frames[f].children = 1..Len(frames[f].children)
        /\ Len(KidsOf(frames, f)) = Len(frames[f].children)
        /\ \A i \in 1..Len(frames[f].children) :
             KidsOf(frames, f)[i] = frames[f].children[i].frame
    <3>1. Shaped(frames) /\ f \in 1..Len(frames)
      BY TreeFacts
    <3> QED BY <3>1, FrameFields, KidsType
  <2>2. \A i \in 1..Len(KidsOf(frames, f)) : KidsOf(frames, f)[i] # r
    BY <1>1 DEF TreeIInv
  <2> QED BY <2>1, <2>2 DEF Children
<1> QED BY <1>1, <1>2 DEF Seen

Frozen == \A f \in Seen : frames'[f] = frames[f]

LEMMA GrowthFreezes ==
  ASSUME TreeIInv, NEW fs, NEW kids, Grown(frames, fs, kids), frames' = fs
  PROVE  Frozen
<1>1. Seen \subseteq 1..Len(frames)
  BY SeenAreFrames, TreeFacts
<1> QED BY <1>1 DEF Grown, Frozen

\* What ContextKeeps says, of the frames alone.
LEMMA ContextGrows ==
  ASSUME TreeIInv, NEW chain, Usable(chain), NEW outer, outer # <<>>,
         outer \in Seq(1..(Len(frames) + Len(chain) + Len(outer))),
         NEW raised, raised = Linked(frames, chain),
         NEW fs, fs = Adopted(Linked(raised, outer), "wrap", <<Len(raised)>>)
  PROVE  /\ Grown(frames, fs, <<>>)
         /\ fs[Len(fs)].error = outer[1]
         /\ Len(outer) # 1 => fs[Len(fs)].children[1].kind = "source"
         /\ Len(outer) = 1 => Cause(fs, Len(fs)) = chain[Len(chain)]
<1>1. chain # <<>> /\ chain \in Seq(1..(Len(frames) + Len(chain))) /\ Sound(frames)
  BY TreeFacts DEF Usable
<1>2. /\ outer # <<>> /\ outer \in Seq(1..(Len(frames) + Len(chain) + Len(outer)))
      /\ raised = Linked(frames, chain)
      /\ fs = Adopted(Linked(raised, outer), "wrap", <<Len(raised)>>)
  OBVIOUS
<1>3. Grown(frames, fs, <<>>)
  BY ONLY <1>1, <1>2, TwiceGrown
<1>4. /\ fs[Len(fs)].error = outer[1]
      /\ Len(outer) # 1 => fs[Len(fs)].children[1].kind = "source"
      /\ Len(outer) = 1 => Cause(fs, Len(fs)) = chain[Len(chain)]
  BY ONLY <1>1, <1>2, TwiceGrown
<1> QED BY <1>3, <1>4

LEMMA CollectGrows ==
  ASSUME TreeIInv, NEW e \in Errors,
         NEW fs, fs = Adopted(Linked(frames, Made(e)), "batch", collection)
  PROVE  Grown(frames, fs, collection)
<1> DEFINE chain == Made(e)
           kids == collection
<1>1. PICK kind \in Kinds : kind = "batch"
  BY DEF Kinds
<1>2. Sound(frames) /\ kids \in Seq(1..Len(frames))
  BY TreeFacts
<1>3. chain # <<>> /\ chain \in Seq(1..(Len(frames) + Len(chain)))
  BY MadeFacts DEF Usable
<1>4. fs = Adopted(Linked(frames, chain), kind, kids)
  BY <1>1
<1> HIDE DEF chain, kids
<1>5. Grown(frames, fs, kids)
  BY ONLY <1>2, <1>3, <1>4, AdoptedGrows
<1> QED BY <1>5 DEF kids

LEMMA RaiseFreezes ==
  ASSUME TreeIInv, NEW chain, Usable(chain), NEW used, NEW box, Raise(chain, used, box)
  PROVE  Frozen
<1> DEFINE fs == Linked(frames, chain)
<1>1. Grown(frames, fs, <<>>)
  BY TreeFacts, LinkedGrows DEF Usable
<1>2. frames' = fs
  BY DEF Raise, Return
<1> QED BY <1>1, <1>2, GrowthFreezes

LEMMA GiveContextFreezes ==
  ASSUME TreeIInv, NEW chain, Usable(chain), NEW used, GiveContext(chain, used)
  PROVE  Frozen
<1> DEFINE raised == Linked(frames, chain)
           outer == <<Len(raised) + 1>>
           fs == Adopted(Linked(raised, outer), "wrap", <<Len(raised)>>)
<1>1. outer # <<>> /\ outer \in Seq(1..(Len(frames) + Len(chain) + Len(outer)))
  BY MessageFacts
<1>2. frames' = fs
  BY DEF GiveContext, Return
<1>3. raised = Linked(frames, chain) /\ fs = Adopted(Linked(raised, outer), "wrap", <<Len(raised)>>)
  OBVIOUS
<1> HIDE DEF raised, outer, fs
<1>4. Grown(frames, fs, <<>>)
  BY <1>1, <1>3, ContextGrows
<1> QED BY <1>2, <1>4, GrowthFreezes

LEMMA ChangeContextFreezes ==
  ASSUME TreeIInv, NEW chain, Usable(chain), NEW used, NEW e \in Errors,
         ChangeContext(chain, used, e)
  PROVE  Frozen
<1> DEFINE raised == Linked(frames, chain)
           outer == OuterFrames(e, chain)
           fs == Adopted(Linked(raised, outer), "wrap", <<Len(raised)>>)
<1>1. outer # <<>> /\ outer \in Seq(1..(Len(frames) + Len(chain) + Len(outer)))
  BY OuterFacts
<1>2. frames' = fs
  BY DEF ChangeContext, OuterFrames, Return
<1>3. raised = Linked(frames, chain) /\ fs = Adopted(Linked(raised, outer), "wrap", <<Len(raised)>>)
  OBVIOUS
<1> HIDE DEF raised, outer, fs
<1>4. Grown(frames, fs, <<>>)
  BY <1>1, <1>3, ContextGrows
<1> QED BY <1>2, <1>4, GrowthFreezes

LEMMA WrapFreezes ==
  ASSUME TreeIInv, NEW r \in faults, NEW e \in Errors, Wrap(r, e)
  PROVE  Frozen
<1> DEFINE fs == Adopted(Linked(frames, Made(e)), "wrap", <<r>>)
<1>1. Grown(frames, fs, <<r>>)
  BY WrapGrows
<1>2. frames' = fs
  BY DEF Wrap, Return
<1> QED BY <1>1, <1>2, GrowthFreezes

LEMMA IntoFaultFreezes ==
  ASSUME TreeIInv, NEW e \in Errors, NEW box, IntoFault(e, box)
  PROVE  Frozen
<1> DEFINE fs == Adopted(Linked(frames, Made(e)), "batch", collection)
<1>1. Grown(frames, fs, collection)
  BY CollectGrows
<1>2. frames' = fs
  BY DEF IntoFault, Return
<1> QED BY <1>1, <1>2, GrowthFreezes

LEMMA WriteFreezes ==
  ASSUME TreeIInv, NEW r \in faults, Write(r)
  PROVE  Frozen
<1>1. CASE frames' = frames
  BY <1>1 DEF Frozen
<1>2. CASE frames' # frames
  <2>1. r \notin Seen
    BY <1>2, WriteFrames, RootsUnseen
  <2>2. \A f \in Ids : f # r => frames'[f] = frames[f]
    BY WriteFrames
  <2> QED BY <2>1, <2>2, SeenAreFrames DEF Frozen
<1> QED BY <1>1, <1>2

LEMMA NextFreezes == TreeIInv /\ [Next]_vars => Frozen
<1> SUFFICES ASSUME TreeIInv, [Next]_vars PROVE Frozen
  OBVIOUS
<1>1. CASE frames' = frames
  BY <1>1 DEF Frozen
<1>2. ASSUME NEW e \in Errors,
             \/ Raise(Made(e), {}, e \in BoxedErrors) \/ GiveContext(Made(e), {})
             \/ \E box \in BOOLEAN : IntoFault(e, box)
             \/ \E outer \in Errors : ChangeContext(Made(e), {}, outer)
      PROVE  Frozen
  <2>1. Usable(Made(e))
    BY MadeFacts
  <2>2. CASE Raise(Made(e), {}, e \in BoxedErrors)
    BY <2>1, <2>2, RaiseFreezes
  <2>3. CASE GiveContext(Made(e), {})
    BY <2>1, <2>3, GiveContextFreezes
  <2>4. CASE \E box \in BOOLEAN : IntoFault(e, box)
    BY <2>4, IntoFaultFreezes
  <2>5. CASE \E outer \in Errors : ChangeContext(Made(e), {}, outer)
    BY <2>1, <2>5, ChangeContextFreezes
  <2> QED BY <1>2, <2>2, <2>3, <2>4, <2>5
<1>3. ASSUME NEW r \in faults \ boxed,
             \/ Raise(Lent(r), {r}, FALSE) \/ GiveContext(Lent(r), {r})
             \/ \E e \in Errors : ChangeContext(Lent(r), {r}, e)
      PROVE  Frozen
  <2>1. Usable(Lent(r))
    BY LentFacts
  <2>2. CASE Raise(Lent(r), {r}, FALSE)
    BY <2>1, <2>2, RaiseFreezes
  <2>3. CASE GiveContext(Lent(r), {r})
    BY <2>1, <2>3, GiveContextFreezes
  <2>4. CASE \E e \in Errors : ChangeContext(Lent(r), {r}, e)
    BY <2>1, <2>4, ChangeContextFreezes
  <2> QED BY <1>3, <2>2, <2>3, <2>4
<1>4. ASSUME NEW r \in faults, (\E e \in Errors : Wrap(r, e)) \/ Write(r)
      PROVE  Frozen
  BY <1>4, WrapFreezes, WriteFreezes
<1>5. ASSUME NEW r \in faults, Push(r) \/ FindRootCause(r) \/ Iterate(r) \/ IntoFrame(r)
      PROVE  frames' = frames
  BY <1>5 DEF Push, FindRootCause, Iterate, IntoFrame
<1>6. ASSUME NEW f \in held, Release(f) PROVE frames' = frames
  BY <1>6 DEF Release
<1>7. ASSUME NEW keep \in BOOLEAN, IterNext(keep) PROVE frames' = frames
  BY <1>7 DEF IterNext
<1>8. StopIterating => frames' = frames
  BY DEF StopIterating
<1>9. UNCHANGED vars => frames' = frames
  BY DEF vars
<1> QED BY <1>1, <1>2, <1>3, <1>4, <1>5, <1>6, <1>7, <1>8, <1>9 DEF Next

\* A frame that a tree, a collection, an iterator or an Arc of the program's reaches is
\* never written: set_context and attach change a root through Arc::get_mut, and such a
\* root is in no tree and no collection (exn.rs).
THEOREM SharedFramesStay == Spec => SharedFramesFrozen
<1>1. TreeIInv /\ [Next]_vars => [Frozen]_vars
  BY NextFreezes
<1> QED BY <1>1, TreeInvariant, PTL DEF Spec, SharedFramesFrozen, Frozen

-----------------------------------------------------------------------------
\* Root causes.

Survives ==
  \A r \in faults \ faults' : \A n \in faults' \ faults :
    WrappedBySourced(frames', r, n) \/ Cause(frames', n) = Cause(frames, r)

\* What the new root n says of the cause of the fault it was made of.
LEMMA ReturnSurvives ==
  ASSUME TreeIInv, NEW r \in faults, NEW fs, NEW kids, Grown(frames, fs, kids),
         NEW errors, NEW box, Return(fs, {r}, errors, box),
         \/ fs[Len(fs)].error > Len(frames) /\ fs[Len(fs)].children[1].kind = "source"
         \/ Cause(fs, Len(fs)) = Cause(frames, r)
  PROVE  Survives
<1> DEFINE m == Len(fs)
<1>1. frames' = fs /\ faults' = (faults \ {r}) \cup {m}
  BY DEF Return
<1>2. /\ r \in 1..Len(frames) /\ Len(frames) \in Nat
      /\ frames[r].error \in 1..Len(frames)
  BY TreeFacts DEF Sound
<1>3. fs[r] = frames[r]
  BY <1>2 DEF Grown
<1> HIDE DEF m
<1>4. faults \ faults' \subseteq {r} /\ faults' \ faults \subseteq {m}
  BY <1>1
<1>5. fs[m].error > Len(frames) => fs[m].error # fs[r].error
  BY <1>2, <1>3
<1>6. WrappedBySourced(fs, r, m) \/ Cause(fs, m) = Cause(frames, r)
  BY <1>5 DEF WrappedBySourced, m
<1> QED BY <1>1, <1>4, <1>6 DEF Survives

LEMMA RaiseSurvives ==
  ASSUME TreeIInv, NEW r \in faults, NEW box, Raise(Lent(r), {r}, box)
  PROVE  Survives
<1> DEFINE chain == Lent(r)
           fs == Linked(frames, chain)
<1>1. Usable(chain) /\ chain[Len(chain)] = Cause(frames, r)
  BY LentFacts
<1>2. Return(fs, {r}, chain, box)
  BY DEF Raise
<1> HIDE DEF chain
<1>3. Grown(frames, fs, <<>>) /\ Cause(fs, Len(fs)) = chain[Len(chain)]
  BY <1>1, TreeFacts, LinkedGrows DEF Usable
<1> HIDE DEF fs
<1> QED BY <1>1, <1>2, <1>3, ReturnSurvives

LEMMA GiveContextSurvives ==
  ASSUME TreeIInv, NEW r \in faults, GiveContext(Lent(r), {r})
  PROVE  Survives
<1> DEFINE chain == Lent(r)
           raised == Linked(frames, chain)
           outer == <<Len(raised) + 1>>
           fs == Adopted(Linked(raised, outer), "wrap", <<Len(raised)>>)
<1>1. Usable(chain) /\ chain[Len(chain)] = Cause(frames, r)
  BY LentFacts
<1>2. Return(fs, {r}, outer \o chain, TRUE)
  BY DEF GiveContext
<1> HIDE DEF chain
<1>3. /\ outer # <<>> /\ Len(outer) = 1
      /\ outer \in Seq(1..(Len(frames) + Len(chain) + Len(outer)))
  BY <1>1, MessageFacts
<1>4. raised = Linked(frames, chain) /\ fs = Adopted(Linked(raised, outer), "wrap", <<Len(raised)>>)
  OBVIOUS
<1> HIDE DEF raised, outer, fs
<1>5. Grown(frames, fs, <<>>) /\ Cause(fs, Len(fs)) = chain[Len(chain)]
  BY <1>1, <1>3, <1>4, ContextGrows
<1> QED BY <1>1, <1>2, <1>5, ReturnSurvives

LEMMA ChangeContextSurvives ==
  ASSUME TreeIInv, NEW r \in faults, NEW e \in Errors, ChangeContext(Lent(r), {r}, e)
  PROVE  Survives
<1> DEFINE chain == Lent(r)
           raised == Linked(frames, chain)
           outer == OuterFrames(e, chain)
           fs == Adopted(Linked(raised, outer), "wrap", <<Len(raised)>>)
<1>1. Usable(chain) /\ chain[Len(chain)] = Cause(frames, r)
  BY LentFacts
<1>2. Return(fs, {r}, outer \o chain, FALSE)
  BY DEF ChangeContext, OuterFrames
<1> HIDE DEF chain
<1>3. /\ outer # <<>> /\ outer \in Seq(1..(Len(frames) + Len(chain) + Len(outer)))
      /\ outer[1] = Len(frames) + Len(chain) + Len(outer)
  BY <1>1, OuterFacts
<1>4. raised = Linked(frames, chain) /\ fs = Adopted(Linked(raised, outer), "wrap", <<Len(raised)>>)
  OBVIOUS
<1> HIDE DEF raised, outer, fs
<1>5. /\ Grown(frames, fs, <<>>) /\ fs[Len(fs)].error = outer[1]
      /\ Len(outer) # 1 => fs[Len(fs)].children[1].kind = "source"
      /\ Len(outer) = 1 => Cause(fs, Len(fs)) = chain[Len(chain)]
  BY <1>1, <1>3, <1>4, ContextGrows
<1>6. outer[1] > Len(frames)
  <2>1. Len(frames) \in Nat /\ Len(chain) \in Nat \ {0} /\ Len(outer) \in Nat
    BY <1>1, <1>3, TreeFacts DEF Usable
  <2> QED BY <1>3, <2>1
<1> QED BY <1>1, <1>2, <1>5, <1>6, ReturnSurvives

LEMMA WrapSurvives ==
  ASSUME TreeIInv, NEW r \in faults, NEW e \in Errors, Wrap(r, e)
  PROVE  Survives
<1> DEFINE chain == Made(e)
           fs == Adopted(Linked(frames, chain), "wrap", <<r>>)
           errors == chain \o story[r]
<1>1. /\ Grown(frames, fs, <<r>>) /\ fs[Len(fs)].error = chain[1]
      /\ Len(chain) # 1 => fs[Len(fs)].children[1].kind = "source"
      /\ Len(chain) = 1 => Cause(fs, Len(fs)) = Cause(frames, r)
  BY WrapGrows
<1>2. Return(fs, {r}, errors, FALSE)
  BY DEF Wrap
<1>3. chain[1] > Len(frames)
  <2>1. Len(frames) \in Nat /\ chain[1] = Len(frames) + Len(chain) /\ Len(chain) \in Nat \ {0}
    BY TreeFacts, MadeFacts
  <2> QED BY <2>1
<1> HIDE DEF chain, fs, errors
<1> QED BY <1>1, <1>2, <1>3, ReturnSurvives

LEMMA NextSurvives == TreeIInv /\ [Next]_vars => Survives
<1> SUFFICES ASSUME TreeIInv, [Next]_vars PROVE Survives
  OBVIOUS
<1>1. ASSUME NEW fs, NEW errors, NEW box, Return(fs, {}, errors, box) PROVE Survives
  BY <1>1 DEF Return, Survives
<1>2. ASSUME faults' \subseteq faults PROVE Survives
  BY <1>2 DEF Survives
<1>3. ASSUME NEW e \in Errors,
             \/ Raise(Made(e), {}, e \in BoxedErrors) \/ GiveContext(Made(e), {})
             \/ \E box \in BOOLEAN : IntoFault(e, box)
             \/ \E outer \in Errors : ChangeContext(Made(e), {}, outer)
      PROVE  Survives
  <2>1. CASE Raise(Made(e), {}, e \in BoxedErrors)
    BY <1>1, <2>1 DEF Raise
  <2>2. CASE GiveContext(Made(e), {})
    BY <1>1, <2>2 DEF GiveContext
  <2>3. CASE \E box \in BOOLEAN : IntoFault(e, box)
    BY <1>1, <2>3 DEF IntoFault
  <2>4. CASE \E outer \in Errors : ChangeContext(Made(e), {}, outer)
    BY <1>1, <2>4 DEF ChangeContext
  <2> QED BY <1>3, <2>1, <2>2, <2>3, <2>4
<1>4. ASSUME NEW r \in faults \ boxed,
             \/ Raise(Lent(r), {r}, FALSE) \/ GiveContext(Lent(r), {r})
             \/ \E e \in Errors : ChangeContext(Lent(r), {r}, e)
      PROVE  Survives
  BY <1>4, RaiseSurvives, GiveContextSurvives, ChangeContextSurvives
<1>5. ASSUME NEW r \in faults, \E e \in Errors : Wrap(r, e) PROVE Survives
  BY <1>5, WrapSurvives
<1>6. ASSUME NEW r \in faults,
             Push(r) \/ Write(r) \/ FindRootCause(r) \/ Iterate(r) \/ IntoFrame(r)
      PROVE  faults' \subseteq faults
  BY <1>6 DEF Push, Write, FindRootCause, Iterate, IntoFrame
<1>7. ASSUME NEW f \in held, Release(f) PROVE faults' \subseteq faults
  BY <1>7 DEF Release
<1>8. ASSUME NEW keep \in BOOLEAN, IterNext(keep) PROVE faults' \subseteq faults
  BY <1>8 DEF IterNext
<1>9. StopIterating => faults' \subseteq faults
  BY DEF StopIterating
<1>10. UNCHANGED vars => faults' \subseteq faults
  BY DEF vars
<1> QED BY <1>2, <1>3, <1>4, <1>5, <1>6, <1>7, <1>8, <1>9, <1>10 DEF Next

\* Raised again, given context or wrapped (exn.rs), a fault keeps its root cause, though
\* std lends only Error::source and the frames are copies; unless the new error has sources
\* of its own, which come first.
THEOREM CausesSurvive == Spec => CauseSurvives
<1>1. TreeIInv /\ [Next]_vars => [Survives]_vars
  BY NextSurvives
<1> QED BY <1>1, TreeInvariant, PTL DEF Spec, CauseSurvives, Survives
=============================================================================
