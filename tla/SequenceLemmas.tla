-------------------------- MODULE SequenceLemmas --------------------------
(***************************************************************************)
(* What the proofs about faults and about the macros that declare errors   *)
(* need to know of sequences: induction as a statement about sets, of      *)
(* functions defined by recursion, of sequences put one after the other,   *)
(* and of the members of a sequence that are selected.                     *)
(***************************************************************************)
EXTENDS Naturals, SequencesExt, SequenceTheorems, WellFoundedInduction, TLAPS

-----------------------------------------------------------------------------
\* Induction over the natural numbers.

\* The order of the natural numbers, as a relation.
Smaller == {p \in Nat \X Nat : p[1] < p[2]}

\* From the least element that a set of natural numbers has.
LEMMA SmallerWellFounded == IsWellFoundedOn(Smaller, Nat)
<1>1. IsWellFoundedOn(OpToRel(<, Nat), Nat)
  BY NatLessThanWellFounded
<1>2. OpToRel(<, Nat) = Smaller
  BY DEF OpToRel, Smaller
<1> QED BY <1>1, <1>2

\* A set that has 0, and with each number the next, has all.
LEMMA ByInduction ==
  ASSUME NEW S, 0 \in S, \A n \in Nat : n \in S => n + 1 \in S
  PROVE  Nat \subseteq S
<1> SUFFICES ASSUME Nat \ S # {} PROVE FALSE
  OBVIOUS
<1>1. PICK m \in Nat \ S : \A k \in Nat \ S : ~(<<k, m>> \in Smaller)
  BY SmallerWellFounded, WFMin
<1>2. m # 0 /\ m - 1 \in Nat
  OBVIOUS
<1>3. <<m - 1, m>> \in Smaller
  BY <1>2 DEF Smaller
<1>4. m - 1 \in S
  BY <1>1, <1>2, <1>3
<1> QED BY <1>2, <1>4

-----------------------------------------------------------------------------
\* Functions defined by recursion from smaller numbers.

\* What a recursive function does at k with the values g before it, step[<<k, g>>],
\* is determined by those values.
Determined(D, V, step) ==
  /\ V # {} /\ \E n \in Nat : D \subseteq 0..n
  /\ step \in [D \X [D -> V] -> V]
  /\ \A k \in D : \A g, h \in [D -> V] :
       (\A j \in D : j < k => g[j] = h[j]) => step[<<k, g>>] = step[<<k, h>>]

Solves(v, D, step) == \A k \in D : v[k] = step[<<k, v>>]

LEMMA RecursiveDefinition ==
  ASSUME NEW D, NEW V, NEW step, Determined(D, V, step)
  PROVE  \E v \in [D -> V] : Solves(v, D, step)
<1>d. /\ V # {} /\ \E n \in Nat : D \subseteq 0..n
      /\ step \in [D \X [D -> V] -> V]
      /\ \A k \in D : \A g, h \in [D -> V] :
           (\A j \in D : j < k => g[j] = h[j]) => step[<<k, g>>] = step[<<k, h>>]
  BY DEF Determined
<1>a. PICK n \in Nat : D \subseteq 0..n
  BY <1>d
<1>b. PICK start \in V : TRUE
  BY <1>d
<1>c. \A j \in D : j \in Nat /\ j < n + 1
  BY <1>a
<1> DEFINE Good(m, g) == \A k \in D : k < m => g[k] = step[<<k, g>>]
           S == {m \in Nat : \E g \in [D -> V] : Good(m, g)}
<1>1. 0 \in S
  <2>1. [k \in D |-> start] \in [D -> V]
    OBVIOUS
  <2>2. \A g : Good(0, g)
    BY <1>c
  <2> HIDE DEF Good
  <2> QED BY <2>1, <2>2
<1>2. ASSUME NEW m \in Nat, m \in S PROVE m + 1 \in S
  <2>1. PICK g \in [D -> V] : Good(m, g)
    BY <1>2
  <2>2. CASE m \notin D
    <3>1. \A k \in D : k < m + 1 => k < m
      <4>1. \A k \in D : k \in Nat /\ k # m
        BY <1>c, <2>2
      <4> QED BY <1>c, <4>1
    <3>2. Good(m + 1, g)
      BY <2>1, <3>1
    <3> HIDE DEF Good
    <3> QED BY <3>2
  <2>3. CASE m \in D
    <3> DEFINE h == [g EXCEPT ![m] = step[<<m, g>>]]
    <3>1. step[<<m, g>>] \in V
      BY <1>d, <2>3
    <3>2. h \in [D -> V] /\ h[m] = step[<<m, g>>] /\ \A j \in D : j # m => h[j] = g[j]
      BY <2>3, <3>1
    <3> HIDE DEF h
    <3>3. ASSUME NEW k \in D, k < m + 1 PROVE h[k] = step[<<k, h>>]
      <4>1. k \in Nat /\ \A j \in D : j \in Nat /\ (j < k => j # m)
        BY <1>c, <3>3
      <4>2. \A j \in D : j < k => g[j] = h[j]
        BY <3>2, <4>1
      <4>3. step[<<k, g>>] = step[<<k, h>>]
        BY <1>d, <3>2, <4>2
      <4>4. CASE k = m
        BY <3>2, <4>3, <4>4
      <4>5. CASE k # m
        <5>1. k < m
          BY <3>3, <4>1, <4>5
        <5>2. g[k] = step[<<k, g>>]
          BY <2>1, <5>1
        <5> QED BY <3>2, <4>3, <4>5, <5>2
      <4> QED BY <4>4, <4>5
    <3>4. Good(m + 1, h)
      BY <3>3
    <3> HIDE DEF Good
    <3> QED BY <3>2, <3>4
  <2> QED BY <2>2, <2>3
<1>3. Nat \subseteq S
  <2> HIDE DEF S
  <2> QED BY <1>1, <1>2, ByInduction
<1>4. PICK v \in [D -> V] : Good(n + 1, v)
  <2>1. n + 1 \in S
    BY <1>3
  <2> QED BY <2>1
<1> QED BY <1>c, <1>4 DEF Solves

-----------------------------------------------------------------------------
\* Sequences of sequences, put one after the other.

LEMMA EmptyOrAppended ==
  ASSUME NEW X, NEW s \in Seq(X), NEW n \in Nat, Len(s) = n + 1
  PROVE  \E front \in Seq(X), x \in X :
           /\ s = Append(front, x) /\ Len(front) = n /\ x = s[n + 1]
           /\ \A i \in 1..n : front[i] = s[i]
<1> DEFINE front == [i \in 1..n |-> s[i]]
<1>1. front \in Seq(X) /\ Len(front) = n /\ s[n + 1] \in X
  OBVIOUS
<1>2. \A i \in 1..n : front[i] = s[i]
  OBVIOUS
<1> HIDE DEF front
<1>3. Append(front, s[n + 1]) \in Seq(X) /\ Len(Append(front, s[n + 1])) = n + 1
  BY <1>1
<1>4. \A i \in 1..(n + 1) : Append(front, s[n + 1])[i] = s[i]
  BY <1>1, <1>2
<1>5. s = Append(front, s[n + 1])
  BY <1>3, <1>4, SeqEqual
<1> QED BY <1>1, <1>2, <1>5

\* What FlattenSeq computes on its way.
Flattening(ss, g) ==
  g = [i \in 1..Len(ss) |-> IF i = 1 THEN ss[i] ELSE g[i - 1] \o ss[i]]

LEMMA FlatteningExists ==
  ASSUME NEW V, NEW ss \in Seq(Seq(V))
  PROVE  \E g \in [1..Len(ss) -> Seq(V)] : Flattening(ss, g)
<1> DEFINE D == 1..Len(ss)
           step == [p \in D \X [D -> Seq(V)] |->
                      IF p[1] = 1 THEN ss[p[1]] ELSE p[2][p[1] - 1] \o ss[p[1]]]
<1>1. Len(ss) \in Nat /\ D \subseteq 0..Len(ss) /\ <<>> \in Seq(V)
  OBVIOUS
<1>2. ASSUME NEW k \in D, NEW g \in [D -> Seq(V)]
      PROVE  step[<<k, g>>] = IF k = 1 THEN ss[k] ELSE g[k - 1] \o ss[k]
  OBVIOUS
<1>3. ASSUME NEW k \in D, NEW g \in [D -> Seq(V)] PROVE step[<<k, g>>] \in Seq(V)
  <2>1. ss[k] \in Seq(V)
    OBVIOUS
  <2>2. CASE k = 1
    BY <1>2, <2>1, <2>2
  <2>3. CASE k # 1
    <3>1. g[k - 1] \in Seq(V)
      <4>1. k - 1 \in D
        BY <1>1, <2>3
      <4> QED BY <4>1
    <3>2. g[k - 1] \o ss[k] \in Seq(V)
      BY <2>1, <3>1
    <3> QED BY <1>2, <2>3, <3>2
  <2> QED BY <2>2, <2>3
<1>4. step \in [D \X [D -> Seq(V)] -> Seq(V)]
  <2>1. step = [p \in D \X [D -> Seq(V)] |-> step[p]]
    OBVIOUS
  <2>2. \A p \in D \X [D -> Seq(V)] : step[p] \in Seq(V)
    <3> SUFFICES ASSUME NEW p \in D \X [D -> Seq(V)] PROVE step[p] \in Seq(V)
      OBVIOUS
    <3>1. p = <<p[1], p[2]>> /\ p[1] \in D /\ p[2] \in [D -> Seq(V)]
      OBVIOUS
    <3> HIDE DEF step, D
    <3>2. step[<<p[1], p[2]>>] \in Seq(V)
      BY <1>3, <3>1
    <3> QED BY <3>1, <3>2
  <2> HIDE DEF step
  <2> QED BY <2>1, <2>2
<1>5. ASSUME NEW k \in D, NEW g \in [D -> Seq(V)], NEW h \in [D -> Seq(V)],
             \A j \in D : j < k => g[j] = h[j]
      PROVE  step[<<k, g>>] = step[<<k, h>>]
  <2>1. k # 1 => k - 1 \in D /\ k - 1 < k
    OBVIOUS
  <2>2. k # 1 => g[k - 1] = h[k - 1]
    BY <1>5, <2>1
  <2> HIDE DEF step, D
  <2>3. /\ step[<<k, g>>] = IF k = 1 THEN ss[k] ELSE g[k - 1] \o ss[k]
        /\ step[<<k, h>>] = IF k = 1 THEN ss[k] ELSE h[k - 1] \o ss[k]
    BY <1>2
  <2> QED BY <2>2, <2>3
<1> HIDE DEF step
<1>6. PICK g \in [D -> Seq(V)] : \A k \in D : g[k] = step[<<k, g>>]
  <2>1. \A k \in D : \A g, h \in [D -> Seq(V)] :
          (\A j \in D : j < k => g[j] = h[j]) => step[<<k, g>>] = step[<<k, h>>]
    BY <1>5
  <2>2. Determined(D, Seq(V), step)
    BY <1>1, <1>4, <2>1 DEF Determined
  <2>3. \E g \in [D -> Seq(V)] : Solves(g, D, step)
    BY <2>2, RecursiveDefinition
  <2> QED BY <2>3 DEF Solves
<1>7. \A k \in D : g[k] = IF k = 1 THEN ss[k] ELSE g[k - 1] \o ss[k]
  BY <1>2, <1>6
<1>8. Flattening(ss, g)
  BY <1>7 DEF Flattening
<1> QED BY <1>8

LEMMA FlattenIs ==
  ASSUME NEW V, NEW ss \in Seq(Seq(V)), ss # <<>>
  PROVE  \E g \in [1..Len(ss) -> Seq(V)] : Flattening(ss, g) /\ FlattenSeq(ss) = g[Len(ss)]
<1> DEFINE g == CHOOSE g : Flattening(ss, g)
<1>1. Len(ss) \in Nat /\ Len(ss) # 0
  OBVIOUS
<1>2. FlattenSeq(ss) = g[Len(ss)]
  BY <1>1 DEF FlattenSeq, Flattening
<1>3. Flattening(ss, g)
  BY FlatteningExists
<1> HIDE DEF g
<1> DEFINE S == {k \in Nat : k \in 1..Len(ss) => g[k] \in Seq(V)}
<1>4. 0 \in S
  OBVIOUS
<1>5. ASSUME NEW k \in Nat, k \in S PROVE k + 1 \in S
  <2> SUFFICES ASSUME k + 1 \in 1..Len(ss) PROVE g[k + 1] \in Seq(V)
    OBVIOUS
  <2>1. ss[k + 1] \in Seq(V)
    OBVIOUS
  <2>2. g[k + 1] = IF k + 1 = 1 THEN ss[k + 1] ELSE g[(k + 1) - 1] \o ss[k + 1]
    BY <1>3 DEF Flattening
  <2>3. CASE k = 0
    BY <2>1, <2>2, <2>3
  <2>4. CASE k # 0
    <3>1. k \in 1..Len(ss) /\ (k + 1) - 1 = k /\ k + 1 # 1
      BY <2>4
    <3>2. g[k] \in Seq(V)
      BY <1>5, <3>1
    <3>3. g[k] \o ss[k + 1] \in Seq(V)
      BY <2>1, <3>2
    <3> QED BY <2>2, <3>1, <3>3
  <2> QED BY <2>3, <2>4
<1>6. Nat \subseteq S
  <2> HIDE DEF S
  <2> QED BY <1>4, <1>5, ByInduction
<1>7. g \in [1..Len(ss) -> Seq(V)]
  <2>1. \A k \in 1..Len(ss) : g[k] \in Seq(V)
    BY <1>6
  <2>2. g = [k \in 1..Len(ss) |-> g[k]]
    BY <1>3 DEF Flattening
  <2> QED BY <2>1, <2>2
<1> QED BY <1>2, <1>3, <1>7

LEMMA FlattenEmpty == FlattenSeq(<<>>) = <<>>
BY DEF FlattenSeq

LEMMA FlattenType ==
  ASSUME NEW V, NEW ss \in Seq(Seq(V))
  PROVE  FlattenSeq(ss) \in Seq(V)
<1>1. CASE ss = <<>>
  <2>1. FlattenSeq(ss) = <<>>
    BY <1>1, FlattenEmpty
  <2>2. <<>> \in Seq(V)
    OBVIOUS
  <2> QED BY <2>1, <2>2
<1>2. CASE ss # <<>>
  <2>1. PICK g \in [1..Len(ss) -> Seq(V)] : FlattenSeq(ss) = g[Len(ss)]
    BY <1>2, FlattenIs
  <2>2. Len(ss) \in 1..Len(ss)
    BY <1>2
  <2> QED BY <2>1, <2>2
<1> QED BY <1>1, <1>2

\* One more sequence comes at the end.
LEMMA FlattenAppend ==
  ASSUME NEW V, NEW ss \in Seq(Seq(V)), NEW s \in Seq(V)
  PROVE  FlattenSeq(Append(ss, s)) = FlattenSeq(ss) \o s
<1> DEFINE tt == Append(ss, s)
           n == Len(ss)
<1>1. /\ n \in Nat /\ tt \in Seq(Seq(V)) /\ Len(tt) = n + 1 /\ tt # <<>>
      /\ tt[n + 1] = s /\ \A i \in 1..n : tt[i] = ss[i]
  <2>1. /\ n \in Nat /\ tt \in Seq(Seq(V)) /\ Len(tt) = n + 1
        /\ tt[n + 1] = s /\ \A i \in 1..n : tt[i] = ss[i]
    BY AppendProperties
  <2> HIDE DEF tt
  <2> QED BY <2>1
<1> HIDE DEF tt
<1>2. PICK h \in [1..Len(tt) -> Seq(V)] : Flattening(tt, h) /\ FlattenSeq(tt) = h[n + 1]
  BY <1>1, FlattenIs
<1>3. \A i \in 1..(n + 1) : h[i] = IF i = 1 THEN tt[i] ELSE h[i - 1] \o tt[i]
  BY <1>1, <1>2 DEF Flattening
<1>4. CASE ss = <<>>
  <2>1. n = 0 /\ FlattenSeq(tt) = s
    BY <1>1, <1>2, <1>3, <1>4
  <2>2. <<>> \o s = s
    OBVIOUS
  <2> QED BY <1>4, <2>1, <2>2, FlattenEmpty DEF tt
<1>5. CASE ss # <<>>
  <2>1. PICK g \in [1..n -> Seq(V)] : Flattening(ss, g) /\ FlattenSeq(ss) = g[n]
    BY <1>5, FlattenIs
  <2>2. \A i \in 1..n : g[i] = IF i = 1 THEN ss[i] ELSE g[i - 1] \o ss[i]
    BY <2>1 DEF Flattening
  <2> DEFINE S == {k \in Nat : k \in 1..n => g[k] = h[k]}
  <2>3. 0 \in S
    OBVIOUS
  <2>4. ASSUME NEW k \in Nat, k \in S PROVE k + 1 \in S
    <3> SUFFICES ASSUME k + 1 \in 1..n PROVE g[k + 1] = h[k + 1]
      OBVIOUS
    <3>1. k + 1 \in 1..(n + 1) /\ tt[k + 1] = ss[k + 1] /\ (k + 1) - 1 = k
      BY <1>1
    <3>2. k + 1 # 1 => g[k] = h[k]
      BY <2>4
    <3>3. /\ g[k + 1] = IF k + 1 = 1 THEN ss[k + 1] ELSE g[(k + 1) - 1] \o ss[k + 1]
          /\ h[k + 1] = IF k + 1 = 1 THEN tt[k + 1] ELSE h[(k + 1) - 1] \o tt[k + 1]
      BY <1>3, <2>2, <3>1
    <3> QED BY <3>1, <3>2, <3>3
  <2>5. Nat \subseteq S
    <3> HIDE DEF S
    <3> QED BY <2>3, <2>4, ByInduction
  <2>6. n \in 1..n /\ n + 1 \in 1..(n + 1) /\ n + 1 # 1 /\ (n + 1) - 1 = n
    BY <1>1, <1>5
  <2>7. g[n] = h[n]
    BY <1>1, <2>5, <2>6
  <2>8. h[n + 1] = h[n] \o s
    BY <1>1, <1>3, <2>6
  <2> QED BY <1>2, <2>1, <2>7, <2>8 DEF tt
<1> QED BY <1>4, <1>5

LEMMA FlattenOne ==
  ASSUME NEW V, NEW s \in Seq(V)
  PROVE  FlattenSeq(<<s>>) = s
<1>1. <<>> \in Seq(Seq(V)) /\ Append(<<>>, s) = <<s>> /\ <<>> \o s = s
  OBVIOUS
<1> QED BY <1>1, FlattenAppend, FlattenEmpty

\* Two sequences of sequences come one after the other.
LEMMA FlattenConcat ==
  ASSUME NEW V, NEW ss \in Seq(Seq(V)), NEW tt \in Seq(Seq(V))
  PROVE  FlattenSeq(ss \o tt) = FlattenSeq(ss) \o FlattenSeq(tt)
<1> DEFINE Holds(u) == FlattenSeq(ss \o u) = FlattenSeq(ss) \o FlattenSeq(u)
           S == {n \in Nat : \A u \in Seq(Seq(V)) : Len(u) = n => Holds(u)}
<1>1. 0 \in S
  <2> SUFFICES ASSUME NEW u \in Seq(Seq(V)), Len(u) = 0 PROVE Holds(u)
    OBVIOUS
  <2>1. u = <<>>
    OBVIOUS
  <2>2. ss \o <<>> = ss /\ FlattenSeq(ss) \in Seq(V)
    BY FlattenType
  <2>3. FlattenSeq(ss) \o <<>> = FlattenSeq(ss)
    BY <2>2
  <2> QED BY <2>1, <2>2, <2>3, FlattenEmpty
<1>2. ASSUME NEW n \in Nat, n \in S PROVE n + 1 \in S
  <2> SUFFICES ASSUME NEW u \in Seq(Seq(V)), Len(u) = n + 1 PROVE Holds(u)
    OBVIOUS
  <2>1. PICK front \in Seq(Seq(V)), x \in Seq(V) :
          /\ u = Append(front, x) /\ Len(front) = n /\ x = u[n + 1]
          /\ \A i \in 1..n : front[i] = u[i]
    BY EmptyOrAppended
  <2>2. FlattenSeq(ss \o front) = FlattenSeq(ss) \o FlattenSeq(front)
    BY <1>2, <2>1
  <2>3. ss \o front \in Seq(Seq(V)) /\ ss \o Append(front, x) = Append(ss \o front, x)
    OBVIOUS
  <2>4. FlattenSeq(ss \o u) = FlattenSeq(ss \o front) \o x
    BY <2>1, <2>3, FlattenAppend
  <2>5. FlattenSeq(u) = FlattenSeq(front) \o x
    BY <2>1, FlattenAppend
  <2>6. FlattenSeq(ss) \in Seq(V) /\ FlattenSeq(front) \in Seq(V)
    BY FlattenType
  <2>7. (FlattenSeq(ss) \o FlattenSeq(front)) \o x = FlattenSeq(ss) \o (FlattenSeq(front) \o x)
    BY <2>6, ConcatAssociative, SMTT(30)
  <2> QED BY <2>2, <2>4, <2>5, <2>7
<1>3. Nat \subseteq S
  <2> HIDE DEF S
  <2> QED BY <1>1, <1>2, ByInduction
<1> QED BY <1>3

\* What a function makes of the elements, one after the other, is what it makes of
\* each sequence.
Mapped(m, s) == [i \in 1..Len(s) |-> m[s[i]]]

LEMMA MappedConcat ==
  ASSUME NEW V, NEW m, NEW s \in Seq(V), NEW t \in Seq(V)
  PROVE  Mapped(m, s \o t) = Mapped(m, s) \o Mapped(m, t)
<1>a. PICK W : \A x \in V : m[x] \in W
  <2>1. \A x \in V : m[x] \in {m[y] : y \in V}
    OBVIOUS
  <2> QED BY <2>1
<1>1. \A u \in Seq(V) :
        /\ Mapped(m, u) \in Seq(W) /\ Len(Mapped(m, u)) = Len(u)
        /\ \A i \in 1..Len(u) : Mapped(m, u)[i] = m[u[i]]
  BY <1>a DEF Mapped
<1>2. /\ s \o t \in Seq(V) /\ Len(s \o t) = Len(s) + Len(t)
      /\ \A i \in 1..(Len(s) + Len(t)) :
           (s \o t)[i] = IF i <= Len(s) THEN s[i] ELSE t[i - Len(s)]
  OBVIOUS
<1>3. /\ Mapped(m, s) \o Mapped(m, t) \in Seq(W)
      /\ Len(Mapped(m, s) \o Mapped(m, t)) = Len(s) + Len(t)
      /\ \A i \in 1..(Len(s) + Len(t)) :
           (Mapped(m, s) \o Mapped(m, t))[i] =
             IF i <= Len(s) THEN Mapped(m, s)[i] ELSE Mapped(m, t)[i - Len(s)]
  <2> DEFINE p == Mapped(m, s)
             q == Mapped(m, t)
  <2>1. p \in Seq(W) /\ Len(p) = Len(s) /\ q \in Seq(W) /\ Len(q) = Len(t)
    BY <1>1
  <2> HIDE DEF p, q
  <2>2. /\ p \o q \in Seq(W) /\ Len(p \o q) = Len(p) + Len(q)
        /\ \A i \in 1..(Len(p) + Len(q)) :
             (p \o q)[i] = IF i <= Len(p) THEN p[i] ELSE q[i - Len(p)]
    BY <2>1
  <2> QED BY <2>1, <2>2 DEF p, q
<1>4. ASSUME NEW i \in 1..(Len(s) + Len(t))
      PROVE  Mapped(m, s \o t)[i] = (Mapped(m, s) \o Mapped(m, t))[i]
  <2>1. Len(s) \in Nat /\ Len(t) \in Nat
    OBVIOUS
  <2>2. Mapped(m, s \o t)[i] = m[(s \o t)[i]]
    BY <1>1, <1>2
  <2>3. CASE i <= Len(s)
    <3>1. i \in 1..Len(s)
      BY <2>1, <2>3
    <3> QED BY <1>1, <1>2, <1>3, <2>2, <2>3, <3>1
  <2>4. CASE ~(i <= Len(s))
    <3>1. i - Len(s) \in 1..Len(t)
      BY <2>1, <2>4
    <3> QED BY <1>1, <1>2, <1>3, <2>2, <2>4, <3>1
  <2> QED BY <2>3, <2>4
<1>5. Mapped(m, s \o t) \in Seq(W) /\ Len(Mapped(m, s \o t)) = Len(s) + Len(t)
  BY <1>1, <1>2
<1>6. Mapped(m, s \o t) = Mapped(m, s) \o Mapped(m, t)
  BY <1>3, <1>4, <1>5, SeqEqual
<1> QED BY <1>6

LEMMA MappedFlatten ==
  ASSUME NEW V, NEW m, NEW ss \in Seq(Seq(V))
  PROVE  Mapped(m, FlattenSeq(ss)) = FlattenSeq([i \in 1..Len(ss) |-> Mapped(m, ss[i])])
<1>a. PICK W : \A x \in V : m[x] \in W
  <2>1. \A x \in V : m[x] \in {m[y] : y \in V}
    OBVIOUS
  <2> QED BY <2>1
<1>b. \A s, t \in Seq(V) : Mapped(m, s \o t) = Mapped(m, s) \o Mapped(m, t)
  BY MappedConcat
<1> DEFINE Each(u) == [i \in 1..Len(u) |-> Mapped(m, u[i])]
           Holds(u) == Mapped(m, FlattenSeq(u)) = FlattenSeq(Each(u))
           S == {n \in Nat : \A u \in Seq(Seq(V)) : Len(u) = n => Holds(u)}
<1>1. 0 \in S
  <2> SUFFICES ASSUME NEW u \in Seq(Seq(V)), Len(u) = 0 PROVE Holds(u)
    OBVIOUS
  <2>1. u = <<>> /\ Each(u) = <<>> /\ Mapped(m, <<>>) = <<>>
    BY DEF Mapped
  <2> HIDE DEF Each
  <2> QED BY <2>1, FlattenEmpty
<1>2. ASSUME NEW n \in Nat, n \in S PROVE n + 1 \in S
  <2> SUFFICES ASSUME NEW u \in Seq(Seq(V)), Len(u) = n + 1 PROVE Holds(u)
    OBVIOUS
  <2>1. PICK front \in Seq(Seq(V)), x \in Seq(V) :
          /\ u = Append(front, x) /\ Len(front) = n /\ x = u[n + 1]
          /\ \A i \in 1..n : front[i] = u[i]
    BY EmptyOrAppended
  <2>2. Mapped(m, FlattenSeq(front)) = FlattenSeq(Each(front))
    BY <1>2, <2>1
  <2>3. FlattenSeq(front) \in Seq(V)
    BY FlattenType
  <2>4. Mapped(m, FlattenSeq(front) \o x) = Mapped(m, FlattenSeq(front)) \o Mapped(m, x)
    BY <1>b, <2>3
  <2>5. \A s \in Seq(V) : Mapped(m, s) \in Seq(W)
    BY <1>a DEF Mapped
  <2>6. Each(front) \in Seq(Seq(W)) /\ Len(Each(front)) = n /\ Mapped(m, x) \in Seq(W)
    <3>1. \A i \in 1..n : Mapped(m, front[i]) \in Seq(W)
      BY <2>1, <2>5
    <3>2. Each(front) \in Seq(Seq(W)) /\ Len(Each(front)) = n
      BY <2>1, <3>1
    <3>3. Mapped(m, x) \in Seq(W)
      BY <2>5
    <3> HIDE DEF Each
    <3> QED BY <3>2, <3>3
  <2>7. Each(u) \in Seq(Seq(W)) /\ Len(Each(u)) = n + 1
    <3>1. \A i \in 1..(n + 1) : Mapped(m, u[i]) \in Seq(W)
      BY <2>5
    <3> QED BY <3>1
  <2>8. /\ \A i \in 1..n : Each(front)[i] = Mapped(m, u[i])
        /\ \A i \in 1..(n + 1) : Each(u)[i] = Mapped(m, u[i])
    BY <2>1
  <2> HIDE DEF Each
  <2>9. Each(u) = Append(Each(front), Mapped(m, x))
    <3> DEFINE e == Append(Each(front), Mapped(m, x))
    <3>1. e \in Seq(Seq(W)) /\ Len(e) = n + 1
      BY <2>6
    <3>2. \A i \in 1..(n + 1) : e[i] = Each(u)[i]
      BY <2>1, <2>6, <2>8
    <3> HIDE DEF e
    <3>3. Each(u) = e
      BY <2>7, <3>1, <3>2, SeqEqual
    <3> QED BY <3>3 DEF e
  <2>10. FlattenSeq(Each(u)) = FlattenSeq(Each(front)) \o Mapped(m, x)
    BY <2>6, <2>9, FlattenAppend
  <2>11. FlattenSeq(u) = FlattenSeq(front) \o x
    BY <2>1, FlattenAppend
  <2> QED BY <2>2, <2>4, <2>10, <2>11
<1>3. Nat \subseteq S
  <2> HIDE DEF S
  <2> QED BY <1>1, <1>2, ByInduction
<1> QED BY <1>3


\* One sequence after the other.
LEMMA Concat ==
  ASSUME NEW X, NEW s \in Seq(X), NEW t \in Seq(X)
  PROVE  /\ s \o t \in Seq(X) /\ Len(s \o t) = Len(s) + Len(t)
         /\ \A i \in 1..Len(s) : (s \o t)[i] = s[i]
         /\ \A i \in 1..Len(t) : (s \o t)[Len(s) + i] = t[i]
<1>1. /\ s \o t \in Seq(X) /\ Len(s \o t) = Len(s) + Len(t)
      /\ Len(s) \in Nat /\ Len(t) \in Nat
      /\ \A i \in 1..Len(s) : (s \o t)[i] = s[i]
  OBVIOUS
<1>2. ASSUME NEW i \in 1..Len(t) PROVE (s \o t)[Len(s) + i] = t[i]
  <2>1. /\ Len(s) + i \in 1..(Len(s) + Len(t)) /\ ~(Len(s) + i <= Len(s))
        /\ (Len(s) + i) - Len(s) = i
    BY <1>1
  <2> QED BY <2>1
<1> QED BY <1>1, <1>2

LEMMA LastOfLonger ==
  ASSUME NEW X, NEW s \in Seq(X), s # <<>>, NEW x \in X
  PROVE  Last(<<x>> \o s) = Last(s) /\ Last(<<x>>) = x
<1>1. /\ <<x>> \o s \in Seq(X) /\ Len(<<x>> \o s) = 1 + Len(s)
      /\ (<<x>> \o s)[1 + Len(s)] = s[Len(s)]
  OBVIOUS
<1> QED BY <1>1 DEF Last

LEMMA MoreValues ==
  ASSUME NEW X, NEW Y, X \subseteq Y, NEW s \in Seq(X)
  PROVE  s \in Seq(Y)
OBVIOUS

LEMMA ConcatAppend ==
  ASSUME NEW X, NEW s \in Seq(X), NEW t \in Seq(X), NEW x \in X
  PROVE  s \o Append(t, x) = Append(s \o t, x)
OBVIOUS

-----------------------------------------------------------------------------
\* The members of a sequence that are selected.

\* Those that are in S.
Among(s, S) ==
  LET kept[i \in 0..Len(s)] ==
        IF i = 0 THEN <<>> ELSE IF s[i] \in S THEN Append(kept[i - 1], s[i]) ELSE kept[i - 1]
  IN  kept[Len(s)]

\* What Among computes on its way.
Selects(s, S, g) ==
  g = [i \in 0..Len(s) |-> IF i = 0 THEN <<>>
                           ELSE IF s[i] \in S THEN Append(g[i - 1], s[i]) ELSE g[i - 1]]

LEMMA SelectionExists ==
  ASSUME NEW X, NEW s \in Seq(X), NEW S
  PROVE  \E g \in [0..Len(s) -> Seq(X \cap S)] : Selects(s, S, g)
<1> DEFINE D == 0..Len(s)
           V == Seq(X \cap S)
           step == [p \in D \X [D -> V] |->
                      IF p[1] = 0 THEN <<>>
                      ELSE IF s[p[1]] \in S THEN Append(p[2][p[1] - 1], s[p[1]])
                      ELSE p[2][p[1] - 1]]
<1>1. V # {} /\ \E n \in Nat : D \subseteq 0..n
  <2>1. <<>> \in V
    OBVIOUS
  <2>2. Len(s) \in Nat
    OBVIOUS
  <2> QED BY <2>1, <2>2
<1>2. ASSUME NEW k \in D, NEW g \in [D -> V]
      PROVE  /\ step[<<k, g>>] \in V
             /\ step[<<k, g>>] = IF k = 0 THEN <<>>
                                 ELSE IF s[k] \in S THEN Append(g[k - 1], s[k]) ELSE g[k - 1]
             /\ k # 0 => k - 1 \in D /\ k - 1 < k
  <2>1. k # 0 => k - 1 \in D /\ k - 1 < k /\ k \in 1..Len(s)
    OBVIOUS
  <2>2. step[<<k, g>>] = IF k = 0 THEN <<>>
                         ELSE IF s[k] \in S THEN Append(g[k - 1], s[k]) ELSE g[k - 1]
    OBVIOUS
  <2>3. k # 0 => g[k - 1] \in V /\ s[k] \in X
    BY <2>1
  <2> HIDE DEF step, D
  <2>4. CASE k = 0
    BY <2>1, <2>2, <2>4
  <2>5. CASE k # 0 /\ s[k] \in S
    <3>1. s[k] \in X \cap S
      BY <2>3, <2>5
    <3>2. Append(g[k - 1], s[k]) \in V
      BY <2>3, <2>5, <3>1
    <3> HIDE DEF V
    <3> QED BY <2>1, <2>2, <2>5, <3>2
  <2>6. CASE k # 0 /\ s[k] \notin S
    BY <2>1, <2>2, <2>3, <2>6
  <2> QED BY <2>4, <2>5, <2>6
<1>3. ASSUME NEW k \in D, NEW g \in [D -> V], NEW h \in [D -> V],
             \A j \in D : j < k => g[j] = h[j]
      PROVE  step[<<k, g>>] = step[<<k, h>>]
  <2> HIDE DEF step, V
  <2>1. k # 0 => g[k - 1] = h[k - 1]
    BY <1>2, <1>3
  <2> QED BY <1>2, <2>1
<1>4. step \in [D \X [D -> V] -> V]
  <2>1. \A k \in D : \A g \in [D -> V] : step[<<k, g>>] \in V
    BY <1>2
  <2>2. step = [p \in D \X [D -> V] |-> step[p]]
    OBVIOUS
  <2>3. \A p \in D \X [D -> V] : p = <<p[1], p[2]>> /\ p[1] \in D /\ p[2] \in [D -> V]
    OBVIOUS
  <2> HIDE DEF step, D, V
  <2>4. \A p \in D \X [D -> V] : step[p] \in V
    BY <2>1, <2>3
  <2> QED BY <2>2, <2>4
<1>5. Determined(D, V, step)
  <2> HIDE DEF step, D, V
  <2> QED BY <1>1, <1>3, <1>4 DEF Determined
<1>6. PICK v \in [D -> V] : Solves(v, D, step)
  <2> HIDE DEF step, D, V
  <2> QED BY <1>5, RecursiveDefinition
<1>7. \A k \in D : v[k] = IF k = 0 THEN <<>>
                          ELSE IF s[k] \in S THEN Append(v[k - 1], s[k]) ELSE v[k - 1]
  <2> HIDE DEF step, V
  <2>1. \A k \in D : v[k] = step[<<k, v>>]
    BY <1>6 DEF Solves
  <2> QED BY <1>2, <1>6, <2>1
<1>8. Selects(s, S, v)
  <2> HIDE DEF V
  <2>1. v = [k \in D |-> v[k]]
    BY <1>6
  <2>2. v = [k \in D |-> IF k = 0 THEN <<>>
                         ELSE IF s[k] \in S THEN Append(v[k - 1], s[k]) ELSE v[k - 1]]
    BY <1>7, <2>1
  <2> QED BY <2>2 DEF Selects
<1> QED BY <1>6, <1>8

\* There is one way to select.
LEMMA SelectionUnique ==
  ASSUME NEW X, NEW s \in Seq(X), NEW S, NEW g, NEW h, Selects(s, S, g), Selects(s, S, h)
  PROVE  g[Len(s)] = h[Len(s)]
<1>a. \A f : Selects(s, S, f) => \A i \in 0..Len(s) :
        f[i] = IF i = 0 THEN <<>>
               ELSE IF s[i] \in S THEN Append(f[i - 1], s[i]) ELSE f[i - 1]
  BY DEF Selects
<1>1. /\ Len(s) \in Nat
      /\ \A i \in 0..Len(s) :
           /\ g[i] = IF i = 0 THEN <<>>
                     ELSE IF s[i] \in S THEN Append(g[i - 1], s[i]) ELSE g[i - 1]
           /\ h[i] = IF i = 0 THEN <<>>
                     ELSE IF s[i] \in S THEN Append(h[i - 1], s[i]) ELSE h[i - 1]
  BY <1>a
<1> DEFINE N == {k \in Nat : k <= Len(s) => g[k] = h[k]}
<1>2. 0 \in N
  BY <1>1
<1>3. ASSUME NEW k \in Nat, k \in N PROVE k + 1 \in N
  <2> SUFFICES ASSUME k + 1 <= Len(s) PROVE g[k + 1] = h[k + 1]
    OBVIOUS
  <2>1. k <= Len(s) /\ k + 1 \in 0..Len(s) /\ (k + 1) - 1 = k /\ k + 1 # 0
    BY <1>1
  <2>2. g[k] = h[k]
    BY <1>3, <2>1
  <2> QED BY <1>1, <2>1, <2>2
<1>4. Nat \subseteq N
  <2> HIDE DEF N
  <2> QED BY <1>2, <1>3, ByInduction
<1> QED BY <1>1, <1>4

LEMMA AmongIs ==
  ASSUME NEW X, NEW s \in Seq(X), NEW S
  PROVE  \E g \in [0..Len(s) -> Seq(X \cap S)] : Selects(s, S, g) /\ Among(s, S) = g[Len(s)]
<1>1. PICK g \in [0..Len(s) -> Seq(X \cap S)] : Selects(s, S, g)
  BY SelectionExists
<1> DEFINE h == CHOOSE f : Selects(s, S, f)
<1>2. Among(s, S) = h[Len(s)]
  BY DEF Among, Selects
<1>3. Selects(s, S, h)
  BY <1>1
<1> HIDE DEF h
<1>4. g[Len(s)] = h[Len(s)]
  BY ONLY <1>1, <1>3, SelectionUnique, s \in Seq(X)
<1> QED BY <1>1, <1>2, <1>4

LEMMA AmongType ==
  ASSUME NEW X, NEW s \in Seq(X), NEW S
  PROVE  Among(s, S) \in Seq(X) /\ Among(s, S) \in Seq(X \cap S)
<1>1. PICK g \in [0..Len(s) -> Seq(X \cap S)] : Among(s, S) = g[Len(s)]
  BY AmongIs
<1>2. Len(s) \in 0..Len(s)
  OBVIOUS
<1>3. Among(s, S) \in Seq(X \cap S)
  BY <1>1, <1>2
<1> QED BY <1>3, MoreValues

LEMMA AmongEmpty == ASSUME NEW S PROVE Among(<<>>, S) = <<>>
<1> DEFINE g == CHOOSE g : Selects(<<>>, S, g)
<1>1. <<>> \in Seq({}) /\ Len(<<>>) = 0
  OBVIOUS
<1>2. Among(<<>>, S) = g[0]
  BY <1>1 DEF Among, Selects
<1>3. \E f : Selects(<<>>, S, f)
  BY <1>1, SelectionExists
<1>4. Selects(<<>>, S, g)
  BY <1>3
<1> HIDE DEF g
<1>5. g[0] = <<>>
  BY <1>1, <1>4 DEF Selects
<1> QED BY <1>2, <1>5

\* One more member comes at the end, or is left out.
LEMMA AmongAppend ==
  ASSUME NEW X, NEW s \in Seq(X), NEW x \in X, NEW S
  PROVE  Among(Append(s, x), S) = IF x \in S THEN Append(Among(s, S), x) ELSE Among(s, S)
<1> DEFINE t == Append(s, x)
           n == Len(s)
<1>1. /\ n \in Nat /\ t \in Seq(X) /\ Len(t) = n + 1
      /\ t[n + 1] = x /\ \A i \in 1..n : t[i] = s[i]
  BY AppendProperties
<1> HIDE DEF t
<1>2. PICK h : Selects(t, S, h) /\ Among(t, S) = h[n + 1]
  <2>1. \E h \in [0..Len(t) -> Seq(X \cap S)] : Selects(t, S, h) /\ Among(t, S) = h[Len(t)]
    BY ONLY AmongIs, <1>1
  <2> QED BY <1>1, <2>1
<1>3. \A i \in 0..(n + 1) :
        h[i] = IF i = 0 THEN <<>>
               ELSE IF t[i] \in S THEN Append(h[i - 1], t[i]) ELSE h[i - 1]
  BY <1>1, <1>2 DEF Selects
<1> DEFINE g == [i \in 0..n |-> h[i]]
<1>4. Selects(s, S, g)
  <2>1. ASSUME NEW i \in 0..n
        PROVE  g[i] = IF i = 0 THEN <<>>
                      ELSE IF s[i] \in S THEN Append(g[i - 1], s[i]) ELSE g[i - 1]
    <3>1. i \in 0..(n + 1) /\ g[i] = h[i]
      BY <1>1
    <3>2. i # 0 => i - 1 \in 0..n /\ g[i - 1] = h[i - 1] /\ t[i] = s[i]
      BY <1>1
    <3> HIDE DEF g
    <3> QED BY <1>3, <3>1, <3>2
  <2> DEFINE f == [i \in 0..n |-> IF i = 0 THEN <<>>
                      ELSE IF s[i] \in S THEN Append(g[i - 1], s[i]) ELSE g[i - 1]]
  <2>2. \A i \in 0..n : g[i] = f[i]
    <3> HIDE DEF g
    <3> QED BY <2>1
  <2>3. g = f
    BY <2>2
  <2> HIDE DEF g
  <2> QED BY <2>3 DEF Selects
<1>5. g[n] = h[n]
  BY <1>1
<1> HIDE DEF g
<1>6. PICK f : Selects(s, S, f) /\ Among(s, S) = f[n]
  BY AmongIs
<1>7. f[n] = g[n]
  BY ONLY <1>4, <1>6, SelectionUnique, s \in Seq(X)
<1>8. n + 1 \in 0..(n + 1) /\ n + 1 # 0 /\ (n + 1) - 1 = n
  BY <1>1
<1>9. h[n + 1] = IF x \in S THEN Append(h[n], x) ELSE h[n]
  BY <1>1, <1>3, <1>8
<1> QED BY <1>2, <1>5, <1>6, <1>7, <1>9 DEF t

LEMMA AmongConcat ==
  ASSUME NEW X, NEW s \in Seq(X), NEW t \in Seq(X), NEW S
  PROVE  Among(s \o t, S) = Among(s, S) \o Among(t, S)
<1> DEFINE N == {n \in Nat : \A u \in Seq(X) : Len(u) = n =>
                     Among(s \o u, S) = Among(s, S) \o Among(u, S)}
<1>1. 0 \in N
  <2> SUFFICES ASSUME NEW u \in Seq(X), Len(u) = 0
               PROVE  Among(s \o u, S) = Among(s, S) \o Among(u, S)
    OBVIOUS
  <2>1. u = <<>> /\ s \o <<>> = s
    OBVIOUS
  <2>2. Among(s, S) \o <<>> = Among(s, S)
    BY AmongType
  <2> QED BY <2>1, <2>2, AmongEmpty
<1>2. ASSUME NEW n \in Nat, n \in N PROVE n + 1 \in N
  <2> SUFFICES ASSUME NEW u \in Seq(X), Len(u) = n + 1
               PROVE  Among(s \o u, S) = Among(s, S) \o Among(u, S)
    OBVIOUS
  <2>1. PICK front \in Seq(X), x \in X :
          /\ u = Append(front, x) /\ Len(front) = n /\ x = u[n + 1]
          /\ \A i \in 1..n : front[i] = u[i]
    BY EmptyOrAppended
  <2>2. Among(s \o front, S) = Among(s, S) \o Among(front, S)
    BY <1>2, <2>1
  <2>3. s \o front \in Seq(X) /\ s \o Append(front, x) = Append(s \o front, x)
    OBVIOUS
  <2>4. Among(Append(s \o front, x), S) = IF x \in S THEN Append(Among(s \o front, S), x)
                                         ELSE Among(s \o front, S)
    BY ONLY AmongAppend, s \o front \in Seq(X), x \in X, <2>3
  <2>7. Among(u, S) = IF x \in S THEN Append(Among(front, S), x) ELSE Among(front, S)
    BY <2>1, AmongAppend
  <2>5. Among(s, S) \in Seq(X) /\ Among(front, S) \in Seq(X)
    BY AmongType
  <2>6. Append(Among(s, S) \o Among(front, S), x) = Among(s, S) \o Append(Among(front, S), x)
    <3> SUFFICES ASSUME NEW p \in Seq(X), NEW q \in Seq(X)
                 PROVE  Append(p \o q, x) = p \o Append(q, x)
      BY <2>5
    <3>1. p \o Append(q, x) = Append(p \o q, x)
      BY ONLY ConcatAppend, p \in Seq(X), q \in Seq(X), x \in X
    <3> QED BY ONLY <3>1
  <2> QED BY <2>1, <2>2, <2>3, <2>4, <2>6, <2>7
<1>3. Nat \subseteq N
  <2> HIDE DEF N
  <2> QED BY <1>1, <1>2, ByInduction
<1> QED BY <1>3

\* All of a sequence, or nothing of it.
LEMMA AmongAll ==
  ASSUME NEW X, NEW S, X \subseteq S, NEW s \in Seq(X)
  PROVE  Among(s, S) = s
<1> DEFINE N == {n \in Nat : \A u \in Seq(X) : Len(u) = n => Among(u, S) = u}
<1>1. 0 \in N
  BY AmongEmpty
<1>2. ASSUME NEW n \in Nat, n \in N PROVE n + 1 \in N
  <2> SUFFICES ASSUME NEW u \in Seq(X), Len(u) = n + 1 PROVE Among(u, S) = u
    OBVIOUS
  <2>1. PICK front \in Seq(X), x \in X :
          /\ u = Append(front, x) /\ Len(front) = n /\ x = u[n + 1]
          /\ \A i \in 1..n : front[i] = u[i]
    BY EmptyOrAppended
  <2>2. Among(front, S) = front
    BY <1>2, <2>1
  <2>3. Among(u, S) = Append(Among(front, S), x)
    BY <2>1, AmongAppend
  <2> QED BY <2>1, <2>2, <2>3
<1>3. Nat \subseteq N
  <2> HIDE DEF N
  <2> QED BY <1>1, <1>2, ByInduction
<1> QED BY <1>3

LEMMA AmongNone ==
  ASSUME NEW X, NEW S, X \cap S = {}, NEW s \in Seq(X)
  PROVE  Among(s, S) = <<>>
<1>1. Among(s, S) \in Seq({})
  BY AmongType
<1> QED BY <1>1

\* Of sequences put one after the other, what is selected of each.
LEMMA AmongFlatten ==
  ASSUME NEW X, NEW ss \in Seq(Seq(X)), NEW S
  PROVE  Among(FlattenSeq(ss), S) = FlattenSeq([i \in 1..Len(ss) |-> Among(ss[i], S)])
<1> DEFINE Of(u) == [i \in 1..Len(u) |-> Among(u[i], S)]
           N == {n \in Nat : \A u \in Seq(Seq(X)) : Len(u) = n =>
                     Among(FlattenSeq(u), S) = FlattenSeq(Of(u))}
<1>1. 0 \in N
  <2> SUFFICES ASSUME NEW u \in Seq(Seq(X)), Len(u) = 0
               PROVE  Among(FlattenSeq(u), S) = FlattenSeq(Of(u))
    OBVIOUS
  <2>1. u = <<>> /\ Of(u) = <<>>
    OBVIOUS
  <2> HIDE DEF Of
  <2> QED BY <2>1, FlattenEmpty, AmongEmpty
<1>2. ASSUME NEW n \in Nat, n \in N PROVE n + 1 \in N
  <2> SUFFICES ASSUME NEW u \in Seq(Seq(X)), Len(u) = n + 1
               PROVE  Among(FlattenSeq(u), S) = FlattenSeq(Of(u))
    OBVIOUS
  <2>1. PICK front \in Seq(Seq(X)), x \in Seq(X) :
          /\ u = Append(front, x) /\ Len(front) = n /\ x = u[n + 1]
          /\ \A i \in 1..n : front[i] = u[i]
    BY EmptyOrAppended
  <2>2. Among(FlattenSeq(front), S) = FlattenSeq(Of(front))
    BY <1>2, <2>1
  <2>3. FlattenSeq(front) \in Seq(X)
    BY FlattenType
  <2>4. Among(FlattenSeq(front) \o x, S) = Among(FlattenSeq(front), S) \o Among(x, S)
    BY <2>3, AmongConcat, SMTT(30)
  <2>5. \A v \in Seq(X) : Among(v, S) \in Seq(X)
    BY AmongType
  <2>6. Of(front) \in Seq(Seq(X)) /\ Len(Of(front)) = n /\ Among(x, S) \in Seq(X)
    <3>1. \A i \in 1..n : Among(front[i], S) \in Seq(X)
      BY <2>1, <2>5
    <3> QED BY <2>1, <2>5, <3>1
  <2>7. Of(u) \in Seq(Seq(X)) /\ Len(Of(u)) = n + 1
    <3>1. \A i \in 1..(n + 1) : Among(u[i], S) \in Seq(X)
      BY <2>5
    <3> QED BY <3>1
  <2>8. /\ \A i \in 1..n : Of(front)[i] = Among(u[i], S)
        /\ \A i \in 1..(n + 1) : Of(u)[i] = Among(u[i], S)
    BY <2>1
  <2> HIDE DEF Of
  <2>9. Of(u) = Append(Of(front), Among(x, S))
    <3> DEFINE e == Append(Of(front), Among(x, S))
    <3>1. e \in Seq(Seq(X)) /\ Len(e) = n + 1
      BY <2>6
    <3>2. \A i \in 1..(n + 1) : e[i] = Of(u)[i]
      BY <2>1, <2>6, <2>8
    <3> HIDE DEF e
    <3>3. Of(u) = e
      BY <2>7, <3>1, <3>2, SeqEqual
    <3> QED BY <3>3 DEF e
  <2>10. FlattenSeq(Of(u)) = FlattenSeq(Of(front)) \o Among(x, S)
    BY <2>6, <2>9, FlattenAppend
  <2>11. FlattenSeq(u) = FlattenSeq(front) \o x
    BY <2>1, FlattenAppend
  <2> QED BY <2>2, <2>4, <2>10, <2>11
<1>3. Nat \subseteq N
  <2> HIDE DEF N
  <2> QED BY <1>1, <1>2, ByInduction
<1> QED BY <1>3

\* t has one element more than s.
Longer(t, s, x) ==
  /\ t = Append(s, x) /\ Len(t) = Len(s) + 1 /\ t[Len(s) + 1] = x
  /\ \A i \in 1..Len(s) : t[i] = s[i]

\* What the empty sequence has, and with a sequence the longer ones, all have.
LEMMA BySequence ==
  ASSUME NEW X, NEW S, <<>> \in S,
         \A s \in Seq(X), x \in X, t \in Seq(X) : s \in S /\ Longer(t, s, x) => t \in S
  PROVE  Seq(X) \subseteq S
<1> DEFINE N == {n \in Nat : \A s \in Seq(X) : Len(s) = n => s \in S}
<1>1. 0 \in N
  OBVIOUS
<1>2. ASSUME NEW n \in Nat, n \in N PROVE n + 1 \in N
  <2> SUFFICES ASSUME NEW s \in Seq(X), Len(s) = n + 1 PROVE s \in S
    OBVIOUS
  <2>1. PICK front \in Seq(X), x \in X :
          /\ s = Append(front, x) /\ Len(front) = n /\ x = s[n + 1]
          /\ \A i \in 1..n : front[i] = s[i]
    BY ONLY EmptyOrAppended, s \in Seq(X), n \in Nat, Len(s) = n + 1
  <2>2. front \in S /\ Longer(s, front, x)
    BY <1>2, <2>1 DEF Longer
  <2> QED BY <2>1, <2>2
<1>3. Nat \subseteq N
  <2> HIDE DEF N
  <2> QED BY <1>1, <1>2, ByInduction
<1> QED BY <1>3

\* One sequence among empty ones is all there is.
OnlyAt(ss, k) == \A j \in 1..Len(ss) : j # k => ss[j] = <<>>

LEMMA FlattenOfEmpty ==
  ASSUME NEW X, NEW ss \in Seq(Seq(X)), \A j \in 1..Len(ss) : ss[j] = <<>>
  PROVE  FlattenSeq(ss) = <<>>
<1> DEFINE S == {u \in Seq(Seq(X)) : (\A j \in 1..Len(u) : u[j] = <<>>) => FlattenSeq(u) = <<>>}
<1>1. <<>> \in S
  BY FlattenEmpty
<1>2. ASSUME NEW u \in Seq(Seq(X)), NEW x \in Seq(X), NEW v \in Seq(Seq(X)), u \in S,
             Longer(v, u, x)
      PROVE  v \in S
  <2> SUFFICES ASSUME \A j \in 1..Len(v) : v[j] = <<>>
               PROVE  FlattenSeq(v) = <<>>
    OBVIOUS
  <2>1. /\ v[Len(u) + 1] = x /\ \A j \in 1..Len(u) : v[j] = u[j]
        /\ Len(v) = Len(u) + 1 /\ Len(u) \in Nat
    BY <1>2 DEF Longer
  <2>2. x = <<>> /\ \A j \in 1..Len(u) : u[j] = <<>>
    <3>1. Len(u) + 1 \in 1..Len(v) /\ \A j \in 1..Len(u) : j \in 1..Len(v)
      BY <2>1
    <3> QED BY <2>1, <3>1
  <2>3. FlattenSeq(u) = <<>>
    BY <1>2, <2>2
  <2>4. FlattenSeq(v) = FlattenSeq(u) \o x
    BY <1>2, FlattenAppend DEF Longer
  <2> QED BY <2>2, <2>3, <2>4
<1>3. Seq(Seq(X)) \subseteq S
  <2> HIDE DEF S
  <2> QED BY <1>1, <1>2, BySequence
<1> QED BY <1>3

LEMMA FlattenOnlyAt ==
  ASSUME NEW X, NEW ss \in Seq(Seq(X)), NEW k \in 1..Len(ss), OnlyAt(ss, k)
  PROVE  FlattenSeq(ss) = ss[k]
<1> DEFINE S == {u \in Seq(Seq(X)) :
                   \A i \in 1..Len(u) : OnlyAt(u, i) => FlattenSeq(u) = u[i]}
<1>1. <<>> \in S
  OBVIOUS
<1>2. ASSUME NEW u \in Seq(Seq(X)), NEW x \in Seq(X), NEW v \in Seq(Seq(X)), u \in S,
             Longer(v, u, x)
      PROVE  v \in S
  <2> SUFFICES ASSUME NEW i \in 1..Len(v), OnlyAt(v, i)
               PROVE  FlattenSeq(v) = v[i]
    OBVIOUS
  <2>1. /\ v[Len(u) + 1] = x /\ \A j \in 1..Len(u) : v[j] = u[j]
        /\ Len(v) = Len(u) + 1 /\ Len(u) \in Nat
    BY <1>2 DEF Longer
  <2>2. FlattenSeq(v) = FlattenSeq(u) \o x
    BY <1>2, FlattenAppend DEF Longer
  <2>3. CASE i = Len(u) + 1
    <3>1. ASSUME NEW j \in 1..Len(u) PROVE u[j] = <<>>
      <4>1. j \in 1..Len(v) /\ j # i
        BY <2>1, <2>3
      <4> QED BY <2>1, <4>1 DEF OnlyAt
    <3>2. FlattenSeq(u) = <<>>
      BY <3>1, FlattenOfEmpty
    <3> QED BY <2>1, <2>2, <2>3, <3>2
  <2>4. CASE i \in 1..Len(u)
    <3>1. x = <<>>
      <4>1. Len(u) + 1 \in 1..Len(v) /\ Len(u) + 1 # i
        BY <2>1, <2>4
      <4> QED BY <2>1, <4>1 DEF OnlyAt
    <3>3. ASSUME NEW j \in 1..Len(u), j # i PROVE u[j] = <<>>
      <4>1. j \in 1..Len(v)
        BY <2>1
      <4> QED BY <2>1, <3>3, <4>1 DEF OnlyAt
    <3>4. OnlyAt(u, i)
      BY <3>3 DEF OnlyAt
    <3>2. FlattenSeq(u) = u[i]
      BY <1>2, <2>4, <3>4
    <3> QED BY <2>1, <2>2, <2>4, <3>1, <3>2
  <2> QED BY <2>1, <2>3, <2>4
<1>3. Seq(Seq(X)) \subseteq S
  <2> HIDE DEF S
  <2> QED BY <1>1, <1>2, BySequence
<1> QED BY <1>3

\* When the members in S are in one of the sequences, they are what is selected of it.
LEMMA SelectedFrom ==
  ASSUME NEW X, NEW ss \in Seq(Seq(X)), NEW k \in 1..Len(ss), NEW S,
         \A j \in 1..Len(ss) : j # k => Among(ss[j], S) = <<>>
  PROVE  Among(FlattenSeq(ss), S) = Among(ss[k], S)
<1> DEFINE of == [i \in 1..Len(ss) |-> Among(ss[i], S)]
<1>1. Among(FlattenSeq(ss), S) = FlattenSeq(of)
  BY AmongFlatten
<1>2. ASSUME NEW i \in 1..Len(ss) PROVE of[i] \in Seq(X)
  <2>1. ss[i] \in Seq(X)
    OBVIOUS
  <2>2. Among(ss[i], S) \in Seq(X)
    BY <2>1, AmongType
  <2> QED BY <2>2
<1>3. of \in Seq(Seq(X)) /\ Len(of) = Len(ss)
  BY <1>2
<1>4. of[k] = Among(ss[k], S) /\ \A j \in 1..Len(ss) : j # k => of[j] = <<>>
  OBVIOUS
<1> HIDE DEF of
<1>6. OnlyAt(of, k)
  BY <1>3, <1>4 DEF OnlyAt
<1> QED BY <1>1, <1>3, <1>4, <1>6, FlattenOnlyAt

\* When they are all of it, that sequence is what is selected.
LEMMA SectionOf ==
  ASSUME NEW X, NEW ss \in Seq(Seq(X)), NEW k \in 1..Len(ss), NEW S,
         ss[k] \in Seq(X \cap S), \A j \in 1..Len(ss) : j # k => ss[j] \in Seq(X \ S)
  PROVE  Among(FlattenSeq(ss), S) = ss[k]
<1>1. Among(ss[k], S) = ss[k]
  <2>1. X \cap S \subseteq S
    OBVIOUS
  <2> QED BY <2>1, AmongAll
<1>2. ASSUME NEW j \in 1..Len(ss), j # k PROVE Among(ss[j], S) = <<>>
  <2>1. (X \ S) \cap S = {} /\ ss[j] \in Seq(X \ S)
    BY <1>2
  <2> QED BY <2>1, AmongNone
<1> QED BY <1>1, <1>2, SelectedFrom

\* The elements come in the order of the sequences they are from.
Origin(ss, where) ==
  LET flat == FlattenSeq(ss)
  IN  /\ where \in [1..Len(flat) -> 1..Len(ss)]
      /\ \A i \in 1..Len(flat) : \E j \in 1..Len(ss[where[i]]) : flat[i] = ss[where[i]][j]
      /\ \A i \in 1..(Len(flat) - 1) :
           \/ where[i] < where[i + 1]
           \/ where[i] = where[i + 1] /\ Len(ss[where[i]]) >= 2

LEMMA FlattenOrder ==
  ASSUME NEW X, NEW ss \in Seq(Seq(X))
  PROVE  \E where \in [1..Len(FlattenSeq(ss)) -> 1..Len(ss)] : Origin(ss, where)
<1> DEFINE S == {u \in Seq(Seq(X)) :
                   \E where \in [1..Len(FlattenSeq(u)) -> 1..Len(u)] : Origin(u, where)}
<1>1. <<>> \in S
  <2>1. Len(FlattenSeq(<<>>)) = 0 /\ <<>> \in Seq(Seq(X))
    BY FlattenEmpty
  <2> DEFINE w == [i \in 1..0 |-> 1]
  <2>2. w \in [1..0 -> 1..Len(<<>>)]
    OBVIOUS
  <2>3. Origin(<<>>, w)
    BY <2>1, <2>2 DEF Origin
  <2> QED BY <2>1, <2>2, <2>3
<1>2. ASSUME NEW u \in Seq(Seq(X)), NEW x \in Seq(X), NEW v \in Seq(Seq(X)), u \in S,
             Longer(v, u, x)
      PROVE  v \in S
  <2> DEFINE flat == FlattenSeq(u)
             m    == Len(flat)
             n    == Len(u)
  <2>1. PICK where \in [1..m -> 1..n] : Origin(u, where)
    BY <1>2
  <2>2. /\ v \in Seq(Seq(X)) /\ v[n + 1] = x /\ \A j \in 1..n : v[j] = u[j]
        /\ Len(v) = n + 1 /\ n \in Nat
    BY <1>2 DEF Longer
  <2>3. FlattenSeq(v) = flat \o x /\ flat \in Seq(X)
    BY <1>2, FlattenAppend, FlattenType DEF Longer
  <2> HIDE DEF flat
  <2>4. /\ Len(flat \o x) = m + Len(x) /\ m \in Nat /\ Len(x) \in Nat
        /\ \A i \in 1..m : (flat \o x)[i] = flat[i]
        /\ \A i \in 1..Len(x) : (flat \o x)[m + i] = x[i]
    BY <2>3, Concat
  <2> DEFINE w == [i \in 1..(m + Len(x)) |-> IF i <= m THEN where[i] ELSE n + 1]
  <2>5. /\ w \in [1..(m + Len(x)) -> 1..(n + 1)]
        /\ \A i \in 1..m : w[i] = where[i] /\ where[i] \in 1..n /\ v[where[i]] = u[where[i]]
        /\ \A i \in (m + 1)..(m + Len(x)) : w[i] = n + 1
    <3>0. 1..n \subseteq 1..(n + 1)
      BY <2>2
    <3>1. \A i \in 1..m : where[i] \in 1..n /\ where[i] \in 1..(n + 1)
      <4> HIDE DEF m, n
      <4> QED BY <2>1, <3>0
    <3>2. /\ \A i \in 1..m : i \in 1..(m + Len(x)) /\ i <= m
          /\ \A i \in (m + 1)..(m + Len(x)) : i \in 1..(m + Len(x)) /\ ~(i <= m)
          /\ \A i \in 1..(m + Len(x)) : i <= m => i \in 1..m
          /\ n + 1 \in 1..(n + 1)
      BY <2>2, <2>4
    <3> HIDE DEF m, n
    <3> QED BY <2>2, <3>1, <3>2
  <2> HIDE DEF w, m, n
  <2>6. ASSUME NEW i \in 1..(m + Len(x))
        PROVE  \E j \in 1..Len(v[w[i]]) : (flat \o x)[i] = v[w[i]][j]
    <3>1. CASE i \in 1..m
      <4>1. \E j \in 1..Len(u[where[i]]) : flat[i] = u[where[i]][j]
        BY <2>1, <3>1 DEF Origin, flat, m
      <4> QED BY <2>4, <2>5, <3>1, <4>1
    <3>2. CASE i \notin 1..m
      <4>1. i - m \in 1..Len(x) /\ m + (i - m) = i /\ i \in (m + 1)..(m + Len(x))
        BY <2>4, <3>2
      <4>2. w[i] = n + 1 /\ v[w[i]] = x /\ (flat \o x)[i] = x[i - m]
        BY <2>2, <2>4, <2>5, <4>1
      <4> QED BY <4>1, <4>2
    <3> QED BY <3>1, <3>2
  <2>7. ASSUME NEW i \in 1..((m + Len(x)) - 1)
        PROVE  w[i] < w[i + 1] \/ (w[i] = w[i + 1] /\ Len(v[w[i]]) >= 2)
    <3>1. CASE i + 1 \in 1..m
      <4>1. i \in 1..(m - 1) /\ i \in 1..m
        BY <2>4, <3>1
      <4>2. \/ where[i] < where[i + 1]
            \/ where[i] = where[i + 1] /\ Len(u[where[i]]) >= 2
        BY <2>1, <4>1 DEF Origin, flat, m
      <4> QED BY <2>5, <3>1, <4>1, <4>2
    <3>2. CASE i = m
      <4>1. i \in 1..m /\ i + 1 \in (m + 1)..(m + Len(x))
        BY <2>4, <3>2
      <4> QED BY <2>2, <2>5, <4>1
    <3>3. CASE i > m
      <4>1. /\ i \in (m + 1)..(m + Len(x)) /\ i + 1 \in (m + 1)..(m + Len(x)) /\ Len(x) >= 2
        BY <2>4, <3>3
      <4> QED BY <2>2, <2>5, <4>1
    <3> QED BY <2>4, <3>1, <3>2, <3>3
  <2>9. w \in [1..Len(FlattenSeq(v)) -> 1..Len(v)]
    BY <2>2, <2>3, <2>4, <2>5
  <2>8. Origin(v, w)
    <3>1. Len(FlattenSeq(v)) = m + Len(x)
      BY <2>3, <2>4
    <3>2. /\ \A i \in 1..Len(FlattenSeq(v)) :
                \E j \in 1..Len(v[w[i]]) : FlattenSeq(v)[i] = v[w[i]][j]
          /\ \A i \in 1..(Len(FlattenSeq(v)) - 1) :
                w[i] < w[i + 1] \/ (w[i] = w[i + 1] /\ Len(v[w[i]]) >= 2)
      BY <2>3, <2>6, <2>7, <3>1
    <3> QED BY <2>9, <3>2 DEF Origin
  <2>10. v \in S
    BY <2>2, <2>8, <2>9
  <2> QED BY <2>10
<1>3. Seq(Seq(X)) \subseteq S
  <2> HIDE DEF S
  <2> QED BY <1>1, <1>2, BySequence
<1> QED BY <1>3

\* No element is lost.
LEMMA FlattenHasAll ==
  ASSUME NEW X, NEW ss \in Seq(Seq(X)), NEW k \in 1..Len(ss), NEW i \in 1..Len(ss[k])
  PROVE  \E j \in 1..Len(FlattenSeq(ss)) : FlattenSeq(ss)[j] = ss[k][i]
<1> DEFINE S == {u \in Seq(Seq(X)) : \A l \in 1..Len(u) : \A h \in 1..Len(u[l]) :
                   \E j \in 1..Len(FlattenSeq(u)) : FlattenSeq(u)[j] = u[l][h]}
<1>1. <<>> \in S
  OBVIOUS
<1>2. ASSUME NEW u \in Seq(Seq(X)), NEW x \in Seq(X), NEW v \in Seq(Seq(X)), u \in S,
             Longer(v, u, x)
      PROVE  v \in S
  <2> DEFINE flat == FlattenSeq(u)
             m    == Len(flat)
  <2> SUFFICES ASSUME NEW l \in 1..Len(v), NEW h \in 1..Len(v[l])
               PROVE  \E j \in 1..Len(FlattenSeq(v)) : FlattenSeq(v)[j] = v[l][h]
    OBVIOUS
  <2>1. /\ v[Len(u) + 1] = x /\ \A j \in 1..Len(u) : v[j] = u[j]
        /\ Len(v) = Len(u) + 1 /\ Len(u) \in Nat
    BY <1>2 DEF Longer
  <2>2. FlattenSeq(v) = flat \o x /\ flat \in Seq(X)
    BY <1>2, FlattenAppend, FlattenType DEF Longer
  <2>3. \A a \in 1..Len(u) : \A b \in 1..Len(u[a]) : \E j \in 1..m : flat[j] = u[a][b]
    BY <1>2
  <2> HIDE DEF flat
  <2>4. /\ Len(flat \o x) = m + Len(x) /\ m \in Nat /\ Len(x) \in Nat
        /\ \A i1 \in 1..m : (flat \o x)[i1] = flat[i1]
        /\ \A i1 \in 1..Len(x) : (flat \o x)[m + i1] = x[i1]
    BY <2>2, Concat
  <2> HIDE DEF m
  <2>5. CASE l = Len(u) + 1
    <3>1. v[l] = x /\ h \in 1..Len(x) /\ m + h \in 1..(m + Len(x)) /\ (flat \o x)[m + h] = x[h]
      BY <2>1, <2>4, <2>5
    <3> QED BY <2>2, <2>4, <3>1
  <2>6. CASE l \in 1..Len(u)
    <3>1. v[l] = u[l] /\ h \in 1..Len(u[l])
      BY <2>1, <2>6
    <3>2. PICK j \in 1..m : flat[j] = u[l][h]
      BY <2>3, <2>6, <3>1
    <3>3. j \in 1..(m + Len(x))
      BY <2>4, <3>2
    <3>4. (flat \o x)[j] = v[l][h]
      BY <2>4, <3>1, <3>2
    <3> QED BY <2>2, <2>4, <3>3, <3>4
  <2> QED BY <2>1, <2>5, <2>6
<1>3. Seq(Seq(X)) \subseteq S
  <2> HIDE DEF S
  <2> QED BY <1>1, <1>2, BySequence
<1> QED BY <1>3

\* Sequences of one element each make the sequence of the elements.
LEMMA FlattenOfOnes ==
  ASSUME NEW X, NEW ss \in Seq(Seq(X)), \A i \in 1..Len(ss) : Len(ss[i]) = 1
  PROVE  Len(FlattenSeq(ss)) = Len(ss) /\ \A i \in 1..Len(ss) : FlattenSeq(ss)[i] = ss[i][1]
<1> DEFINE Ones(u)  == \A i \in 1..Len(u) : Len(u[i]) = 1
           Goal(u)  == /\ Len(FlattenSeq(u)) = Len(u)
                       /\ \A i \in 1..Len(u) : FlattenSeq(u)[i] = u[i][1]
           S == {u \in Seq(Seq(X)) : Ones(u) => Goal(u)}
<1>1. <<>> \in S
  BY FlattenEmpty
<1>2. ASSUME NEW u \in Seq(Seq(X)), NEW x \in Seq(X), NEW v \in Seq(Seq(X)), u \in S,
             Longer(v, u, x)
      PROVE  v \in S
  <2> DEFINE flat == FlattenSeq(u)
             n    == Len(u)
  <2> SUFFICES ASSUME Ones(v) PROVE Goal(v)
    OBVIOUS
  <2>1. /\ v[n + 1] = x /\ \A j \in 1..n : v[j] = u[j]
        /\ Len(v) = n + 1 /\ n \in Nat
    BY <1>2 DEF Longer
  <2>2. FlattenSeq(v) = flat \o x /\ flat \in Seq(X)
    BY <1>2, FlattenAppend, FlattenType DEF Longer
  <2>3. Ones(u) /\ Len(x) = 1
    BY <2>1
  <2>4. Len(flat) = n /\ \A i \in 1..n : flat[i] = u[i][1]
    BY <1>2, <2>3
  <2> HIDE DEF flat
  <2>5. /\ Len(flat \o x) = n + 1
        /\ \A i \in 1..n : (flat \o x)[i] = flat[i]
        /\ (flat \o x)[n + 1] = x[1]
    <3>1. /\ Len(flat \o x) = Len(flat) + Len(x)
          /\ \A i \in 1..Len(flat) : (flat \o x)[i] = flat[i]
          /\ \A i \in 1..Len(x) : (flat \o x)[Len(flat) + i] = x[i]
      BY ONLY <2>2, x \in Seq(X), Concat
    <3> QED BY <2>3, <2>4, <3>1
  <2> QED BY <2>1, <2>2, <2>4, <2>5
<1>3. Seq(Seq(X)) \subseteq S
  <2> HIDE DEF S
  <2> QED BY <1>1, <1>2, BySequence
<1> QED BY <1>3

\* When each of some members adds one element, there are as many as members.
LEMMA FlattenCounts ==
  ASSUME NEW X, NEW ss \in Seq(Seq(X)), NEW Y, NEW tt \in Seq(Y), NEW S, Len(ss) = Len(tt),
         \A i \in 1..Len(tt) : Len(ss[i]) = IF tt[i] \in S THEN 1 ELSE 0
  PROVE  Len(FlattenSeq(ss)) = Len(Among(tt, S))
<1> DEFINE Told(u, t) == /\ Len(u) = Len(t)
                         /\ \A i \in 1..Len(t) : Len(u[i]) = IF t[i] \in S THEN 1 ELSE 0
           N == {u \in Seq(Seq(X)) :
                   \A t \in Seq(Y) : Told(u, t) => Len(FlattenSeq(u)) = Len(Among(t, S))}
<1>1. <<>> \in N
  <2> SUFFICES ASSUME NEW t \in Seq(Y), Told(<<>>, t)
               PROVE  Len(FlattenSeq(<<>>)) = Len(Among(t, S))
    OBVIOUS
  <2>1. t = <<>>
    OBVIOUS
  <2> QED BY <2>1, FlattenEmpty, AmongEmpty
<1>2. ASSUME NEW u \in Seq(Seq(X)), NEW x \in Seq(X), NEW v \in Seq(Seq(X)), u \in N,
             Longer(v, u, x)
      PROVE  v \in N
  <2> SUFFICES ASSUME NEW t \in Seq(Y), Told(v, t)
               PROVE  Len(FlattenSeq(v)) = Len(Among(t, S))
    OBVIOUS
  <2>1. /\ v[Len(u) + 1] = x /\ \A j \in 1..Len(u) : v[j] = u[j]
        /\ Len(v) = Len(u) + 1 /\ Len(u) \in Nat
    BY <1>2 DEF Longer
  <2>2. Len(t) = Len(u) + 1
    BY <2>1
  <2>3. PICK front \in Seq(Y), y \in Y :
          /\ t = Append(front, y) /\ Len(front) = Len(u) /\ y = t[Len(u) + 1]
          /\ \A i \in 1..Len(u) : front[i] = t[i]
    <3>1. Len(u) \in Nat
      OBVIOUS
    <3> QED BY ONLY <2>2, <3>1, t \in Seq(Y), EmptyOrAppended
  <2>4. Told(u, front) /\ Len(x) = IF y \in S THEN 1 ELSE 0
    <3>1. \A i \in 1..Len(t) : Len(v[i]) = IF t[i] \in S THEN 1 ELSE 0
      OBVIOUS
    <3>2. Len(x) = IF y \in S THEN 1 ELSE 0
      <4>1. Len(u) + 1 \in 1..Len(t)
        BY <2>1, <2>2
      <4> QED BY <2>1, <2>3, <3>1, <4>1
    <3>3. ASSUME NEW i \in 1..Len(front) PROVE Len(u[i]) = IF front[i] \in S THEN 1 ELSE 0
      <4>1. i \in 1..Len(t) /\ i \in 1..Len(u)
        BY <2>1, <2>2, <2>3
      <4> QED BY <2>1, <2>3, <3>1, <4>1
    <3> QED BY <2>3, <3>2, <3>3
  <2>5. Len(FlattenSeq(u)) = Len(Among(front, S))
    BY <1>2, <2>3, <2>4
  <2>6. FlattenSeq(v) = FlattenSeq(u) \o x /\ FlattenSeq(u) \in Seq(X)
    BY <1>2, FlattenAppend, FlattenType DEF Longer
  <2>7. Len(FlattenSeq(v)) = Len(FlattenSeq(u)) + Len(x)
    BY <2>6
  <2>8. Among(t, S) = IF y \in S THEN Append(Among(front, S), y) ELSE Among(front, S)
    BY ONLY <2>3, AmongAppend, front \in Seq(Y), y \in Y
  <2>9. Among(front, S) \in Seq(Y)
    BY AmongType
  <2> QED BY <2>4, <2>5, <2>7, <2>8, <2>9
<1>3. Seq(Seq(X)) \subseteq N
  <2> HIDE DEF N
  <2> QED BY <1>1, <1>2, BySequence
<1>4. ss \in N /\ Told(ss, tt)
  BY <1>3
<1> QED BY <1>4

\* What is selected of the elements.
LEMMA AmongMembers ==
  ASSUME NEW X, NEW s \in Seq(X), NEW S
  PROVE  ToSet(Among(s, S)) = ToSet(s) \cap S
<1> DEFINE N == {u \in Seq(X) : ToSet(Among(u, S)) = ToSet(u) \cap S}
<1>1. <<>> \in N
  BY AmongEmpty DEF ToSet
<1>2. ASSUME NEW u \in Seq(X), NEW x \in X, NEW v \in Seq(X), u \in N, Longer(v, u, x)
      PROVE  v \in N
  <2>1. Among(u, S) \in Seq(X)
    BY AmongType
  <2>2. ASSUME NEW w \in Seq(X), NEW z, z = Append(w, x) PROVE ToSet(z) = ToSet(w) \cup {x}
    <3>1. /\ Len(w) \in Nat /\ DOMAIN w = 1..Len(w) /\ DOMAIN z = 1..(Len(w) + 1)
          /\ z[Len(w) + 1] = x /\ \A j \in 1..Len(w) : z[j] = w[j]
      BY <2>2, AppendProperties
    <3>2. 1..(Len(w) + 1) = (1..Len(w)) \cup {Len(w) + 1}
      BY <3>1
    <3> HIDE DEF ToSet
    <3>3. \A e : e \in ToSet(z) <=> \E j \in (1..Len(w)) \cup {Len(w) + 1} : e = z[j]
      BY <3>1, <3>2 DEF ToSet
    <3>4. \A e : e \in ToSet(w) <=> \E j \in 1..Len(w) : e = w[j]
      BY <3>1 DEF ToSet
    <3> QED BY <3>1, <3>3, <3>4
  <2>3. Among(v, S) = IF x \in S THEN Append(Among(u, S), x) ELSE Among(u, S)
    BY <1>2, AmongAppend DEF Longer
  <2>4. ToSet(v) = ToSet(u) \cup {x}
    BY <1>2, <2>2 DEF Longer
  <2>5. ToSet(Append(Among(u, S), x)) = ToSet(Among(u, S)) \cup {x}
    BY <2>1, <2>2
  <2> QED BY <1>2, <2>3, <2>4, <2>5
<1>3. Seq(X) \subseteq N
  <2> HIDE DEF N
  <2> QED BY <1>1, <1>2, BySequence
<1> QED BY <1>3

LEMMA FunctionIsSequence ==
  ASSUME NEW X, NEW n \in Nat, NEW f, f = [i \in 1..n |-> f[i]], \A i \in 1..n : f[i] \in X
  PROVE  f \in Seq(X) /\ Len(f) = n
<1>1. f \in [1..n -> X]
  OBVIOUS
<1> QED BY <1>1
=============================================================================
