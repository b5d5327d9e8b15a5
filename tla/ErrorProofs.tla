---------------------------- MODULE ErrorProofs ----------------------------
(***************************************************************************)
(* What an error is told as, and what the macros make of it.               *)
(*                                                                         *)
(* Report (src/src/report.rs, src/src/exn.rs): of every tree of a fault    *)
(* the renderings tell the causes in the order of the tree, the lines of a *)
(* format are the lines of its facts, and the forms agree on every fact    *)
(* they share.                                                             *)
(*                                                                         *)
(* AttributeMacros (fast-observe-macros/src/lib.rs): no member of an item  *)
(* is lost in the expansion of an attribute, or silently left alone.       *)
(*                                                                         *)
(* ErrorMacro (fast-observe-macros/src/error_macro.rs): exactly the enums  *)
(* of the contract expand, and an expansion is true of its enum in every   *)
(* configuration.                                                          *)
(***************************************************************************)
EXTENDS Report, AttributeMacros, ErrorMacro, SequenceLemmas, FiniteSetTheorems, TLAPS

-----------------------------------------------------------------------------
\* Paths, and their order.

Agree(a, b, n) == \A i \in 1..n : a[i] = b[i]

\* After n steps together a takes an earlier branch than b.
PartAfter(a, b, n) == n < Len(a) /\ n < Len(b) /\ Agree(a, b, n) /\ a[n + 1] < b[n + 1]

Diverges(a, b) == \E n \in Nat : PartAfter(a, b, n)

LEMMA PrefixIs ==
  ASSUME NEW a \in Seq(Nat), NEW b \in Seq(Nat)
  PROVE  IsPrefix(a, b) <=> Len(a) <= Len(b) /\ Agree(a, b, Len(a))
<1>1. CASE Len(a) <= Len(b)
  <2>1. /\ SubSeq(a, 1, Len(a)) \in Seq(Nat) /\ SubSeq(b, 1, Len(a)) \in Seq(Nat)
        /\ Len(SubSeq(a, 1, Len(a))) = Len(a) /\ Len(SubSeq(b, 1, Len(a))) = Len(a)
        /\ \A i \in 1..Len(a) : SubSeq(a, 1, Len(a))[i] = a[i] /\ SubSeq(b, 1, Len(a))[i] = b[i]
    BY <1>1
  <2>2. SubSeq(a, 1, Len(a)) = SubSeq(b, 1, Len(a)) <=> Agree(a, b, Len(a))
    <3>1. SubSeq(a, 1, Len(a)) = SubSeq(b, 1, Len(a)) => Agree(a, b, Len(a))
      BY <2>1 DEF Agree
    <3>2. Agree(a, b, Len(a)) => SubSeq(a, 1, Len(a)) = SubSeq(b, 1, Len(a))
      BY <2>1, SeqEqual DEF Agree
    <3> QED BY <3>1, <3>2
  <2> QED BY <1>1, <2>2 DEF IsPrefix
<1>2. CASE ~(Len(a) <= Len(b))
  BY <1>2 DEF IsPrefix
<1> QED BY <1>1, <1>2

LEMMA StartsAgree ==
  ASSUME NEW a \in Seq(Nat), NEW b \in Seq(Nat), NEW n \in Nat, n <= Len(a), n <= Len(b)
  PROVE  SubSeq(a, 1, n) = SubSeq(b, 1, n) <=> Agree(a, b, n)
<1>1. /\ SubSeq(a, 1, n) \in Seq(Nat) /\ SubSeq(b, 1, n) \in Seq(Nat)
      /\ Len(SubSeq(a, 1, n)) = n /\ Len(SubSeq(b, 1, n)) = n
      /\ \A i \in 1..n : SubSeq(a, 1, n)[i] = a[i] /\ SubSeq(b, 1, n)[i] = b[i]
  OBVIOUS
<1>2. SubSeq(a, 1, n) = SubSeq(b, 1, n) => Agree(a, b, n)
  BY <1>1 DEF Agree
<1>3. Agree(a, b, n) => SubSeq(a, 1, n) = SubSeq(b, 1, n)
  BY <1>1, SeqEqual DEF Agree
<1> QED BY <1>2, <1>3

LEMMA BeforeIs ==
  ASSUME NEW a \in Seq(Nat), NEW b \in Seq(Nat)
  PROVE  Before(a, b) <=> Diverges(a, b) \/ (Len(a) < Len(b) /\ Agree(a, b, Len(a)))
<1>1. Len(a) \in Nat /\ Len(b) \in Nat
  OBVIOUS
<1>2. Before(a, b) <=>
        \E n \in 0..Len(a) : /\ n < Len(b)
                             /\ Agree(a, b, n)
                             /\ n = Len(a) \/ (n < Len(a) /\ a[n + 1] < b[n + 1])
  <2> DEFINE Ends(n)  == n = Len(a) \/ (n < Len(a) /\ a[n + 1] < b[n + 1])
             Told(n)  == n < Len(b) /\ SubSeq(a, 1, n) = SubSeq(b, 1, n) /\ Ends(n)
             Shown(n) == n < Len(b) /\ Agree(a, b, n) /\ Ends(n)
  <2>1. \A n \in 0..Len(a) : Told(n) <=> Shown(n)
    <3> SUFFICES ASSUME NEW n \in 0..Len(a) PROVE Told(n) <=> Shown(n)
      OBVIOUS
    <3>1. n < Len(b) => (SubSeq(a, 1, n) = SubSeq(b, 1, n) <=> Agree(a, b, n))
      BY <1>1, StartsAgree
    <3> HIDE DEF Ends
    <3> QED BY <3>1
  <2>2. Before(a, b) <=> \E n \in 0..Len(a) : Told(n)
    BY DEF Before
  <2>3. Before(a, b) <=> \E n \in 0..Len(a) : Shown(n)
    <3> HIDE DEF Told, Shown
    <3> QED BY <2>1, <2>2
  <2> QED BY <2>3
<1>3. ASSUME Before(a, b) PROVE Diverges(a, b) \/ (Len(a) < Len(b) /\ Agree(a, b, Len(a)))
  BY <1>1, <1>2, <1>3 DEF Diverges, PartAfter
<1>4. ASSUME Diverges(a, b) PROVE Before(a, b)
  <2>1. PICK n \in Nat : PartAfter(a, b, n)
    BY <1>4 DEF Diverges
  <2>2. n \in 0..Len(a)
    BY <1>1, <2>1 DEF PartAfter
  <2>3. n < Len(b) /\ Agree(a, b, n) /\ n < Len(a) /\ a[n + 1] < b[n + 1]
    BY <2>1 DEF PartAfter
  <2> QED BY <1>2, <2>2, <2>3
<1>5. ASSUME Len(a) < Len(b), Agree(a, b, Len(a)) PROVE Before(a, b)
  BY <1>1, <1>2, <1>5
<1> QED BY <1>3, <1>4, <1>5

LEMMA DivergeOneWay ==
  ASSUME NEW a \in Seq(Nat), NEW b \in Seq(Nat), Diverges(a, b)
  PROVE  ~Diverges(b, a) /\ ~Agree(a, b, Len(a)) /\ ~Agree(b, a, Len(b)) /\ ~Agree(a, b, Len(b))
<1>1. PICK n \in Nat : PartAfter(a, b, n)
  BY DEF Diverges
<1>2. n + 1 \in 1..Len(a) /\ n + 1 \in 1..Len(b) /\ a[n + 1] \in Nat /\ b[n + 1] \in Nat
  BY <1>1 DEF PartAfter
<1>3. a[n + 1] # b[n + 1]
  BY <1>1, <1>2 DEF PartAfter
<1>4. ~Agree(a, b, Len(a)) /\ ~Agree(b, a, Len(b)) /\ ~Agree(a, b, Len(b))
  BY <1>2, <1>3 DEF Agree
<1>5. ASSUME NEW m \in Nat, PartAfter(b, a, m) PROVE FALSE
  <2>1. m + 1 \in 1..Len(b) /\ a[m + 1] \in Nat /\ b[m + 1] \in Nat /\ b[m + 1] < a[m + 1]
    BY <1>5 DEF PartAfter
  <2>2. CASE n < m
    <3>1. n + 1 \in 1..m
      BY <2>2
    <3> QED BY <1>3, <1>5, <3>1 DEF PartAfter, Agree
  <2>3. CASE m < n
    <3>1. m + 1 \in 1..n
      BY <2>3
    <3> QED BY <1>1, <2>1, <3>1 DEF PartAfter, Agree
  <2>4. CASE m = n
    BY <1>1, <1>2, <2>1, <2>4 DEF PartAfter
  <2> QED BY <2>2, <2>3, <2>4
<1> QED BY <1>4, <1>5 DEF Diverges

LEMMA BeforeOneWay ==
  ASSUME NEW a \in Seq(Nat), NEW b \in Seq(Nat), Before(a, b)
  PROVE  ~Before(b, a) /\ a # b
<1>1. CASE Diverges(a, b)
  <2>1. ~Before(b, a)
    BY <1>1, DivergeOneWay, BeforeIs
  <2>2. Agree(a, a, Len(a))
    BY DEF Agree
  <2> QED BY <1>1, <2>1, <2>2, DivergeOneWay
<1>2. CASE ~Diverges(a, b)
  <2>1. Len(a) < Len(b) /\ Agree(a, b, Len(a)) /\ Len(a) \in Nat /\ Len(b) \in Nat
    BY <1>2, BeforeIs
  <2>2. ~Diverges(b, a)
    BY <2>1, DivergeOneWay
  <2> QED BY <2>1, <2>2, BeforeIs
<1> QED BY <1>1, <1>2

\* Where paths part, longer paths part.
LEMMA LongerDiverge ==
  ASSUME NEW a \in Seq(Nat), NEW b \in Seq(Nat), NEW c \in Seq(Nat), NEW d \in Seq(Nat),
         Diverges(a, b), IsPrefix(a, c), IsPrefix(b, d)
  PROVE  Diverges(c, d)
<1>1. PICK n \in Nat : PartAfter(a, b, n)
  BY DEF Diverges
<1>2. /\ Len(a) <= Len(c) /\ Agree(a, c, Len(a)) /\ Len(b) <= Len(d) /\ Agree(b, d, Len(b))
      /\ Len(a) \in Nat /\ Len(b) \in Nat /\ Len(c) \in Nat /\ Len(d) \in Nat
  BY PrefixIs
<1>3. n < Len(c) /\ n < Len(d) /\ n + 1 \in 1..Len(a) /\ n + 1 \in 1..Len(b)
  <2>1. n < Len(a) /\ n < Len(b)
    BY <1>1 DEF PartAfter
  <2>2. /\ Len(a) \in Nat /\ Len(b) \in Nat /\ Len(c) \in Nat /\ Len(d) \in Nat
        /\ Len(a) <= Len(c) /\ Len(b) <= Len(d)
    BY ONLY <1>2
  <2>3. PICK la, lb, lc, ld : la = Len(a) /\ lb = Len(b) /\ lc = Len(c) /\ ld = Len(d)
    OBVIOUS
  <2>4. n \in Nat
    OBVIOUS
  <2>5. n < lc /\ n < ld /\ n + 1 \in 1..la /\ n + 1 \in 1..lb
    BY ONLY <2>1, <2>2, <2>3, <2>4, SMTT(30)
  <2> QED BY ONLY <2>3, <2>5
<1>4. c[n + 1] < d[n + 1]
  BY <1>1, <1>2, <1>3 DEF PartAfter, Agree
<1>5. Agree(c, d, n)
  <2> SUFFICES ASSUME NEW i \in 1..n PROVE c[i] = d[i]
    BY DEF Agree
  <2>1. i \in 1..Len(a) /\ i \in 1..Len(b)
    <3>1. n < Len(a) /\ n < Len(b)
      BY <1>1 DEF PartAfter
    <3> QED BY <1>2, <3>1
  <2>2. a[i] = c[i] /\ b[i] = d[i] /\ a[i] = b[i]
    BY <1>1, <1>2, <2>1 DEF PartAfter, Agree
  <2> QED BY <2>2
<1> QED BY <1>3, <1>4, <1>5 DEF Diverges, PartAfter

LEMMA BeforeLonger ==
  ASSUME NEW a \in Seq(Nat), NEW b \in Seq(Nat), NEW c \in Seq(Nat), Before(a, b), IsPrefix(b, c)
  PROVE  Before(a, c)
<1>1. IsPrefix(a, a)
  BY PrefixIs DEF Agree
<1>2. CASE Diverges(a, b)
  BY <1>1, <1>2, LongerDiverge, BeforeIs
<1>3. CASE ~Diverges(a, b)
  <2>1. Len(a) < Len(b) /\ Agree(a, b, Len(a)) /\ Len(b) <= Len(c) /\ Agree(b, c, Len(b))
    BY <1>3, BeforeIs, PrefixIs
  <2>2. Len(a) < Len(c) /\ Agree(a, c, Len(a))
    BY <2>1 DEF Agree
  <2> QED BY <2>2, BeforeIs
<1> QED BY <1>2, <1>3

\* Paths that part are not both on the way to a third.
LEMMA OneWayOnly ==
  ASSUME NEW a \in Seq(Nat), NEW b \in Seq(Nat), NEW c \in Seq(Nat), Diverges(a, b),
         IsPrefix(a, c)
  PROVE  ~IsPrefix(b, c)
<1> SUFFICES ASSUME IsPrefix(b, c) PROVE FALSE
  OBVIOUS
<1>1. Diverges(c, c)
  BY LongerDiverge
<1> QED BY <1>1, DivergeOneWay

\* A child comes after its parent and its elder siblings.
LEMMA ChildOrder ==
  ASSUME NEW p \in Seq(Nat), NEW i \in Nat
  PROVE  /\ Append(p, i) \in Seq(Nat) /\ IsPrefix(p, Append(p, i)) /\ Before(p, Append(p, i))
         /\ \A j \in Nat : i < j => Diverges(Append(p, i), Append(p, j))
<1>1. /\ \A j \in Nat : /\ Append(p, j) \in Seq(Nat) /\ Len(Append(p, j)) = Len(p) + 1
                        /\ Append(p, j)[Len(p) + 1] = j
                        /\ \A k \in 1..Len(p) : Append(p, j)[k] = p[k]
      /\ Len(p) \in Nat
  OBVIOUS
<1>2. Agree(p, Append(p, i), Len(p))
  BY <1>1 DEF Agree
<1>3. IsPrefix(p, Append(p, i)) /\ Before(p, Append(p, i))
  <2> DEFINE c == Append(p, i)
  <2>1. c \in Seq(Nat) /\ Len(c) = Len(p) + 1 /\ Agree(p, c, Len(p))
    BY <1>1, <1>2
  <2> HIDE DEF c
  <2>2. Len(p) < Len(c) /\ Len(p) <= Len(c)
    BY <1>1, <2>1
  <2>3. IsPrefix(p, c) /\ Before(p, c)
    BY <2>1, <2>2, PrefixIs, BeforeIs
  <2> QED BY <2>3 DEF c
<1>4. ASSUME NEW j \in Nat, i < j PROVE Diverges(Append(p, i), Append(p, j))
  <2>1. PartAfter(Append(p, i), Append(p, j), Len(p))
    BY <1>1, <1>4 DEF PartAfter, Agree
  <2> QED BY <1>1, <2>1 DEF Diverges
<1> QED BY <1>1, <1>3, <1>4

\* A path that goes on from p goes on through one of its children.
LEMMA ThroughChild ==
  ASSUME NEW p \in Seq(Nat), NEW q \in Seq(Nat), IsPrefix(p, q), q # p
  PROVE  /\ Len(p) + 1 \in 1..Len(q) /\ q[Len(p) + 1] \in Nat
         /\ IsPrefix(Append(p, q[Len(p) + 1]), q)
<1>1. Len(p) <= Len(q) /\ Agree(p, q, Len(p)) /\ Len(p) \in Nat /\ Len(q) \in Nat
  BY PrefixIs
<1>2. Len(p) # Len(q)
  <2> SUFFICES ASSUME Len(p) = Len(q) PROVE FALSE
    OBVIOUS
  <2> QED BY <1>1, SeqEqual DEF Agree
<1>3. Len(p) + 1 \in 1..Len(q) /\ q[Len(p) + 1] \in Nat
  BY <1>1, <1>2
<1> DEFINE c == Append(p, q[Len(p) + 1])
<1>4. /\ c \in Seq(Nat) /\ Len(c) = Len(p) + 1 /\ c[Len(p) + 1] = q[Len(p) + 1]
      /\ \A k \in 1..Len(p) : c[k] = p[k]
  BY <1>3
<1> HIDE DEF c
<1>5. Len(c) <= Len(q) /\ Agree(c, q, Len(c))
  <2>1. ASSUME NEW k \in 1..Len(c) PROVE c[k] = q[k]
    <3>1. k \in 1..Len(p) \/ k = Len(p) + 1
      BY <1>1, <1>4
    <3> QED BY <1>1, <1>4, <3>1 DEF Agree
  <2> QED BY <1>1, <1>3, <1>4, <2>1 DEF Agree
<1>6. IsPrefix(c, q)
  BY <1>4, <1>5, PrefixIs
<1> QED BY <1>3, <1>6 DEF c

-----------------------------------------------------------------------------
\* The paths of a tree.

\* The paths of the children of p.
Below(D, p) == {q \in D : Len(q) = Len(p) + 1 /\ IsPrefix(p, q)}

\* Finitely many, with all paths on the way to them, and children numbered from 1.
\* The first branch ends.
Shape(D) ==
  /\ IsFiniteSet(D) /\ D \subseteq Seq(Nat) /\ <<>> \in D
  /\ \A p \in D, q \in Seq(Nat) : IsPrefix(q, p) => q \in D
  /\ \A p \in D, n \in Nat : Append(p, n) \in D <=> n \in 1..Cardinality(Below(D, p))
  /\ \E p \in D : ToSet(p) \subseteq {1} /\ Below(D, p) = {}

LEMMA BelowFinite ==
  ASSUME NEW D, IsFiniteSet(D), NEW p
  PROVE  IsFiniteSet(Below(D, p)) /\ Cardinality(Below(D, p)) \in Nat
<1>1. Below(D, p) \in SUBSET D
  BY DEF Below
<1> QED BY <1>1, FS_Subset, FS_CardinalityType

LEMMA RootShape == Shape({<<>>})
<1> DEFINE D == {<<>>}
<1>1. IsFiniteSet(D) /\ D \subseteq Seq(Nat) /\ <<>> \in D
  <2>1. IsFiniteSet({<<>>})
    BY FS_Singleton
  <2>2. <<>> \in Seq(Nat)
    OBVIOUS
  <2> QED BY <2>1, <2>2
<1>2. Below(D, <<>>) = {}
  <2>1. Len(<<>>) # Len(<<>>) + 1
    OBVIOUS
  <2> QED BY <2>1 DEF Below
<1>3. \A q \in Seq(Nat) : IsPrefix(q, <<>>) => q = <<>>
  <2> SUFFICES ASSUME NEW q \in Seq(Nat), IsPrefix(q, <<>>) PROVE q = <<>>
    OBVIOUS
  <2>1. Len(q) <= Len(<<>>)
    BY DEF IsPrefix
  <2> QED BY <2>1
<1>4. \A n \in Nat : Append(<<>>, n) # <<>>
  OBVIOUS
<1>5. Cardinality({}) = 0 /\ 1..0 = {}
  BY FS_EmptySet
<1>6. ToSet(<<>>) \subseteq {1}
  BY DEF ToSet
<1> QED BY <1>1, <1>2, <1>3, <1>4, <1>5, <1>6 DEF Shape

\* A further child of p.
LEMMA GrownShape ==
  ASSUME NEW D, Shape(D), NEW p \in D, NEW c, c = Append(p, Cardinality(Below(D, p)) + 1)
  PROVE  c \notin D /\ Shape(D \cup {c})
<1> DEFINE E == D \cup {c}
           b == Cardinality(Below(D, p))
<1>1. /\ IsFiniteSet(D) /\ D \subseteq Seq(Nat) /\ <<>> \in D
      /\ \A r \in D, q \in Seq(Nat) : IsPrefix(q, r) => q \in D
      /\ \A r \in D, n \in Nat : Append(r, n) \in D <=> n \in 1..Cardinality(Below(D, r))
      /\ \E r \in D : ToSet(r) \subseteq {1} /\ Below(D, r) = {}
  BY DEF Shape
<1>2. b \in Nat /\ b + 1 \in Nat /\ b + 1 \notin 1..b
  BY <1>1, BelowFinite
<1>3. /\ c \in Seq(Nat) /\ Len(c) = Len(p) + 1 /\ c[Len(p) + 1] = b + 1 /\ Len(p) \in Nat
      /\ p \in Seq(Nat) /\ IsPrefix(p, c) /\ c \notin D
  <2>1. p \in Seq(Nat)
    BY <1>1
  <2>2. /\ Append(p, b + 1) \in Seq(Nat) /\ Len(Append(p, b + 1)) = Len(p) + 1
        /\ Append(p, b + 1)[Len(p) + 1] = b + 1 /\ Len(p) \in Nat
    BY <1>2, <2>1
  <2>3. IsPrefix(p, Append(p, b + 1)) /\ Append(p, b + 1) \notin D
    BY <1>1, <1>2, <2>1, ChildOrder
  <2> QED BY <2>1, <2>2, <2>3
<1>4. IsFiniteSet(E) /\ E \subseteq Seq(Nat) /\ <<>> \in E
  BY <1>1, <1>3, FS_AddElement
<1> HIDE DEF b
\* c has p as its parent and nobody else.
<1>5. ASSUME NEW r \in Seq(Nat), Len(c) = Len(r) + 1, IsPrefix(r, c) PROVE r = p
  <2>0. Agree(r, c, Len(r)) /\ Agree(p, c, Len(p))
    BY ONLY PrefixIs, <1>3, <1>5, r \in Seq(Nat)
  <2>1. Len(r) = Len(p) /\ Agree(r, c, Len(r)) /\ Agree(p, c, Len(p))
    <3>1. Len(r) \in Nat /\ Len(r) + 1 = Len(p) + 1
      BY <1>3, <1>5
    <3> QED BY <1>3, <2>0, <3>1
  <2>2. \A i \in 1..Len(p) : r[i] = p[i]
    BY <2>1 DEF Agree
  <2> QED BY <1>3, <2>1, <2>2, SeqEqual
\* Nothing is under c.
<1>6. ASSUME NEW q \in E, IsPrefix(c, q) PROVE q = c
  <2>1. q \notin D
    BY <1>1, <1>3, <1>6
  <2> QED BY <2>1
<1>7. ASSUME NEW r \in E, NEW q \in Seq(Nat), IsPrefix(q, r) PROVE q \in E
  <2>1. CASE r \in D
    BY <1>1, <1>7, <2>1
  <2>2. CASE r = c
    <3>1. Len(q) <= Len(c) /\ Agree(q, c, Len(q)) /\ Len(q) \in Nat
      <4>1. IsPrefix(q, c)
        BY <1>7, <2>2
      <4> QED BY ONLY PrefixIs, <1>3, <4>1, q \in Seq(Nat)
    <3>2. CASE Len(q) = Len(c)
      <4>1. q = c
        BY <1>3, <3>1, <3>2, SeqEqual DEF Agree
      <4> QED BY <4>1
    <3>3. CASE Len(q) # Len(c)
      <4>1. Len(q) <= Len(p) /\ Agree(p, c, Len(p))
        <5>1. Agree(p, c, Len(p))
          BY ONLY PrefixIs, <1>3
        <5>2. Len(q) <= Len(p)
          BY <1>3, <3>1, <3>3
        <5> QED BY <5>1, <5>2
      <4>2. Agree(q, p, Len(q))
        BY <1>3, <3>1, <4>1 DEF Agree
      <4>3. IsPrefix(q, p)
        BY <1>3, <4>1, <4>2, PrefixIs
      <4> QED BY <1>1, <4>3
    <3> QED BY <3>2, <3>3
  <2> QED BY <2>1, <2>2
<1>8. Below(E, p) = Below(D, p) \cup {c} /\ c \notin Below(D, p)
  BY <1>3 DEF Below
<1>9. Cardinality(Below(E, p)) = b + 1
  <2>1. IsFiniteSet(Below(D, p))
    BY <1>1, BelowFinite
  <2> QED BY <1>8, <2>1, FS_AddElement DEF b
<1>10. ASSUME NEW r \in D, r # p PROVE Below(E, r) = Below(D, r)
  <2>1. ~(Len(c) = Len(r) + 1 /\ IsPrefix(r, c))
    BY <1>1, <1>5, <1>10
  <2> QED BY <2>1 DEF Below
<1>11. Below(E, c) = {}
  <2> SUFFICES ASSUME NEW q \in E, Len(q) = Len(c) + 1, IsPrefix(c, q) PROVE FALSE
    BY DEF Below
  <2>1. q = c
    BY <1>6
  <2> QED BY <1>3, <2>1
<1>12. ASSUME NEW r \in E, NEW n \in Nat
       PROVE  Append(r, n) \in E <=> n \in 1..Cardinality(Below(E, r))
  <2>1. Append(r, n) = c <=> r = p /\ n = b + 1
    <3>0. r \in Seq(Nat)
      BY <1>4
    <3> DEFINE e == Append(r, n)
    <3>1. Len(e) = Len(r) + 1 /\ e[Len(r) + 1] = n /\ e \in Seq(Nat) /\ IsPrefix(r, e)
      BY <3>0, ChildOrder
    <3> HIDE DEF e
    <3>2. ASSUME e = c PROVE r = p /\ n = b + 1
      <4>1. r = p
        BY <1>5, <3>0, <3>1, <3>2
      <4> QED BY <1>3, <3>1, <3>2, <4>1
    <3>3. ASSUME r = p, n = b + 1 PROVE e = c
      BY <3>3 DEF e, b
    <3> QED BY <3>2, <3>3 DEF e
  <2>2. CASE r = p
    <3>1. Append(p, n) \in E <=> n \in 1..b \/ n = b + 1
      BY <1>1, <2>1, <2>2 DEF b
    <3> QED BY <1>2, <1>9, <2>2, <3>1
  <2>3. CASE r \in D /\ r # p
    <3>1. Append(r, n) \in E <=> n \in 1..Cardinality(Below(D, r))
      BY <1>1, <2>1, <2>3
    <3> QED BY <1>10, <2>3, <3>1
  <2>4. CASE r = c
    <3>1. Append(c, n) # c /\ IsPrefix(c, Append(c, n))
      <4>1. Len(Append(c, n)) = Len(c) + 1 /\ Len(c) \in Nat
        BY <1>3
      <4>2. IsPrefix(c, Append(c, n))
        BY ONLY ChildOrder, <1>3, n \in Nat
      <4> QED BY <4>1, <4>2
    <3>2. Append(c, n) \notin E
      BY <1>6, <3>1
    <3>3. n \notin 1..Cardinality({})
      <4>1. Cardinality({}) = 0
        BY FS_EmptySet
      <4> QED BY <4>1
    <3> QED BY <1>11, <2>4, <3>2, <3>3
  <2> QED BY <2>2, <2>3, <2>4
<1>13. \E r \in E : ToSet(r) \subseteq {1} /\ Below(E, r) = {}
  <2>1. PICK r \in D : ToSet(r) \subseteq {1} /\ Below(D, r) = {}
    BY <1>1
  <2>2. CASE r # p
    BY <1>10, <2>1, <2>2
  <2>3. CASE r = p
    <3>1. b = 0
      BY <2>1, <2>3, FS_EmptySet DEF b
    <3>2. ToSet(c) \subseteq {1}
      <4> SUFFICES ASSUME NEW i \in 1..Len(c) PROVE c[i] = 1
        <5>1. DOMAIN c = 1..Len(c)
          BY <1>3
        <5> QED BY <5>1 DEF ToSet
      <4>1. CASE i \in 1..Len(p)
        <5>1. c[i] = p[i]
          BY <1>3, <4>1, PrefixIs DEF Agree
        <5>2. p[i] \in ToSet(p)
          <6>1. DOMAIN p = 1..Len(p)
            BY <1>3
          <6> QED BY <4>1, <6>1 DEF ToSet
        <5> QED BY <2>1, <2>3, <5>1, <5>2
      <4>2. CASE i = Len(p) + 1
        BY <1>3, <3>1, <4>2
      <4> QED BY <1>3, <4>1, <4>2
    <3> QED BY <1>11, <3>2
  <2> QED BY <2>2, <2>3
<1>14. Shape(E)
  <2> HIDE DEF E
  <2>1. \A r \in E, q \in Seq(Nat) : IsPrefix(q, r) => q \in E
    BY <1>7
  <2>2. \A r \in E, n \in Nat : Append(r, n) \in E <=> n \in 1..Cardinality(Below(E, r))
    BY <1>12
  <2> QED BY <1>4, <1>13, <2>1, <2>2 DEF Shape
<1> QED BY <1>3, <1>14

-----------------------------------------------------------------------------
\* The walk over a tree with a stack.

\* The paths that are still to come: those on the stack and what is under them.
Waiting(D, stack) == {q \in D : \E i \in 1..Len(stack) : IsPrefix(stack[i], q)}
Visited(D, stack) == D \ Waiting(D, stack)

\* The stack has later branches below earlier ones, and what was visited is before it.
Walking(D, stack) ==
  /\ stack \in Seq(D)
  /\ \A i, j \in 1..Len(stack) : i < j => Diverges(stack[j], stack[i])
  /\ \A v \in Visited(D, stack), i \in 1..Len(stack) : Before(v, stack[i])

\* The paths that are told before q.
Earlier(D, q) == {v \in D : Before(v, q)}

\* The children of p, the last first.
Backward(D, p) ==
  LET b == Cardinality(Below(D, p)) IN [i \in 1..b |-> Append(p, b - i + 1)]

LEMMA WalkFromRoot ==
  ASSUME NEW D, Shape(D)
  PROVE  Walking(D, <<<<>>>>) /\ Visited(D, <<<<>>>>) = {}
<1>1. D \subseteq Seq(Nat) /\ <<>> \in D
  BY DEF Shape
<1>2. \A q \in D : IsPrefix(<<>>, q)
  <2> SUFFICES ASSUME NEW q \in D PROVE IsPrefix(<<>>, q)
    OBVIOUS
  <2>1. q \in Seq(Nat) /\ <<>> \in Seq(Nat) /\ Len(<<>>) = 0 /\ Len(q) \in Nat
    BY <1>1
  <2>2. Agree(<<>>, q, Len(<<>>)) /\ Len(<<>>) <= Len(q)
    BY <2>1 DEF Agree
  <2> QED BY ONLY PrefixIs, <2>1, <2>2
<1> DEFINE s == <<<<>>>>
<1>3. s \in Seq(D) /\ Len(s) = 1 /\ s[1] = <<>>
  BY <1>1
<1> HIDE DEF s
<1>4. Visited(D, s) = {}
  BY <1>2, <1>3 DEF Visited, Waiting
<1>5. Walking(D, s)
  BY <1>3, <1>4 DEF Walking
<1> QED BY <1>4, <1>5 DEF s

\* The stack after the path on its top is visited.
After(D, stack) == Front(stack) \o Backward(D, Last(stack))

LEMMA WalkStep ==
  ASSUME NEW D, Shape(D), NEW stack, Walking(D, stack), stack # <<>>
  PROVE  /\ Last(stack) \in D /\ Last(stack) \notin Visited(D, stack)
         /\ Earlier(D, Last(stack)) = Visited(D, stack)
         /\ Walking(D, After(D, stack))
         /\ Visited(D, After(D, stack)) = Visited(D, stack) \cup {Last(stack)}
<1>p. PICK p, next : p = Last(stack) /\ next = Front(stack) \o Backward(D, p)
  OBVIOUS
<1> DEFINE b == Cardinality(Below(D, p))
           m == Len(stack) - 1
           kids == Backward(D, p)
<1>1. /\ IsFiniteSet(D) /\ D \subseteq Seq(Nat)
      /\ \A r \in D, q \in Seq(Nat) : IsPrefix(q, r) => q \in D
      /\ \A r \in D, n \in Nat : Append(r, n) \in D <=> n \in 1..Cardinality(Below(D, r))
  BY DEF Shape
<1>2. /\ stack \in Seq(D) /\ m \in Nat /\ Len(stack) = m + 1
      /\ p = stack[m + 1] /\ p \in D /\ p \in Seq(Nat)
  <2>1. stack \in Seq(D)
    BY DEF Walking
  <2>2. m \in Nat /\ Len(stack) = m + 1 /\ Len(stack) \in 1..Len(stack)
    BY <2>1
  <2>3. p = stack[m + 1] /\ p \in D
    BY <1>p, <2>1, <2>2 DEF Last
  <2> QED BY <1>1, <2>1, <2>2, <2>3
<1>3. b \in Nat
  BY <1>1, BelowFinite
<1>4. /\ kids \in Seq(D) /\ Len(kids) = b
      /\ \A i \in 1..b : kids[i] = Append(p, b - i + 1) /\ b - i + 1 \in 1..b /\ b - i + 1 \in Nat
  <2>1. kids = [i \in 1..b |-> Append(p, b - i + 1)]
    BY DEF Backward
  <2> HIDE DEF kids
  <2>2. \A i \in 1..b : b - i + 1 \in 1..b /\ b - i + 1 \in Nat
    BY <1>3
  <2>3. \A i \in 1..b : Append(p, b - i + 1) \in D
    BY <1>1, <1>2, <2>2
  <2> HIDE DEF b
  <2> QED BY <1>3, <2>1, <2>2, <2>3
<1> HIDE DEF b, kids
<1>5. /\ next \in Seq(D) /\ Len(next) = m + b
      /\ \A i \in 1..m : next[i] = stack[i]
      /\ \A i \in 1..b : next[m + i] = kids[i]
  <2> DEFINE f == Front(stack)
  <2>1. f \in Seq(D) /\ Len(f) = m /\ \A i \in 1..m : f[i] = stack[i]
    <3>1. f = SubSeq(stack, 1, m)
      BY <1>2 DEF Front
    <3> QED BY <1>2, <3>1
  <2>2. next = f \o kids
    BY <1>p DEF kids
  <2> HIDE DEF f, m
  <2>3. f \in Seq(D) /\ kids \in Seq(D)
    BY <1>4, <2>1
  <2>4. /\ f \o kids \in Seq(D) /\ Len(f \o kids) = Len(f) + Len(kids)
        /\ \A i \in 1..Len(f) : (f \o kids)[i] = f[i]
        /\ \A i \in 1..Len(kids) : (f \o kids)[Len(f) + i] = kids[i]
    BY ONLY <2>3, Concat
  <2>5. /\ next \in Seq(D) /\ Len(next) = m + Len(kids)
        /\ \A i \in 1..m : next[i] = f[i]
        /\ \A i \in 1..Len(kids) : next[m + i] = kids[i]
    BY <2>1, <2>2, <2>4
  <2> QED BY <1>4, <2>1, <2>5
<1>a. \A i \in 1..(m + 1) : stack[i] \in D /\ stack[i] \in Seq(Nat)
  BY <1>1, <1>2
<1> HIDE DEF m
<1>6. \A i \in 1..m : Diverges(p, stack[i])
  <2>1. \A i \in 1..m : i \in 1..Len(stack) /\ m + 1 \in 1..Len(stack) /\ i < m + 1
    BY <1>2
  <2> QED BY <1>2, <2>1 DEF Walking
<1>7. \A i \in 1..b : IsPrefix(p, kids[i]) /\ Before(p, kids[i]) /\ kids[i] \in Seq(Nat)
  BY <1>2, <1>4, ChildOrder
<1>8. p \in Waiting(D, stack)
  <2>1. IsPrefix(p, p)
    BY <1>2, PrefixIs DEF Agree
  <2>2. m + 1 \in 1..Len(stack)
    BY <1>2
  <2> QED BY <1>2, <2>1, <2>2 DEF Waiting
\* What is before p has been visited.
<1>9. Earlier(D, p) = Visited(D, stack)
  <2>1. ASSUME NEW v \in Visited(D, stack) PROVE v \in D /\ Before(v, p)
    <3>1. m + 1 \in 1..Len(stack)
      BY <1>2
    <3> QED BY <1>2, <3>1 DEF Walking, Visited
  <2>2. ASSUME NEW q \in Waiting(D, stack) PROVE ~Before(q, p)
    <3>1. PICK i \in 1..Len(stack) : IsPrefix(stack[i], q)
      BY DEF Waiting
    <3>2. q \in Seq(Nat) /\ stack[i] \in Seq(Nat)
      BY <1>1, <1>2, <1>a, <3>1 DEF Waiting
    <3>3. CASE i = m + 1
      <4>1. IsPrefix(p, q)
        BY <1>2, <3>1, <3>3
      <4>2. q # p => Before(p, q)
        <5> SUFFICES ASSUME q # p PROVE Before(p, q)
          OBVIOUS
        <5>1. Len(p) + 1 \in 1..Len(q) /\ Agree(p, q, Len(p)) /\ Len(p) \in Nat
          BY <1>2, <3>2, <4>1, ThroughChild, PrefixIs
        <5> QED BY <1>2, <3>2, <5>1, BeforeIs
      <4> QED BY <1>2, <3>2, <4>2, BeforeOneWay
    <3>4. CASE i \in 1..m
      <4>1. IsPrefix(p, p)
        BY <1>2, PrefixIs DEF Agree
      <4>2. Diverges(p, q)
        BY <1>2, <1>6, <3>1, <3>2, <3>4, <4>1, LongerDiverge
      <4> QED BY <1>2, <3>2, <4>2, BeforeIs, BeforeOneWay
    <3> QED BY <1>2, <3>1, <3>3, <3>4
  <2> QED BY <2>1, <2>2 DEF Earlier, Visited
\* Nothing but p leaves the paths that are waiting.
<1>10. ASSUME NEW q \in D
       PROVE  q \in Waiting(D, next) <=> q \in Waiting(D, stack) /\ q # p
  <2>0. q \in Seq(Nat)
    BY <1>1
  <2>1. ASSUME q \in Waiting(D, next) PROVE q \in Waiting(D, stack) /\ q # p
    <3>1. PICK i \in 1..(m + b) : IsPrefix(next[i], q)
      BY <1>5, <2>1 DEF Waiting
    <3>2. CASE i \in 1..m
      <4>1. IsPrefix(stack[i], q) /\ i \in 1..Len(stack)
        BY <1>2, <1>5, <3>1, <3>2
      <4>2. q # p
        <5>1. IsPrefix(p, p)
          BY <1>2, PrefixIs DEF Agree
        <5>2. ~IsPrefix(stack[i], p)
          BY <1>2, <1>6, <1>a, <3>2, <5>1, OneWayOnly
        <5> QED BY <4>1, <5>2
      <4> QED BY <4>1, <4>2 DEF Waiting
    <3>3. CASE i \notin 1..m
      <4>1. i - m \in 1..b /\ m + (i - m) = i
        BY <1>2, <1>3, <3>1, <3>3
      <4>2. IsPrefix(kids[i - m], q)
        BY <1>5, <3>1, <4>1
      <4>3. kids[i - m] \in Seq(Nat) /\ Before(p, kids[i - m]) /\ IsPrefix(p, kids[i - m])
        BY <1>7, <4>1
      <4>4. Before(p, q)
        BY <1>2, <2>0, <4>2, <4>3, BeforeLonger
      <4>5. q # p
        BY <1>2, <2>0, <4>4, BeforeOneWay
      <4>6. IsPrefix(p, q)
        <5>1. /\ Len(p) <= Len(kids[i - m]) /\ Agree(p, kids[i - m], Len(p))
              /\ Len(kids[i - m]) <= Len(q) /\ Agree(kids[i - m], q, Len(kids[i - m]))
          BY <1>2, <2>0, <4>2, <4>3, PrefixIs
        <5>2. Len(p) \in Nat /\ Len(kids[i - m]) \in Nat /\ Len(q) \in Nat
          BY <1>2, <2>0, <4>3
        <5>3. Len(p) <= Len(q)
          BY <5>1, <5>2
        <5>4. Agree(p, q, Len(p))
          BY <5>1, <5>2 DEF Agree
        <5> QED BY <1>2, <2>0, <5>3, <5>4, PrefixIs
      <4>7. m + 1 \in 1..Len(stack)
        BY <1>2
      <4> QED BY <1>2, <4>5, <4>6, <4>7 DEF Waiting
    <3> QED BY <3>2, <3>3
  <2>2. ASSUME q \in Waiting(D, stack), q # p PROVE q \in Waiting(D, next)
    <3>1. PICK i \in 1..(m + 1) : IsPrefix(stack[i], q)
      BY <1>2, <2>2 DEF Waiting
    <3>2. CASE i \in 1..m
      <4>1. i \in 1..Len(next) /\ next[i] = stack[i]
        BY <1>2, <1>3, <1>5, <3>2
      <4> QED BY <3>1, <4>1 DEF Waiting
    <3>3. CASE i = m + 1
      <4> DEFINE n == q[Len(p) + 1]
      <4>1. IsPrefix(p, q)
        BY <1>2, <3>1, <3>3
      <4>2. n \in Nat /\ IsPrefix(Append(p, n), q)
        BY <1>2, <2>0, <2>2, <4>1, ThroughChild
      <4> HIDE DEF n
      <4>3. Append(p, n) \in Seq(Nat)
        BY <1>2, <4>2, ChildOrder
      <4>4. Append(p, n) \in D
        BY <1>1, <4>2, <4>3
      <4>5. n \in 1..b
        BY <1>1, <1>2, <4>2, <4>4 DEF b
      <4>6. b - n + 1 \in 1..b /\ b - (b - n + 1) + 1 = n /\ m + (b - n + 1) \in 1..(m + b)
        BY <1>2, <1>3, <4>5
      <4>7. next[m + (b - n + 1)] = Append(p, n)
        <5>1. next[m + (b - n + 1)] = kids[b - n + 1]
          BY <1>5, <4>6
        <5>2. kids[b - n + 1] = Append(p, b - (b - n + 1) + 1)
          BY <1>4, <4>6
        <5> QED BY <4>6, <5>1, <5>2
      <4> QED BY <1>5, <4>2, <4>6, <4>7 DEF Waiting
    <3> QED BY <1>2, <3>1, <3>2, <3>3
  <2> QED BY <2>1, <2>2
<1>11. Visited(D, next) = Visited(D, stack) \cup {p}
  BY <1>2, <1>8, <1>10 DEF Visited
<1>12. ASSUME NEW i \in 1..Len(next), NEW j \in 1..Len(next), i < j
       PROVE  Diverges(next[j], next[i])
  <2>1. CASE j \in 1..m
    <3>1. i \in 1..m /\ i \in 1..Len(stack) /\ j \in 1..Len(stack)
      BY <1>2, <1>12, <2>1
    <3>2. Diverges(stack[j], stack[i])
      BY <1>12, <3>1 DEF Walking
    <3> QED BY <1>5, <2>1, <3>1, <3>2
  <2>2. CASE j \notin 1..m /\ i \in 1..m
    <3>1. j - m \in 1..b /\ m + (j - m) = j
      BY <1>2, <1>3, <1>5, <2>2
    <3>2. next[j] = kids[j - m] /\ next[i] = stack[i]
      BY <1>5, <2>2, <3>1
    <3>3. IsPrefix(stack[i], stack[i]) /\ stack[i] \in Seq(Nat)
      <4>1. stack[i] \in Seq(Nat)
        BY <1>2, <1>a, <2>2
      <4> QED BY <4>1, PrefixIs DEF Agree
    <3>4. kids[j - m] \in Seq(Nat) /\ IsPrefix(p, kids[j - m]) /\ Diverges(p, stack[i])
      BY <1>6, <1>7, <2>2, <3>1
    <3>5. Diverges(kids[j - m], stack[i])
      BY ONLY LongerDiverge, <1>2, <3>3, <3>4
    <3> QED BY <3>2, <3>5
  <2>3. CASE j \notin 1..m /\ i \notin 1..m
    <3>1. /\ j - m \in 1..b /\ m + (j - m) = j /\ i - m \in 1..b /\ m + (i - m) = i
          /\ b - (j - m) + 1 < b - (i - m) + 1
      BY <1>2, <1>3, <1>5, <1>12, <2>3
    <3>2. /\ next[j] = Append(p, b - (j - m) + 1) /\ b - (j - m) + 1 \in Nat
          /\ next[i] = Append(p, b - (i - m) + 1) /\ b - (i - m) + 1 \in Nat
      BY <1>4, <1>5, <3>1
    <3> QED BY <1>2, <3>1, <3>2, ChildOrder
  <2> QED BY <1>12, <2>1, <2>2, <2>3
<1>13. ASSUME NEW v \in Visited(D, next), NEW i \in 1..Len(next)
       PROVE  Before(v, next[i])
  <2>0. v \in Seq(Nat) /\ v \in D
    BY <1>1 DEF Visited
  <2>1. CASE v # p
    <3>1. v \in Visited(D, stack)
      BY <1>11, <2>1
    <3>2. \A k \in 1..(m + 1) : Before(v, stack[k])
      BY <1>2, <3>1 DEF Walking
    <3>3. CASE i \in 1..m
      BY <1>2, <1>5, <3>2, <3>3
    <3>4. CASE i \notin 1..m
      <4>1. i - m \in 1..b /\ m + (i - m) = i
        BY <1>2, <1>3, <1>5, <3>4
      <4>2. Before(v, p)
        BY <1>2, <3>2
      <4>3. next[i] = kids[i - m]
        BY <1>5, <4>1
      <4> QED BY <1>2, <1>7, <2>0, <4>1, <4>2, <4>3, BeforeLonger
    <3> QED BY <3>3, <3>4
  <2>2. CASE v = p
    <3>1. CASE i \in 1..m
      <4>1. stack[i] \in Seq(Nat) /\ next[i] = stack[i] /\ Diverges(p, stack[i])
        <5>1. i \in 1..(m + 1)
          BY <1>2, <3>1
        <5> QED BY <1>5, <1>6, <1>a, <3>1, <5>1
      <4> QED BY <1>2, <2>2, <4>1, BeforeIs
    <3>2. CASE i \notin 1..m
      <4>1. i - m \in 1..b /\ m + (i - m) = i
        BY <1>2, <1>3, <1>5, <3>2
      <4> QED BY <1>5, <1>7, <2>2, <4>1
    <3> QED BY <3>1, <3>2
  <2> QED BY <2>1, <2>2
<1>14. Walking(D, next)
  BY <1>5, <1>12, <1>13 DEF Walking
<1> QED BY <1>p, <1>2, <1>8, <1>9, <1>11, <1>14 DEF Visited, After

-----------------------------------------------------------------------------
\* The invariant of a report while it is made.

Nodes == [kind : EdgeKinds \cup {Blank}, error : RootErrors \cup ChildErrors]

FaultInv ==
  /\ Shape(DOMAIN tree)
  /\ tree \in [DOMAIN tree -> Nodes]
  /\ attachments \in Seq(AttachmentMenu)
  /\ slices \in Seq(Slices)
  /\ rendering \in {"building", "collecting", "done"}
  /\ rendering = "building" => causes = <<>>

\* The causes collected so far are the frames visited so far, each where the paths
\* before it put it.
Place(D, p) == 1 + Cardinality(Earlier(D, p))

CollectInv ==
  rendering # "building" =>
    /\ Walking(DOMAIN tree, toCollect)
    /\ causes \in Seq(Nodes)
    /\ Len(causes) = Cardinality(Visited(DOMAIN tree, toCollect))
    /\ \A v \in Visited(DOMAIN tree, toCollect) :
         Place(DOMAIN tree, v) \in 1..Len(causes) /\ causes[Place(DOMAIN tree, v)] = tree[v]

WrittenInv ==
  rendering = "done" =>
    /\ toCollect = <<>>
    /\ text = FlattenSeq(TextSections) /\ json = FlattenSeq(JsonMembers)

ReportIInv == FaultInv /\ CollectInv /\ WrittenInv

LEMMA InitReport == ReportInit => ReportIInv
<1> SUFFICES ASSUME ReportInit PROVE ReportIInv
  OBVIOUS
<1>1. PICK e \in RootErrors : tree = [p \in {<<>>} |-> [kind |-> Blank, error |-> e]]
  BY DEF ReportInit
<1>2. DOMAIN tree = {<<>>} /\ tree \in [{<<>>} -> Nodes]
  BY <1>1 DEF Nodes
<1>3. Shape(DOMAIN tree)
  BY <1>2, RootShape
<1>4. /\ attachments = <<>> /\ slices = <<>> /\ rendering = "building" /\ causes = <<>>
  BY DEF ReportInit
<1>5. attachments \in Seq(AttachmentMenu) /\ slices \in Seq(Slices)
  BY <1>4
<1>6. FaultInv
  BY <1>2, <1>3, <1>4, <1>5 DEF FaultInv
<1> QED BY <1>4, <1>6 DEF ReportIInv, CollectInv, WrittenInv

\* The branches of the model are the paths below.
LEMMA BranchesAre == ASSUME NEW p PROVE Branches(p) = Cardinality(Below(DOMAIN tree, p))
BY DEF Branches, Below

LEMMA AddFrameKeeps ==
  ASSUME ReportIInv, NEW p \in DOMAIN tree, NEW kind \in EdgeKinds, NEW e \in ChildErrors,
         AddFrame(p, kind, e)
  PROVE  ReportIInv'
<1> DEFINE c == Append(p, Branches(p) + 1)
<1>1. tree' = [q \in DOMAIN tree \cup {c} |->
                 IF q = c THEN [kind |-> kind, error |-> e] ELSE tree[q]]
  BY DEF AddFrame
<1>2. c \notin DOMAIN tree /\ Shape(DOMAIN tree \cup {c})
  BY BranchesAre, GrownShape DEF ReportIInv, FaultInv
<1> HIDE DEF c
<1>3. DOMAIN tree' = DOMAIN tree \cup {c}
  BY <1>1
<1>4. [kind |-> kind, error |-> e] \in Nodes
  BY DEF Nodes
<1>5. \A q \in DOMAIN tree : tree[q] \in Nodes
  BY DEF ReportIInv, FaultInv
<1>6. tree' \in [DOMAIN tree' -> Nodes]
  BY <1>1, <1>3, <1>4, <1>5
<1>7. /\ rendering = "building" /\ rendering' = "building"
      /\ UNCHANGED <<attachments, slices, causes>>
  BY DEF AddFrame
<1>8. FaultInv'
  BY <1>2, <1>3, <1>6, <1>7 DEF ReportIInv, FaultInv
<1> QED BY <1>7, <1>8 DEF ReportIInv, CollectInv, WrittenInv

LEMMA AddAttachmentKeeps ==
  ASSUME ReportIInv, NEW a \in AttachmentMenu, AddAttachment(a)
  PROVE  ReportIInv'
<1>1. /\ rendering = "building" /\ rendering' = "building"
      /\ UNCHANGED <<tree, slices, causes>> /\ attachments' = Append(attachments, a)
  BY DEF AddAttachment
<1>2. attachments' \in Seq(AttachmentMenu)
  BY <1>1 DEF ReportIInv, FaultInv
<1>3. FaultInv'
  BY <1>1, <1>2 DEF ReportIInv, FaultInv
<1> QED BY <1>1, <1>3 DEF ReportIInv, CollectInv, WrittenInv

LEMMA RegisterStaticsKeeps ==
  ASSUME ReportIInv, NEW s \in Slices, RegisterStatics(s)
  PROVE  ReportIInv'
<1>1. /\ rendering = "building" /\ rendering' = "building"
      /\ UNCHANGED <<tree, attachments, causes>> /\ slices' = Append(slices, s)
  BY DEF RegisterStatics
<1>2. slices' \in Seq(Slices)
  BY <1>1 DEF ReportIInv, FaultInv
<1>3. FaultInv'
  BY <1>1, <1>2 DEF ReportIInv, FaultInv
<1> QED BY <1>1, <1>3 DEF ReportIInv, CollectInv, WrittenInv

LEMMA StartCollectingKeeps ==
  ASSUME ReportIInv, StartCollecting
  PROVE  ReportIInv'
<1>1. /\ rendering' = "collecting" /\ toCollect' = <<<<>>>> /\ causes = <<>>
      /\ UNCHANGED <<tree, attachments, slices, causes>>
  BY DEF StartCollecting, ReportIInv, FaultInv
<1>2. FaultInv'
  BY <1>1 DEF ReportIInv, FaultInv
<1>3. Walking(DOMAIN tree, <<<<>>>>) /\ Visited(DOMAIN tree, <<<<>>>>) = {}
  BY WalkFromRoot DEF ReportIInv, FaultInv
<1>4. Len(<<>>) = 0 /\ Cardinality({}) = 0 /\ <<>> \in Seq(Nodes)
  BY FS_EmptySet
<1>5. CollectInv'
  BY <1>1, <1>3, <1>4 DEF CollectInv
<1> QED BY <1>1, <1>2, <1>5 DEF ReportIInv, WrittenInv

LEMMA CollectKeeps ==
  ASSUME ReportIInv, Collect
  PROVE  ReportIInv'
<1> DEFINE D == DOMAIN tree
           p == Last(toCollect)
           V == Visited(D, toCollect)
           next == Front(toCollect) \o Backward(D, p)
<1>1. /\ rendering = "collecting" /\ rendering' = "collecting" /\ toCollect # <<>>
      /\ causes' = Append(causes, tree[p])
      /\ UNCHANGED <<tree, attachments, slices>>
  BY DEF Collect
<1>2. toCollect' = next
  <2>1. Pushed(p) = Backward(D, p)
    BY BranchesAre DEF Pushed, Backward
  <2> QED BY <2>1 DEF Collect
<1>3. /\ Shape(D) /\ Walking(D, toCollect) /\ causes \in Seq(Nodes) /\ tree \in [D -> Nodes]
      /\ Len(causes) = Cardinality(V)
      /\ \A v \in V : Place(D, v) \in 1..Len(causes) /\ causes[Place(D, v)] = tree[v]
  BY <1>1 DEF ReportIInv, FaultInv, CollectInv
<1> HIDE DEF p
<1>4. /\ p \in D /\ p \notin V /\ Earlier(D, p) = V
      /\ Walking(D, next) /\ Visited(D, next) = V \cup {p}
  <2>1. Shape(D) /\ Walking(D, toCollect) /\ toCollect # <<>>
    BY <1>1, <1>3
  <2>2. /\ Last(toCollect) \in D /\ Last(toCollect) \notin Visited(D, toCollect)
        /\ Earlier(D, Last(toCollect)) = Visited(D, toCollect)
        /\ Walking(D, After(D, toCollect))
        /\ Visited(D, After(D, toCollect)) = Visited(D, toCollect) \cup {Last(toCollect)}
    BY ONLY <2>1, WalkStep
  <2> QED BY <2>2 DEF p, After
<1> HIDE DEF next, D
<1>5. IsFiniteSet(V) /\ Cardinality(V) \in Nat
  <2>1. IsFiniteSet(D) /\ V \in SUBSET D
    BY <1>3 DEF Shape, Visited
  <2> QED BY <2>1, FS_Subset, FS_CardinalityType
<1> HIDE DEF V
<1>6. Cardinality(V \cup {p}) = Cardinality(V) + 1
  BY <1>4, <1>5, FS_AddElement
<1>7. tree[p] \in Nodes
  BY <1>3, <1>4
<1>8. /\ causes' \in Seq(Nodes) /\ Len(causes') = Len(causes) + 1
      /\ causes'[Len(causes) + 1] = tree[p]
      /\ \A i \in 1..Len(causes) : causes'[i] = causes[i]
  BY <1>1, <1>3, <1>7, AppendProperties
<1>9. Place(D, p) = Len(causes) + 1
  BY <1>3, <1>4, <1>5 DEF Place
<1>10. ASSUME NEW v \in V \cup {p}
       PROVE  Place(D, v) \in 1..Len(causes') /\ causes'[Place(D, v)] = tree[v]
  <2>1. CASE v = p
    BY <1>3, <1>5, <1>8, <1>9, <2>1
  <2>2. CASE v \in V
    <3>1. Place(D, v) \in 1..Len(causes) /\ causes[Place(D, v)] = tree[v]
      BY <1>3, <2>2
    <3> QED BY <1>3, <1>5, <1>8, <3>1
  <2> QED BY <2>1, <2>2
<1>11. FaultInv'
  BY <1>1 DEF ReportIInv, FaultInv
<1>12. CollectInv'
  <2>1. /\ (DOMAIN tree)' = D /\ tree' = tree /\ toCollect' = next
        /\ Visited(D, next) = V \cup {p} /\ Walking(D, next)
        /\ Len(causes') = Cardinality(V \cup {p}) /\ causes' \in Seq(Nodes)
    BY <1>1, <1>2, <1>3, <1>4, <1>6, <1>8 DEF D
  <2> QED BY <1>10, <2>1 DEF CollectInv
<1> QED BY <1>1, <1>11, <1>12 DEF ReportIInv, WrittenInv

\* The forms depend on the fault and the causes.
LEMMA SameForms ==
  ASSUME UNCHANGED <<tree, attachments, slices, causes>>
  PROVE  TextSections' = TextSections /\ JsonMembers' = JsonMembers
<1>1. Root' = Root
  BY DEF Root
<1>2. RootEntry' = RootEntry
  BY <1>1 DEF RootEntry
<1>3. FrameCategory' = FrameCategory
  BY <1>1, <1>2 DEF FrameCategory
<1>4. BaseAction' = BaseAction
  BY <1>2, <1>3 DEF BaseAction
<1>5. \A key : FindKeyed(key)' = FindKeyed(key)
  BY DEF FindKeyed, Select
<1>6. Inline' = Inline /\ Appendix' = Appendix
  BY DEF Inline, Appendix, Select
<1>7. Fingerprint' = Fingerprint
  <2>1. FirstLeaf' = FirstLeaf
    BY DEF FirstLeaf, Branches
  <2> QED BY <1>1, <2>1 DEF Fingerprint
<1>8. \A n : CauseLine(n)' = CauseLine(n)
  BY DEF CauseLine
<1>9. \A a : ScopeLine(a)' = ScopeLine(a) /\ ScopeMember(a)' = ScopeMember(a)
  BY <1>5 DEF ScopeLine, ScopeMember
<1>10. TextSections' = TextSections
  BY <1>1, <1>2, <1>3, <1>4, <1>5, <1>6, <1>7, <1>8, <1>9 DEF TextSections, Each
<1>11. JsonMembers' = JsonMembers
  BY <1>1, <1>2, <1>3, <1>4, <1>5, <1>6, <1>7, <1>9, ZenonT(40) DEF JsonMembers, Each
<1> QED BY <1>10, <1>11

LEMMA RenderKeeps ==
  ASSUME ReportIInv, Render
  PROVE  ReportIInv'
<1>1. /\ rendering = "collecting" /\ rendering' = "done" /\ toCollect = <<>>
      /\ UNCHANGED <<tree, attachments, slices, toCollect, causes>>
      /\ text' = FlattenSeq(TextSections) /\ json' = FlattenSeq(JsonMembers)
  BY DEF Render, WriteReport, RenderFrameReportJson
<1>2. TextSections' = TextSections /\ JsonMembers' = JsonMembers
  BY <1>1, SameForms
<1>3. FaultInv'
  BY <1>1 DEF ReportIInv, FaultInv
<1>4. CollectInv'
  BY <1>1 DEF ReportIInv, CollectInv
<1>5. WrittenInv'
  BY <1>1, <1>2 DEF WrittenInv
<1> QED BY <1>3, <1>4, <1>5 DEF ReportIInv

LEMMA NextReport == ReportIInv /\ [ReportNext]_reportVars => ReportIInv'
<1> SUFFICES ASSUME ReportIInv, [ReportNext]_reportVars PROVE ReportIInv'
  OBVIOUS
<1>1. CASE UNCHANGED reportVars
  <2>1. UNCHANGED <<tree, attachments, slices, causes, rendering, toCollect, text, json>>
    BY <1>1 DEF reportVars
  <2>2. TextSections' = TextSections /\ JsonMembers' = JsonMembers
    BY <2>1, SameForms
  <2>3. FaultInv' /\ CollectInv'
    BY <2>1 DEF ReportIInv, FaultInv, CollectInv
  <2>4. WrittenInv'
    BY <2>1, <2>2 DEF ReportIInv, WrittenInv
  <2> QED BY <2>3, <2>4 DEF ReportIInv
<1>2. CASE ReportNext
  <2>1. CASE \E p \in DOMAIN tree, kind \in EdgeKinds, e \in ChildErrors : AddFrame(p, kind, e)
    BY <2>1, AddFrameKeeps
  <2>2. CASE \E a \in AttachmentMenu : AddAttachment(a)
    BY <2>2, AddAttachmentKeeps
  <2>3. CASE \E s \in Slices : RegisterStatics(s)
    BY <2>3, RegisterStaticsKeeps
  <2>4. CASE StartCollecting
    BY <2>4, StartCollectingKeeps
  <2>5. CASE Collect
    BY <2>5, CollectKeeps
  <2>6. CASE Render
    BY <2>6, RenderKeeps
  <2> QED BY <1>2, <2>1, <2>2, <2>3, <2>4, <2>5, <2>6 DEF ReportNext
<1> QED BY <1>1, <1>2

\* The causes are collected in the order of the paths, and the forms are made of them.
LEMMA ReportInvariant == ReportSpec => []ReportIInv
BY InitReport, NextReport, PTL DEF ReportSpec

-----------------------------------------------------------------------------
\* What is selected of lines, attachments and entries.

LEMMA RowsIs ==
  ASSUME NEW X, NEW form \in Seq(X), NEW keys
  PROVE  Rows(form, keys) = Among(form, {l \in X : l[1] \in keys})
<1> DEFINE s == form
           S == {l \in X : l[1] \in keys}
<1>0. s \in Seq(X)
  OBVIOUS
<1>1. PICK g : Selects(s, S, g)
  BY <1>0, SelectionExists
<1>2. \A i \in 1..Len(s) : s[i] \in S <=> s[i][1] \in keys
  BY <1>0
<1> DEFINE f(h) == [i \in 0..Len(s) |->
                      IF i = 0 THEN <<>>
                      ELSE IF s[i][1] \in keys THEN Append(h[i - 1], s[i]) ELSE h[i - 1]]
           c == CHOOSE h : h = f(h)
<1>3. \A h : Selects(s, S, h) <=> h = f(h)
  <2> TAKE h
  <2> HIDE DEF S
  <2>1. \A i \in 0..Len(s) : f(h)[i] = IF i = 0 THEN <<>>
                                 ELSE IF s[i] \in S THEN Append(h[i - 1], s[i]) ELSE h[i - 1]
    BY <1>2
  <2>2. f(h) = [i \in 0..Len(s) |-> IF i = 0 THEN <<>>
                                 ELSE IF s[i] \in S THEN Append(h[i - 1], s[i]) ELSE h[i - 1]]
    BY <2>1
  <2> QED BY <2>2 DEF Selects
<1>4. c = f(c)
  BY <1>1, <1>3
<1> DEFINE found == c[Len(s)]
<1>5. Rows(form, keys) = found
  BY DEF Rows, Select
<1> HIDE DEF S, s, c, f
<1>6. Selects(s, S, c)
  BY <1>3, <1>4
<1>7. PICK k : Selects(s, S, k) /\ Among(s, S) = k[Len(s)]
  BY <1>0, AmongIs
<1>8. found = Among(s, S)
  BY ONLY <1>0, <1>6, <1>7, SelectionUnique
<1> QED BY <1>5, <1>8 DEF S, s

LEMMA FindKeyedIs ==
  ASSUME attachments \in Seq(AttachmentMenu), NEW key
  PROVE  LET found == Among(attachments, {a \in AttachmentMenu : a.key = key})
         IN  FindKeyed(key) = IF found = <<>> THEN <<>> ELSE <<Head(found)>>
<1> DEFINE s == attachments
           S == {a \in AttachmentMenu : a.key = key}
<1>0. s \in Seq(AttachmentMenu)
  OBVIOUS
<1>1. PICK g : Selects(s, S, g)
  BY <1>0, SelectionExists
<1>2. \A i \in 1..Len(s) : s[i] \in S <=> s[i].key = key
  BY <1>0
<1> DEFINE f(h) == [i \in 0..Len(s) |->
                      IF i = 0 THEN <<>>
                      ELSE IF s[i].key = key THEN Append(h[i - 1], s[i]) ELSE h[i - 1]]
           c == CHOOSE h : h = f(h)
<1>3. \A h : Selects(s, S, h) <=> h = f(h)
  <2> TAKE h
  <2> HIDE DEF S
  <2>1. \A i \in 0..Len(s) : f(h)[i] = IF i = 0 THEN <<>>
                                 ELSE IF s[i] \in S THEN Append(h[i - 1], s[i]) ELSE h[i - 1]
    BY <1>2
  <2>2. f(h) = [i \in 0..Len(s) |-> IF i = 0 THEN <<>>
                                 ELSE IF s[i] \in S THEN Append(h[i - 1], s[i]) ELSE h[i - 1]]
    BY <2>1
  <2> QED BY <2>2 DEF Selects
<1>4. c = f(c)
  BY <1>1, <1>3
<1> DEFINE found == c[Len(s)]
<1>5. FindKeyed(key) = IF found = <<>> THEN <<>> ELSE <<Head(found)>>
  BY DEF FindKeyed, Select
<1> HIDE DEF S, s, c, f
<1>6. Selects(s, S, c)
  BY <1>3, <1>4
<1>7. PICK k : Selects(s, S, k) /\ Among(s, S) = k[Len(s)]
  BY <1>0, AmongIs
<1>8. found = Among(s, S)
  BY ONLY <1>0, <1>6, <1>7, SelectionUnique
<1> QED BY <1>5, <1>8 DEF S, s

LEMMA InlineIs ==
  ASSUME attachments \in Seq(AttachmentMenu)
  PROVE  Inline = Among(attachments,
                        {a \in AttachmentMenu : a.placement = "inline" /\ a.key \notin Reserved})
<1> DEFINE s == attachments
           S == {a \in AttachmentMenu : a.placement = "inline" /\ a.key \notin Reserved}
<1>0. s \in Seq(AttachmentMenu)
  OBVIOUS
<1>1. PICK g : Selects(s, S, g)
  BY <1>0, SelectionExists
<1>2. \A i \in 1..Len(s) : s[i] \in S <=> (s[i].placement = "inline" /\ s[i].key \notin Reserved)
  BY <1>0
<1> DEFINE f(h) == [i \in 0..Len(s) |->
                      IF i = 0 THEN <<>>
                      ELSE IF (s[i].placement = "inline" /\ s[i].key \notin Reserved) THEN Append(h[i - 1], s[i]) ELSE h[i - 1]]
           c == CHOOSE h : h = f(h)
<1>3. \A h : Selects(s, S, h) <=> h = f(h)
  <2> TAKE h
  <2> HIDE DEF S
  <2>1. \A i \in 0..Len(s) : f(h)[i] = IF i = 0 THEN <<>>
                                 ELSE IF s[i] \in S THEN Append(h[i - 1], s[i]) ELSE h[i - 1]
    BY <1>2
  <2>2. f(h) = [i \in 0..Len(s) |-> IF i = 0 THEN <<>>
                                 ELSE IF s[i] \in S THEN Append(h[i - 1], s[i]) ELSE h[i - 1]]
    BY <2>1
  <2> QED BY <2>2 DEF Selects
<1>4. c = f(c)
  BY <1>1, <1>3
<1> DEFINE found == c[Len(s)]
<1>5. Inline = found
  BY DEF Inline, Select
<1> HIDE DEF S, s, c, f
<1>6. Selects(s, S, c)
  BY <1>3, <1>4
<1>7. PICK k : Selects(s, S, k) /\ Among(s, S) = k[Len(s)]
  BY <1>0, AmongIs
<1>8. found = Among(s, S)
  BY ONLY <1>0, <1>6, <1>7, SelectionUnique
<1> QED BY <1>5, <1>8 DEF S, s

LEMMA AppendixIs ==
  ASSUME attachments \in Seq(AttachmentMenu)
  PROVE  Appendix = Among(attachments,
                          {a \in AttachmentMenu : a.placement = "appendix" /\ a.key # Blank})
<1> DEFINE s == attachments
           S == {a \in AttachmentMenu : a.placement = "appendix" /\ a.key # Blank}
<1>0. s \in Seq(AttachmentMenu)
  OBVIOUS
<1>1. PICK g : Selects(s, S, g)
  BY <1>0, SelectionExists
<1>2. \A i \in 1..Len(s) : s[i] \in S <=> (s[i].placement = "appendix" /\ s[i].key # Blank)
  BY <1>0
<1> DEFINE f(h) == [i \in 0..Len(s) |->
                      IF i = 0 THEN <<>>
                      ELSE IF (s[i].placement = "appendix" /\ s[i].key # Blank) THEN Append(h[i - 1], s[i]) ELSE h[i - 1]]
           c == CHOOSE h : h = f(h)
<1>3. \A h : Selects(s, S, h) <=> h = f(h)
  <2> TAKE h
  <2> HIDE DEF S
  <2>1. \A i \in 0..Len(s) : f(h)[i] = IF i = 0 THEN <<>>
                                 ELSE IF s[i] \in S THEN Append(h[i - 1], s[i]) ELSE h[i - 1]
    BY <1>2
  <2>2. f(h) = [i \in 0..Len(s) |-> IF i = 0 THEN <<>>
                                 ELSE IF s[i] \in S THEN Append(h[i - 1], s[i]) ELSE h[i - 1]]
    BY <2>1
  <2> QED BY <2>2 DEF Selects
<1>4. c = f(c)
  BY <1>1, <1>3
<1> DEFINE found == c[Len(s)]
<1>5. Appendix = found
  BY DEF Appendix, Select
<1> HIDE DEF S, s, c, f
<1>6. Selects(s, S, c)
  BY <1>3, <1>4
<1>7. PICK k : Selects(s, S, k) /\ Among(s, S) = k[Len(s)]
  BY <1>0, AmongIs
<1>8. found = Among(s, S)
  BY ONLY <1>0, <1>6, <1>7, SelectionUnique
<1> QED BY <1>5, <1>8 DEF S, s

LEMMA LookupErrorIs ==
  ASSUME NEW entries, NEW registered, Registry(registered) \in Seq(entries), NEW code
  PROVE  LET found == Among(Registry(registered), {e \in entries : e.code = code})
         IN  LookupError(registered, code) = IF found = <<>> THEN NoEntry ELSE Head(found)
<1> DEFINE s == Registry(registered)
           S == {e \in entries : e.code = code}
<1>0. s \in Seq(entries)
  OBVIOUS
<1>1. PICK g : Selects(s, S, g)
  BY <1>0, SelectionExists
<1>2. \A i \in 1..Len(s) : s[i] \in S <=> s[i].code = code
  BY <1>0
<1> DEFINE f(h) == [i \in 0..Len(s) |->
                      IF i = 0 THEN <<>>
                      ELSE IF s[i].code = code THEN Append(h[i - 1], s[i]) ELSE h[i - 1]]
           c == CHOOSE h : h = f(h)
<1>3. \A h : Selects(s, S, h) <=> h = f(h)
  <2> TAKE h
  <2> HIDE DEF S
  <2>1. \A i \in 0..Len(s) : f(h)[i] = IF i = 0 THEN <<>>
                                 ELSE IF s[i] \in S THEN Append(h[i - 1], s[i]) ELSE h[i - 1]
    BY <1>2
  <2>2. f(h) = [i \in 0..Len(s) |-> IF i = 0 THEN <<>>
                                 ELSE IF s[i] \in S THEN Append(h[i - 1], s[i]) ELSE h[i - 1]]
    BY <2>1
  <2> QED BY <2>2 DEF Selects
<1>4. c = f(c)
  BY <1>1, <1>3
<1> DEFINE found == c[Len(s)]
<1>5. LookupError(registered, code) = IF found = <<>> THEN NoEntry ELSE Head(found)
  BY DEF LookupError, Select
<1> HIDE DEF S, s, c, f
<1>6. Selects(s, S, c)
  BY <1>3, <1>4
<1>7. PICK k : Selects(s, S, k) /\ Among(s, S) = k[Len(s)]
  BY <1>0, AmongIs
<1>8. found = Among(s, S)
  BY ONLY <1>0, <1>6, <1>7, SelectionUnique
<1> QED BY <1>5, <1>8 DEF S, s

LEMMA NonEmptyIs ==
  ASSUME NEW X, NEW texts \in Seq(X)
  PROVE  Select(texts, LAMBDA t : t # <<>>) = Among(texts, {t \in X : t # <<>>})
<1> DEFINE s == texts
           S == {t \in X : t # <<>>}
<1>0. s \in Seq(X)
  OBVIOUS
<1>1. PICK g : Selects(s, S, g)
  BY <1>0, SelectionExists
<1>2. \A i \in 1..Len(s) : s[i] \in S <=> s[i] # <<>>
  BY <1>0
<1> DEFINE f(h) == [i \in 0..Len(s) |->
                      IF i = 0 THEN <<>>
                      ELSE IF s[i] # <<>> THEN Append(h[i - 1], s[i]) ELSE h[i - 1]]
           c == CHOOSE h : h = f(h)
<1>3. \A h : Selects(s, S, h) <=> h = f(h)
  <2> TAKE h
  <2> HIDE DEF S
  <2>1. \A i \in 0..Len(s) : f(h)[i] = IF i = 0 THEN <<>>
                                 ELSE IF s[i] \in S THEN Append(h[i - 1], s[i]) ELSE h[i - 1]
    BY <1>2
  <2>2. f(h) = [i \in 0..Len(s) |-> IF i = 0 THEN <<>>
                                 ELSE IF s[i] \in S THEN Append(h[i - 1], s[i]) ELSE h[i - 1]]
    BY <2>1
  <2> QED BY <2>2 DEF Selects
<1>4. c = f(c)
  BY <1>1, <1>3
<1> DEFINE found == c[Len(s)]
<1>5. Select(texts, LAMBDA t : t # <<>>) = found
  BY DEF Select
<1> HIDE DEF S, s, c, f
<1>6. Selects(s, S, c)
  BY <1>3, <1>4
<1>7. PICK k : Selects(s, S, k) /\ Among(s, S) = k[Len(s)]
  BY <1>0, AmongIs
<1>8. found = Among(s, S)
  BY ONLY <1>0, <1>6, <1>7, SelectionUnique
<1> QED BY <1>5, <1>8 DEF S, s

-----------------------------------------------------------------------------
\* The words of reports, by where they are from.

Labels ==
  {"report", "fast-observe/1", "error", "category", "location", "source", "scope", "attachment",
   "cause", "original", "attempt", "failure", "trace_id", "fingerprint", "advice", "action",
   "hint", "doctor", "appendix", "indent", "more", "schema", "2", "causes", "wrap", "batch"}

Errors  == RootErrors \cup ChildErrors
Entries == UNION {ToSet(s) : s \in Slices}
Visible == {a \in AttachmentMenu : a.placement \in {"inline", "appendix"} \/ a.key \in Reserved}

ErrorWords(e)      == {ToString(e.code), e.type, e.at} \cup ToSet(e.says)
EntryWords(e)      == ToSet(e.advice) \cup ToSet(e.action)
AttachmentWords(a) == {a.key} \cup ToSet(a.shows)

FormatWords ==
  Labels \cup Tags \cup {ToString(n) : n \in Nat} \cup ToSet(SourceLine)
  \cup {Policy[c] : c \in Tags}

SaidByErrors      == UNION {ErrorWords(e) : e \in Errors}
SaidByEntries     == UNION {EntryWords(e) : e \in Entries}
SaidByAttachments == UNION {AttachmentWords(a) : a \in Visible}

PublicWords == FormatWords \cup SaidByErrors \cup SaidByEntries \cup SaidByAttachments

Line     == Seq(PublicWords)
Keyed(K) == {l \in Line : Len(l) >= 1 /\ l[1] \in K}

LEMMA BlankIs == /\ Blank \notin Tags /\ Blank \notin EdgeKinds /\ Blank \notin Labels
<1>1. Blank \notin Tags
  BY Zenon DEF Blank, Tags
<1>2. Blank \notin EdgeKinds
  BY Zenon DEF Blank, EdgeKinds
<1>3. Blank \notin Labels
  BY Zenon DEF Blank, Labels
<1> QED BY <1>1, <1>2, <1>3

LEMMA TextWords == ASSUME NEW W, NEW t \in Seq(STRING), ToSet(t) \subseteq W PROVE t \in Seq(W)
BY DEF ToSet

\* Errors, entries and attachments say words, and their words are public.
LEMMA ErrorsSay ==
  ASSUME NEW e \in Errors
  PROVE  /\ e.code \in Seq(Nat) /\ e.tag \in Tags \cup {Blank} /\ e.says \in Line
         /\ ToString(e.code) \in PublicWords /\ e.type \in PublicWords /\ e.at \in PublicWords
<1>1. e.code \in Seq(Nat) /\ e.tag \in Tags \cup {Blank} /\ e.says \in Seq(STRING)
  BY ErrorsAssumption DEF Errors, Texts
<1>2. ErrorWords(e) \subseteq PublicWords
  BY DEF PublicWords, SaidByErrors
<1>3. ToSet(e.says) \subseteq PublicWords
  BY <1>2 DEF ErrorWords
<1>4. e.says \in Line
  BY <1>1, <1>3, TextWords DEF Line
<1> QED BY <1>1, <1>2, <1>4 DEF ErrorWords

LEMMA EntriesSay ==
  ASSUME NEW e \in Entries
  PROVE  e.category \in Tags /\ e.code \in Seq(Nat) /\ e.advice \in Line /\ e.action \in Line
<1>1. PICK s \in Slices : e \in ToSet(s)
  BY DEF Entries
<1>2. e \in [code : Seq(Nat), name : STRING, category : Tags, advice : Texts, action : Texts]
  <2>1. s \in Seq([code : Seq(Nat), name : STRING, category : Tags, advice : Texts, action : Texts])
    BY SlicesAssumption
  <2>2. PICK i \in 1..Len(s) : e = s[i]
    <3>1. DOMAIN s = 1..Len(s)
      BY <2>1
    <3> QED BY <1>1, <3>1 DEF ToSet
  <2>3. s[i] \in [code : Seq(Nat), name : STRING, category : Tags, advice : Texts, action : Texts]
    BY <2>1, <2>2, ElementOfSeq
  <2> QED BY <2>2, <2>3
<1>3. EntryWords(e) \subseteq PublicWords
  <2>1. EntryWords(e) \subseteq SaidByEntries
    BY DEF SaidByEntries
  <2>2. SaidByEntries \subseteq PublicWords
    BY DEF PublicWords
  <2> QED BY <2>1, <2>2
<1>4. ToSet(e.advice) \subseteq PublicWords /\ ToSet(e.action) \subseteq PublicWords
  BY <1>3 DEF EntryWords
<1>5. e.advice \in Seq(STRING) /\ e.action \in Seq(STRING)
  BY <1>2 DEF Texts
<1> QED BY <1>2, <1>4, <1>5, TextWords DEF Line

LEMMA AttachmentsSay ==
  ASSUME NEW a \in Visible
  PROVE  a.key \in PublicWords /\ a.shows \in Line
<1>1. a.shows \in Seq(STRING)
  BY AttachmentAssumption DEF Visible, Texts
<1>2. AttachmentWords(a) \subseteq PublicWords
  <2>1. AttachmentWords(a) \subseteq SaidByAttachments
    BY DEF SaidByAttachments
  <2>2. SaidByAttachments \subseteq PublicWords
    BY DEF PublicWords
  <2> QED BY <2>1, <2>2
<1>3. ToSet(a.shows) \subseteq PublicWords /\ a.key \in PublicWords
  BY <1>2 DEF AttachmentWords
<1> QED BY <1>1, <1>3, TextWords DEF Line

LEMMA OthersSay ==
  /\ Labels \subseteq PublicWords /\ Tags \subseteq PublicWords
  /\ \A n \in Nat : ToString(n) \in PublicWords
  /\ SourceLine \in Line
  /\ \A c \in Tags : Policy[c] \in PublicWords
<1>0. FormatWords \subseteq PublicWords
  BY DEF PublicWords
<1>1. ToSet(SourceLine) \subseteq PublicWords
  BY <1>0 DEF FormatWords
<1>2. SourceLine \in Line
  BY <1>1, SourceLineAssumption, TextWords DEF Line, Texts
<1> QED BY <1>0, <1>2 DEF FormatWords

\* Lines grow at their end.
LEMMA LineLonger ==
  ASSUME NEW K, NEW l \in Keyed(K), NEW s \in Line
  PROVE  l \o s \in Keyed(K)
<1>1. l \in Seq(PublicWords) /\ s \in Seq(PublicWords) /\ Len(l) >= 1 /\ l[1] \in K
  BY DEF Keyed, Line
<1>2. l \o s \in Seq(PublicWords) /\ Len(l \o s) = Len(l) + Len(s) /\ (l \o s)[1] = l[1]
  BY <1>1, Concat
<1>3. Len(l) \in Nat /\ Len(s) \in Nat
  BY <1>1
<1>4. 1 \in 1..Len(l) /\ Len(l) + Len(s) >= 1
  BY <1>1, <1>3
<1> QED BY <1>1, <1>2, <1>4 DEF Keyed, Line

LEMMA LineStart ==
  ASSUME NEW K, NEW w \in K \cap PublicWords
  PROVE  <<w>> \in Keyed(K)
BY DEF Keyed, Line

LEMMA HeadingSays ==
  ASSUME NEW e \in Errors
  PROVE  Heading(e) \in Line
<1>1. CodeWord(e.code) \in Line
  BY ErrorsSay DEF CodeWord, Line
<1>2. Word(ConcreteTypeName(e)) \in Line
  BY ErrorsSay DEF Word, ConcreteTypeName, Line
<1> QED BY <1>1, <1>2 DEF Heading, Line

\* What the fault says of its root.
LEMMA RootSays ==
  ASSUME FaultInv
  PROVE  /\ Root \in Errors
         /\ \A p \in DOMAIN tree : tree[p].error \in Errors /\ tree[p].kind \in EdgeKinds \cup {Blank}
         /\ \/ RootEntry \in Entries /\ Root.code # <<>>
            \/ RootEntry = NoEntry
         /\ FrameCategory \in Tags \cup {Blank}
         /\ FrameCategory # Blank => BaseAction \in Line
         /\ RootEntry.advice \in Line
<1>1. \A p \in DOMAIN tree : tree[p] \in Nodes
  BY DEF FaultInv
<1>2. \A p \in DOMAIN tree : tree[p].error \in Errors /\ tree[p].kind \in EdgeKinds \cup {Blank}
  BY <1>1 DEF Nodes, Errors
<1>3. Root \in Errors
  BY <1>2 DEF FaultInv, Shape, Root
<1>4. Registry(slices) \in Seq(Entries)
  <2>1. \A s \in Slices : s \in Seq(Entries)
    <3> SUFFICES ASSUME NEW s \in Slices PROVE s \in Seq(Entries)
      OBVIOUS
    <3>1. ToSet(s) \subseteq Entries
      BY DEF Entries
    <3> QED BY <3>1, SlicesAssumption DEF ToSet
  <2>2. slices \in Seq(Seq(Entries))
    BY <2>1 DEF FaultInv
  <2> QED BY <2>2, FlattenType DEF Registry
<1>5. (RootEntry \in Entries /\ Root.code # <<>>) \/ RootEntry = NoEntry
  <2> DEFINE found == Among(Registry(slices), {e \in Entries : e.code = Root.code})
  <2>1. LookupError(slices, Root.code) = IF found = <<>> THEN NoEntry ELSE Head(found)
    BY <1>4, LookupErrorIs
  <2>2. found \in Seq(Entries)
    BY <1>4, AmongType
  <2> HIDE DEF found
  <2> QED BY <2>1, <2>2 DEF RootEntry
<1>6. NoEntry.category = Blank /\ NoEntry.advice = <<>> /\ NoEntry.action = <<>>
  BY DEF NoEntry, Entry
<1>7. FrameCategory \in Tags \cup {Blank}
  BY <1>3, <1>5, <1>6, ErrorsSay, EntriesSay DEF FrameCategory
<1>8. FrameCategory # Blank => BaseAction \in Line
  <2> SUFFICES ASSUME FrameCategory # Blank PROVE BaseAction \in Line
    OBVIOUS
  <2>1. <<Policy[FrameCategory]>> \in Line
    BY <1>7, OthersSay DEF Line
  <2>2. RootEntry.action \in Line \/ RootEntry.action = <<>>
    BY <1>5, <1>6, EntriesSay
  <2>3. \/ BaseAction = RootEntry.action /\ RootEntry.action # <<>>
        \/ BaseAction = <<Policy[FrameCategory]>>
    BY DEF BaseAction
  <2> QED BY <2>1, <2>2, <2>3
<1>9. RootEntry.advice \in Line
  <2>1. <<>> \in Line
    BY DEF Line
  <2> QED BY <1>5, <1>6, <2>1, EntriesSay
<1> QED BY <1>2, <1>3, <1>5, <1>7, <1>8, <1>9

\* What is selected of the attachments.
LEMMA AttachmentsFound ==
  ASSUME FaultInv
  PROVE  /\ \A key \in Reserved :
              FindKeyed(key) = <<>> \/ \E a \in Visible : a.key = key /\ FindKeyed(key) = <<a>>
         /\ Inline \in Seq({a \in Visible : a.placement = "inline"})
         /\ Appendix \in Seq({a \in Visible : a.key # Blank})
<1>1. attachments \in Seq(AttachmentMenu)
  BY DEF FaultInv
<1>2. ASSUME NEW key \in Reserved
      PROVE  FindKeyed(key) = <<>> \/ \E a \in Visible : a.key = key /\ FindKeyed(key) = <<a>>
  <2> DEFINE S == {a \in AttachmentMenu : a.key = key}
             found == Among(attachments, S)
  <2>1. FindKeyed(key) = IF found = <<>> THEN <<>> ELSE <<Head(found)>>
    BY <1>1, FindKeyedIs
  <2>2. found \in Seq(AttachmentMenu \cap S)
    BY <1>1, AmongType
  <2>3. AttachmentMenu \cap S \subseteq {a \in Visible : a.key = key}
    BY DEF Visible
  <2> HIDE DEF found, S
  <2>4. found # <<>> => Head(found) \in AttachmentMenu \cap S
    BY <2>2
  <2> QED BY <2>1, <2>3, <2>4
<1>3. Inline \in Seq({a \in Visible : a.placement = "inline"})
  <2> DEFINE S == {a \in AttachmentMenu : a.placement = "inline" /\ a.key \notin Reserved}
  <2>1. Among(attachments, S) \in Seq(AttachmentMenu \cap S)
    BY <1>1, AmongType
  <2>2. AttachmentMenu \cap S \subseteq {a \in Visible : a.placement = "inline"}
    BY DEF Visible
  <2>3. Inline = Among(attachments, S)
    BY <1>1, InlineIs
  <2> HIDE DEF S
  <2> QED BY <2>1, <2>2, <2>3, MoreValues
<1>4. Appendix \in Seq({a \in Visible : a.key # Blank})
  <2> DEFINE S == {a \in AttachmentMenu : a.placement = "appendix" /\ a.key # Blank}
  <2>1. Among(attachments, S) \in Seq(AttachmentMenu \cap S)
    BY <1>1, AmongType
  <2>2. AttachmentMenu \cap S \subseteq {a \in Visible : a.key # Blank}
    BY DEF Visible
  <2>3. Appendix = Among(attachments, S)
    BY <1>1, AppendixIs
  <2> HIDE DEF S
  <2> QED BY <2>1, <2>2, <2>3, MoreValues
<1> QED BY <1>2, <1>3, <1>4

-----------------------------------------------------------------------------
\* The sections of the text form.

\* Every entry has its advice on one line.
AdviceIsOneLine == \A e \in Entries : Len(e.advice) <= 1

LEMMA SectionIs == ASSUME NEW lines PROVE Section(TRUE, lines) = lines /\ Section(FALSE, lines) = <<>>
BY DEF Section

LEMMA OneKeyed ==
  ASSUME NEW K, NEW l \in Keyed(K)
  PROVE  <<l>> \in Seq(Keyed(K))
OBVIOUS

LEMMA NoneKeyed == ASSUME NEW K PROVE <<>> \in Seq(Keyed(K))
OBVIOUS

\* At most one line.
Lone(K) == {lines \in Seq(Keyed(K)) : Len(lines) <= 1}

LEMMA LoneIs ==
  ASSUME NEW K
  PROVE  <<>> \in Lone(K) /\ (\A l \in Keyed(K) : <<l>> \in Lone(K)) /\ Lone(K) \subseteq Seq(Keyed(K))
<1>1. \A l \in Keyed(K) : <<l>> \in Seq(Keyed(K)) /\ Len(<<l>>) <= 1
  OBVIOUS
<1>2. <<>> \in Seq(Keyed(K)) /\ Len(<<>>) <= 1
  OBVIOUS
<1> QED BY <1>1, <1>2 DEF Lone

\* A line of words of the format.
LEMMA LabelLine ==
  ASSUME NEW K, NEW w \in K \cap Labels, NEW s \in Line
  PROVE  /\ <<w>> \o s \in Keyed(K)
         /\ \A x \in PublicWords : <<w, x>> \in Keyed(K)
         /\ \A x, y \in PublicWords : <<w, x, y>> \in Keyed(K)
         /\ <<<<w>> \o s>> \in Lone(K)
<1>1. w \in PublicWords
  BY OthersSay
<1>2. <<w>> \in Keyed(K)
  BY <1>1, LineStart
<1>3. <<w>> \o s \in Keyed(K)
  BY <1>2, LineLonger
<1>4. \A x \in PublicWords : <<w, x>> \in Keyed(K)
  BY <1>1 DEF Keyed, Line
<1>5. \A x, y \in PublicWords : <<w, x, y>> \in Keyed(K)
  BY <1>1 DEF Keyed, Line
<1> QED BY <1>3, <1>4, <1>5, LoneIs

LEMMA ErrorKeyed ==
  ASSUME FaultInv
  PROVE  Escaped(<<"error">> \o Heading(Root), Root.says) \in Lone({"error"})
<1>1. Heading(Root) \in Line /\ Root.says \in Line
  BY RootSays, HeadingSays, ErrorsSay
<1>2. "error" \in {"error"} \cap Labels
  BY DEF Labels
<1>3. <<"error">> \o Heading(Root) \in Keyed({"error"})
  BY <1>1, <1>2, LabelLine
<1>4. (<<"error">> \o Heading(Root)) \o Root.says \in Keyed({"error"})
  BY <1>1, <1>3, LineLonger
<1> QED BY <1>4, LoneIs DEF Escaped

LEMMA CategoryKeyed ==
  ASSUME FaultInv
  PROVE  Section(FrameCategory # Blank, <<<<"category", FrameCategory, Policy[FrameCategory]>>>>)
           \in Lone({"category"})
<1> DEFINE l == <<"category", FrameCategory, Policy[FrameCategory]>>
<1>1. FrameCategory # Blank => FrameCategory \in PublicWords /\ Policy[FrameCategory] \in PublicWords
  <2>1. FrameCategory # Blank => FrameCategory \in Tags
    BY RootSays
  <2> QED BY <2>1, OthersSay
<1>2. "category" \in {"category"} \cap Labels /\ <<>> \in Line
  BY DEF Labels, Line
<1>3. FrameCategory # Blank => l \in Keyed({"category"})
  BY <1>1, <1>2, LabelLine
<1> HIDE DEF l
<1>4. CASE FrameCategory # Blank
  <2>1. Section(FrameCategory # Blank, <<l>>) = <<l>>
    BY <1>4, SectionIs
  <2> QED BY <1>3, <1>4, <2>1, LoneIs DEF l
<1>5. CASE ~(FrameCategory # Blank)
  <2>1. Section(FrameCategory # Blank, <<l>>) = <<>>
    BY <1>5 DEF Section
  <2> QED BY <2>1, LoneIs DEF l
<1> QED BY <1>4, <1>5

LEMMA SourceKeyed ==
  Section(SourceLine # <<>>, Escaped(<<"source">>, SourceLine)) \in Lone({"source"})
<1>1. "source" \in {"source"} \cap Labels /\ SourceLine \in Line
  BY OthersSay DEF Labels
<1>2. Escaped(<<"source">>, SourceLine) \in Lone({"source"})
  BY <1>1, LabelLine DEF Escaped
<1> QED BY <1>2, LoneIs DEF Section

\* Every elapsed time was attached by the hook that measures scopes.
ElapsedIsTyped == \A a \in AttachmentMenu : a.key = "scope_elapsed_ms" => a.typed

LEMMA ScopeSays ==
  ASSUME FaultInv, NEW a \in Visible
  PROVE  /\ ScopeLine(a) \in Lone({"scope"})
         /\ ElapsedIsTyped => ScopeMember(a) = ScopeLine(a)
<1> DEFINE elapsed == FindKeyed("scope_elapsed_ms")
           more    == IF elapsed = <<>> THEN <<>> ELSE elapsed[1].shows
           typed   == IF elapsed # <<>> /\ elapsed[1].typed THEN elapsed[1].shows ELSE <<>>
<1>1. "scope" \in {"scope"} \cap Labels /\ "scope_elapsed_ms" \in Reserved
  BY DEF Labels, Reserved
<1>2. a.shows \in Line
  BY AttachmentsSay
<1>3. elapsed = <<>> \/ \E b \in Visible : b.key = "scope_elapsed_ms" /\ elapsed = <<b>>
  BY <1>1, AttachmentsFound
<1>4. ScopeLine(a) = <<<<"scope">> \o (a.shows \o more)>>
  BY DEF ScopeLine, Escaped
<1>5. ScopeMember(a) = <<(<<"scope">> \o a.shows) \o typed>>
  BY DEF ScopeMember
<1> HIDE DEF elapsed
<1>6. more \in Line
  <2>1. CASE elapsed = <<>>
    BY <2>1 DEF Line
  <2>2. CASE elapsed # <<>>
    BY <1>3, <2>2, AttachmentsSay
  <2> QED BY <2>1, <2>2
<1>7. ElapsedIsTyped => typed = more
  BY <1>3 DEF ElapsedIsTyped, Visible
<1> HIDE DEF more, typed
<1>8. a.shows \o more \in Line
  BY <1>2, <1>6, ConcatProperties DEF Line
<1>9. <<<<"scope">> \o (a.shows \o more)>> \in Lone({"scope"})
  BY <1>1, <1>8, LabelLine
<1>10. <<"scope">> \o (a.shows \o more) = (<<"scope">> \o a.shows) \o more
  <2>1. <<"scope">> \in Line
    BY <1>1, OthersSay DEF Line
  <2>2. \A x, y, z \in Line : (x \o y) \o z = x \o (y \o z)
    BY ConcatAssociative DEF Line
  <2> QED BY <1>2, <1>6, <2>1, <2>2
<1> QED BY <1>4, <1>5, <1>7, <1>9, <1>10

LEMMA ScopeKeyed ==
  ASSUME FaultInv
  PROVE  /\ Each(FindKeyed("scope_path"), ScopeLine) \in Lone({"scope"})
         /\ ElapsedIsTyped => Each(FindKeyed("scope_path"), ScopeMember)
                                = Each(FindKeyed("scope_path"), ScopeLine)
<1> DEFINE found == FindKeyed("scope_path")
<1>1. "scope_path" \in Reserved
  BY DEF Reserved
<1>2. found = <<>> \/ \E b \in Visible : b.key = "scope_path" /\ found = <<b>>
  BY <1>1, AttachmentsFound
<1>3. /\ Each(found, ScopeLine) = FlattenSeq([i \in DOMAIN found |-> ScopeLine(found[i])])
      /\ Each(found, ScopeMember) = FlattenSeq([i \in DOMAIN found |-> ScopeMember(found[i])])
  BY DEF Each
<1> HIDE DEF found
<1>4. CASE found = <<>>
  <2>1. /\ [i \in DOMAIN found |-> ScopeLine(found[i])] = <<>>
        /\ [i \in DOMAIN found |-> ScopeMember(found[i])] = <<>>
    BY <1>4
  <2> QED BY <1>3, <2>1, FlattenEmpty, LoneIs DEF found
<1>5. CASE found # <<>>
  <2>1. PICK b \in Visible : found = <<b>>
    BY <1>2, <1>5
  <2>2. /\ [i \in DOMAIN found |-> ScopeLine(found[i])] = <<ScopeLine(b)>>
        /\ [i \in DOMAIN found |-> ScopeMember(found[i])] = <<ScopeMember(b)>>
    BY <2>1
  <2>3. /\ ScopeLine(b) \in Lone({"scope"})
        /\ ElapsedIsTyped => ScopeMember(b) = ScopeLine(b)
    BY ScopeSays
  <2>4. FlattenSeq(<<ScopeLine(b)>>) = ScopeLine(b)
    BY <2>3, FlattenOne, LoneIs
  <2> QED BY <1>3, <2>2, <2>3, <2>4 DEF found
<1> QED BY <1>4, <1>5

LEMMA AttachmentKeyed ==
  ASSUME FaultInv
  PROVE  /\ Each(Inline, AttachmentLine) \in Seq(Keyed({"attachment"}))
         /\ Len(Each(Inline, AttachmentLine)) = Len(Inline)
<1> DEFINE blocks == [i \in DOMAIN Inline |-> AttachmentLine(Inline[i])]
<1>1. Inline \in Seq(Visible)
  BY AttachmentsFound
<1>2. ASSUME NEW a \in Visible
      PROVE  AttachmentLine(a) \in Seq(Keyed({"attachment"})) /\ Len(AttachmentLine(a)) = 1
  <2>1. "attachment" \in {"attachment"} \cap Labels
    BY DEF Labels
  <2>2. a.shows \in Line /\ Word(a.key) \in Line
    BY AttachmentsSay DEF Word, Line
  <2>3. <<"attachment">> \o Word(a.key) \in Keyed({"attachment"})
    BY <2>1, <2>2, LabelLine
  <2>4. (<<"attachment">> \o Word(a.key)) \o a.shows \in Keyed({"attachment"})
    BY <2>2, <2>3, LineLonger
  <2> QED BY <2>4 DEF AttachmentLine, Escaped
<1>3. blocks \in Seq(Seq(Keyed({"attachment"}))) /\ Len(blocks) = Len(Inline)
      /\ \A i \in 1..Len(blocks) : Len(blocks[i]) = 1
  <2>1. /\ DOMAIN Inline = 1..Len(Inline) /\ Len(Inline) \in Nat
        /\ \A i \in 1..Len(Inline) : Inline[i] \in Visible
    BY <1>1
  <2> QED BY <1>2, <2>1
<1>4. Each(Inline, AttachmentLine) = FlattenSeq(blocks)
  BY DEF Each
<1> HIDE DEF blocks
<1> QED BY <1>3, <1>4, FlattenType, FlattenOfOnes

LEMMA TraceKeyed ==
  ASSUME FaultInv
  PROVE  /\ Each(FindKeyed("trace_id"), LAMBDA a : Escaped(<<"trace_id">>, a.shows))
              \in Lone({"trace_id"})
         /\ Each(FindKeyed("trace_id"), LAMBDA a : Escaped(<<"trace_id">>, a.shows))
              = Each(FindKeyed("trace_id"), LAMBDA a : <<<<"trace_id">> \o a.shows>>)
<1> DEFINE found  == FindKeyed("trace_id")
           blocks == [i \in DOMAIN found |-> <<<<"trace_id">> \o found[i].shows>>]
<1>1. "trace_id" \in Reserved /\ "trace_id" \in {"trace_id"} \cap Labels
  BY DEF Reserved, Labels
<1>2. found = <<>> \/ \E b \in Visible : b.key = "trace_id" /\ found = <<b>>
  BY <1>1, AttachmentsFound
<1>3. /\ Each(found, LAMBDA a : Escaped(<<"trace_id">>, a.shows)) = FlattenSeq(blocks)
      /\ Each(found, LAMBDA a : <<<<"trace_id">> \o a.shows>>) = FlattenSeq(blocks)
  BY DEF Each, Escaped
<1>4. FlattenSeq(blocks) \in Lone({"trace_id"})
  <2>1. CASE found = <<>>
    <3>1. blocks = <<>>
      <4> HIDE DEF found
      <4> QED BY <2>1
    <3> QED BY <3>1, FlattenEmpty, LoneIs
  <2>2. CASE found # <<>>
    <3>1. PICK b \in Visible : found = <<b>>
      BY <1>2, <2>2
    <3> HIDE DEF found
    <3>2. blocks = <<<<<<"trace_id">> \o b.shows>>>>
      BY <3>1
    <3>3. <<<<"trace_id">> \o b.shows>> \in Lone({"trace_id"})
      BY <1>1, AttachmentsSay, LabelLine
    <3>4. FlattenSeq(<<<<<<"trace_id">> \o b.shows>>>>) = <<<<"trace_id">> \o b.shows>>
      BY <3>3, FlattenOne, LoneIs
    <3> QED BY <3>2, <3>3, <3>4
  <2> QED BY <2>1, <2>2
<1> QED BY <1>3, <1>4

LEMMA CausesKeyed ==
  ASSUME FaultInv, causes \in Seq(Nodes)
  PROVE  [n \in DOMAIN causes |-> CauseLine(n)] \in Seq(Keyed(CauseKeys))
<1>1. DOMAIN causes = 1..Len(causes) /\ Len(causes) \in Nat
  OBVIOUS
<1>2. ASSUME NEW n \in 1..Len(causes) PROVE CauseLine(n) \in Keyed(CauseKeys)
  <2> DEFINE label == CauseLabel(causes[n].kind)
             e     == causes[n].error
             start == <<label, ToString(n - 1)>>
  <2>1. e \in Errors /\ causes[n].kind \in EdgeKinds \cup {Blank}
    <3>1. causes[n] \in Nodes
      OBVIOUS
    <3> QED BY <3>1 DEF Nodes, Errors
  <2>2. label \in CauseKeys \cap Labels
    BY <2>1 DEF CauseLabel, CauseKeys, Labels, EdgeKinds
  <2>3. ToString(n - 1) \in PublicWords /\ label \in PublicWords
    BY <1>1, <2>2, OthersSay
  <2>4. Heading(e) \in Line /\ e.says \in Line /\ <<e.at>> \in Line
    BY <2>1, HeadingSays, ErrorsSay DEF Line
  <2>5. CauseLine(n) = ((start \o Heading(e)) \o e.says) \o <<e.at>>
    BY DEF CauseLine
  <2> HIDE DEF label, e
  <2>6. start \in Keyed(CauseKeys)
    BY <2>2, <2>3 DEF Keyed, Line
  <2> HIDE DEF start
  <2>7. start \o Heading(e) \in Keyed(CauseKeys)
    BY <2>4, <2>6, LineLonger
  <2>8. (start \o Heading(e)) \o e.says \in Keyed(CauseKeys)
    BY <2>4, <2>7, LineLonger
  <2>9. ((start \o Heading(e)) \o e.says) \o <<e.at>> \in Keyed(CauseKeys)
    BY <2>4, <2>8, LineLonger
  <2> QED BY <2>5, <2>9
<1> QED BY <1>1, <1>2

LEMMA FingerprintKeyed ==
  ASSUME FaultInv
  PROVE  <<<<"fingerprint">> \o Fingerprint>> \in Lone({"fingerprint"})
<1>1. "fingerprint" \in {"fingerprint"} \cap Labels
  BY DEF Labels
<1>2. FirstLeaf \in DOMAIN tree
  <2>1. \E p \in DOMAIN tree : ToSet(p) \subseteq {1} /\ Branches(p) = 0
    <3>1. PICK p \in DOMAIN tree : ToSet(p) \subseteq {1} /\ Below(DOMAIN tree, p) = {}
      BY DEF FaultInv, Shape
    <3>2. Branches(p) = 0
      BY <3>1, BranchesAre, FS_EmptySet
    <3> QED BY <3>1, <3>2
  <2> QED BY <2>1 DEF FirstLeaf
<1>3. /\ ToString(Root.code) \in PublicWords /\ Root.type \in PublicWords /\ Root.at \in PublicWords
      /\ tree[FirstLeaf].error.type \in PublicWords
  BY <1>2, RootSays, ErrorsSay
<1>4. (IF Root.code # <<>> THEN ToString(Root.code) ELSE Root.type) \in PublicWords
  BY <1>3
<1>5. Fingerprint \in Line
  BY <1>3, <1>4 DEF Fingerprint, Line
<1> QED BY <1>1, <1>5, LabelLine

LEMMA AdviceKeyed ==
  ASSUME FaultInv, AdviceIsOneLine
  PROVE  /\ Section(RootEntry.advice # <<>>, Unescaped(<<"advice">>, RootEntry.advice))
              \in Lone({"advice"})
         /\ Section(RootEntry.advice # <<>>, Unescaped(<<"advice">>, RootEntry.advice))
              = Section(RootEntry.advice # <<>>, <<<<"advice">> \o RootEntry.advice>>)
<1> DEFINE t == RootEntry.advice
<1>1. t \in Line
  BY RootSays
<1>2. t # <<>> => Len(t) = 1
  <2>1. RootEntry \in Entries => Len(t) <= 1
    BY DEF AdviceIsOneLine
  <2>2. RootEntry = NoEntry => t = <<>>
    BY DEF NoEntry, Entry
  <2> HIDE DEF t
  <2>3. RootEntry \in Entries \/ RootEntry = NoEntry
    BY RootSays
  <2>4. Len(t) \in Nat /\ (t # <<>> => Len(t) # 0) /\ Len(<<>>) = 0
    BY <1>1 DEF Line
  <2> QED BY <2>1, <2>2, <2>3, <2>4
<1>3. "advice" \in {"advice"} \cap Labels
  BY DEF Labels
<1> HIDE DEF t
<1>4. ASSUME t # <<>>
      PROVE  /\ Unescaped(<<"advice">>, t) = <<<<"advice">> \o t>>
             /\ <<<<"advice">> \o t>> \in Lone({"advice"})
  <2>1. Len(t) = 1 /\ t = <<t[1]>> /\ Len(t) - 1 = 0
    BY <1>1, <1>2, <1>4 DEF Line
  <2> DEFINE rest == [i \in 1..(Len(t) - 1) |-> <<t[i + 1]>>]
  <2>2. rest = <<>>
    BY <2>1
  <2>3. Unescaped(<<"advice">>, t) = <<<<"advice">> \o <<t[1]>>>> \o rest
    BY DEF Unescaped
  <2> HIDE DEF rest
  <2>4. <<<<"advice">> \o t>> \in Lone({"advice"})
    BY <1>1, <1>3, LabelLine
  <2> QED BY <2>1, <2>2, <2>3, <2>4, ConcatEmptySeq
<1>5. ASSUME NEW s1, NEW s2, s1 = Section(t # <<>>, Unescaped(<<"advice">>, t)),
             s2 = Section(t # <<>>, <<<<"advice">> \o t>>)
      PROVE  s1 \in Lone({"advice"}) /\ s1 = s2
  <2>1. CASE t = <<>>
    <3>1. s1 = <<>> /\ s2 = <<>>
      BY <1>5, <2>1 DEF Section
    <3> QED BY <3>1, LoneIs
  <2>2. CASE t # <<>>
    <3>1. s1 = Unescaped(<<"advice">>, t) /\ s2 = <<<<"advice">> \o t>>
      BY <1>5, <2>2 DEF Section
    <3>2. s1 = s2 /\ s1 = <<<<"advice">> \o t>>
      BY <1>4, <2>2, <3>1
    <3> QED BY <1>4, <2>2, <3>2
  <2> QED BY <2>1, <2>2
<1> QED BY <1>5 DEF t

LEMMA ActionKeyed ==
  ASSUME FaultInv
  PROVE  /\ Section(FrameCategory # Blank, Escaped(<<"action">>, BaseAction))
              \in Lone({"action"})
         /\ Section(FrameCategory # Blank, Escaped(<<"action">>, BaseAction))
              = Section(FrameCategory # Blank, <<<<"action">> \o BaseAction>>)
<1>1. "action" \in {"action"} \cap Labels
  BY DEF Labels
<1>2. FrameCategory # Blank => <<<<"action">> \o BaseAction>> \in Lone({"action"})
  BY <1>1, RootSays, LabelLine
<1>3. Escaped(<<"action">>, BaseAction) = <<<<"action">> \o BaseAction>>
  BY DEF Escaped
<1>4. CASE FrameCategory # Blank
  <2>1. \A lines : Section(FrameCategory # Blank, lines) = lines
    BY <1>4 DEF Section
  <2> QED BY <1>2, <1>3, <1>4, <2>1
<1>5. CASE ~(FrameCategory # Blank)
  <2>1. \A lines : Section(FrameCategory # Blank, lines) = <<>>
    BY <1>5 DEF Section
  <2> QED BY <2>1, LoneIs
<1> QED BY <1>4, <1>5

LEMMA HintKeyed ==
  ASSUME FaultInv
  PROVE  Section(Root.code # <<>>, <<<<"hint", "doctor", ToString(Root.code)>>>>)
           \in Lone({"hint"})
<1>1. "hint" \in {"hint"} \cap Labels /\ "doctor" \in PublicWords /\ <<>> \in Line
  BY OthersSay DEF Labels, Line
<1>2. ToString(Root.code) \in PublicWords
  BY RootSays, ErrorsSay
<1>3. <<"hint", "doctor", ToString(Root.code)>> \in Keyed({"hint"})
  BY <1>1, <1>2, LabelLine
<1>4. CASE Root.code # <<>>
  <2>1. \A lines : Section(Root.code # <<>>, lines) = lines
    BY <1>4 DEF Section
  <2> QED BY <1>3, <2>1, LoneIs
<1>5. CASE ~(Root.code # <<>>)
  <2>1. \A lines : Section(Root.code # <<>>, lines) = <<>>
    BY <1>5 DEF Section
  <2> QED BY <2>1, LoneIs
<1> QED BY <1>4, <1>5

-----------------------------------------------------------------------------
\* The appendix.

LEMMA TrimEndIs ==
  ASSUME NEW X, NEW t \in Seq(X)
  PROVE  TrimEnd(t) \in Seq(X) /\ ToSet(TrimEnd(t)) \subseteq ToSet(t)
<1> DEFINE Ends(u, k) == (\A i \in (k + 1)..Len(u) : u[i] = Blank) /\ (k > 0 => u[k] # Blank)
           S == {u \in Seq(X) : \E k \in 0..Len(u) : Ends(u, k)}
<1>1. <<>> \in S
  <2>1. Ends(<<>>, 0) /\ 0 \in 0..Len(<<>>) /\ <<>> \in Seq(X)
    OBVIOUS
  <2> QED BY <2>1
<1>2. ASSUME NEW u \in Seq(X), NEW x \in X, NEW v \in Seq(X), u \in S, Longer(v, u, x)
      PROVE  v \in S
  <2>1. /\ Len(v) = Len(u) + 1 /\ v[Len(u) + 1] = x /\ Len(u) \in Nat
        /\ \A i \in 1..Len(u) : v[i] = u[i]
    BY <1>2 DEF Longer
  <2>2. CASE x # Blank
    <3>1. Len(v) \in 0..Len(v) /\ Ends(v, Len(v))
      BY <2>1, <2>2
    <3> QED BY <3>1
  <2>3. CASE x = Blank
    <3>1. PICK k \in 0..Len(u) : Ends(u, k)
      BY <1>2
    <3>2. k \in 0..Len(v)
      BY <2>1
    <3>3. ASSUME NEW i \in (k + 1)..Len(v) PROVE v[i] = Blank
      <4>1. i = Len(u) + 1 \/ (i \in (k + 1)..Len(u) /\ i \in 1..Len(u))
        BY <2>1, <3>1
      <4> QED BY <2>1, <2>3, <3>1, <4>1
    <3>4. k > 0 => v[k] # Blank
      BY <2>1, <3>1
    <3> QED BY <3>2, <3>3, <3>4
  <2> QED BY <2>2, <2>3
<1>3. t \in S
  <2>1. Seq(X) \subseteq S
    <3> HIDE DEF S
    <3> QED BY <1>1, <1>2, BySequence
  <2> QED BY <2>1
<1> DEFINE n == CHOOSE k \in 0..Len(t) : Ends(t, k)
<1>4. n \in 0..Len(t)
  BY <1>3
<1>5. TrimEnd(t) = SubSeq(t, 1, n)
  BY DEF TrimEnd
<1> HIDE DEF n
<1>6. /\ SubSeq(t, 1, n) \in Seq(X) /\ Len(SubSeq(t, 1, n)) = n
      /\ \A i \in 1..n : SubSeq(t, 1, n)[i] = t[i] /\ i \in 1..Len(t)
  BY <1>4
<1> QED BY <1>5, <1>6 DEF ToSet

\* The first member of an appendix has the key, and there is one if there is a line.
LEMMA AppendixBlock ==
  ASSUME NEW a \in Visible, a.key # Blank
  PROVE  LET n == Len(TrimEnd(a.shows))
             S == {l \in Line : l[1] \in {"appendix"}}
         IN  /\ AppendixLines(a) \in Seq(Keyed({"appendix", "indent"}))
             /\ Len(Among(AppendixLines(a), S)) = IF TrimEnd(a.shows) # <<>> THEN 1 ELSE 0
             /\ n > AppendixMaxLines =>
                  \E i \in 1..Len(AppendixLines(a)) :
                    AppendixLines(a)[i] = <<"indent", "more", ToString(n - AppendixMaxLines)>>
             /\ \A i \in 1..Len(AppendixLines(a)) :
                  AppendixLines(a)[i][1] = "indent" /\ Len(AppendixLines(a)[i]) = 3 =>
                    /\ n > AppendixMaxLines
                    /\ AppendixLines(a)[i] = <<"indent", "more", ToString(n - AppendixMaxLines)>>
<1> DEFINE lines == TrimEnd(a.shows)
           n     == Len(lines)
           shown == SubSeq(lines, 1, Min({n, AppendixMaxLines}))
           more  == <<"indent", "more", ToString(n - AppendixMaxLines)>>
           tail  == Section(n > AppendixMaxLines, <<more>>)
           head  == [i \in DOMAIN shown |->
                       (IF i = 1 THEN <<"appendix", a.key>> ELSE <<"indent">>) \o <<shown[i]>>]
           K     == {"appendix", "indent"}
           S     == {l \in Line : l[1] \in {"appendix"}}
<1>1. AppendixLines(a) = head \o tail
  BY DEF AppendixLines
<1>2. lines \in Line /\ n \in Nat
  <2>1. a.shows \in Seq(PublicWords)
    BY AttachmentsSay DEF Line
  <2> QED BY <2>1, TrimEndIs DEF Line
<1>3. /\ "appendix" \in K \cap Labels /\ "indent" \in K \cap Labels /\ "more" \in PublicWords
      /\ "appendix" # "indent" /\ a.key \in PublicWords
      /\ "appendix" \in PublicWords /\ "indent" \in PublicWords
  BY AttachmentsSay, OthersSay DEF Labels
<1>4. AppendixMaxLines \in Nat /\ AppendixMaxLines >= 1
  BY CapAssumption
<1> HIDE DEF lines
<1>5. PICK m \in Nat : m = Min({n, AppendixMaxLines}) /\ m <= n /\ (n # 0 => m >= 1)
  <2>1. \E x \in {n, AppendixMaxLines} : \A y \in {n, AppendixMaxLines} : x <= y
    BY <1>2, <1>4
  <2>2. Min({n, AppendixMaxLines}) \in {n, AppendixMaxLines} /\ Min({n, AppendixMaxLines}) <= n
    BY <2>1 DEF Min
  <2> QED BY <1>2, <1>4, <2>2
<1>6. /\ shown \in Line /\ Len(shown) = m /\ DOMAIN shown = 1..m
      /\ \A i \in 1..m : shown[i] \in PublicWords
  <2>1. lines \in Seq(PublicWords) /\ Len(lines) = n /\ shown = SubSeq(lines, 1, m)
    BY <1>2, <1>5 DEF Line
  <2> HIDE DEF shown
  <2>2. \A i \in 1..m : lines[i] \in PublicWords
    BY <1>5, <2>1
  <2>3. shown \in Seq(PublicWords) /\ Len(shown) = m
    <3>1. m \in 0..Len(lines)
      BY <1>2, <1>5
    <3>2. SubSeq(lines, 1, m) \in Seq(PublicWords) /\ Len(SubSeq(lines, 1, m)) = m
      BY ONLY <2>1, <3>1
    <3> QED BY <2>1, <3>2
  <2> QED BY <2>3 DEF Line
<1> HIDE DEF shown
<1>7. ASSUME NEW i \in 1..m
      PROVE  head[i] \in Keyed(K) /\ head[i] \in Keyed({IF i = 1 THEN "appendix" ELSE "indent"})
  <2>1. <<shown[i]>> \in Line
    BY <1>6 DEF Line
  <2>2. \A w \in K : Keyed({w}) \subseteq Keyed(K)
    BY DEF Keyed
  <2>3. CASE i = 1
    <3>1. head[i] = <<"appendix", a.key>> \o <<shown[i]>>
      BY <1>6, <2>3
    <3>2. <<"appendix", a.key>> \in Keyed({"appendix"})
      BY <1>3, <2>1, LabelLine
    <3>3. head[i] \in Keyed({"appendix"})
      BY <2>1, <3>1, <3>2, LineLonger
    <3> QED BY <1>3, <2>2, <2>3, <3>3
  <2>4. CASE i # 1
    <3>1. head[i] = <<"indent">> \o <<shown[i]>>
      BY <1>6, <2>4
    <3>2. head[i] \in Keyed({"indent"})
      BY <1>3, <2>1, <3>1, LabelLine
    <3> QED BY <1>3, <2>2, <2>4, <3>2
  <2> QED BY <2>3, <2>4
<1>16. ASSUME NEW i \in 1..m PROVE ~(head[i][1] = "indent" /\ Len(head[i]) = 3)
  <2>1. PICK w : w = head[i]
    OBVIOUS
  <2>2. PICK v \in Seq(PublicWords) : v = <<shown[i]>>
    <3>1. <<shown[i]>> \in Seq(PublicWords)
      BY <1>6
    <3> QED BY <3>1
  <2>3. Len(v) = 1
    BY <2>2
  <2>4. i = 1 => w[1] = "appendix"
    <3> HAVE i = 1
    <3>1. PICK u \in Seq(PublicWords) : u = <<"appendix", a.key>>
      <4>1. <<"appendix", a.key>> \in Seq(PublicWords)
        BY <1>3
      <4> QED BY <4>1
    <3>2. w = u \o v
      BY <1>6, <2>1, <2>2, <3>1
    <3>3. u[1] = "appendix" /\ 1 \in 1..Len(u)
      BY ONLY <3>1
    <3>4. (u \o v)[1] = u[1]
      BY ONLY <3>3, Concat
    <3> QED BY ONLY <3>2, <3>3, <3>4
  <2>5. i # 1 => Len(w) = 2
    <3> HAVE i # 1
    <3>1. PICK u \in Seq(PublicWords) : u = <<"indent">>
      <4>1. <<"indent">> \in Seq(PublicWords)
        BY <1>3
      <4> QED BY <4>1
    <3>2. w = u \o v
      BY <1>6, <2>1, <2>2, <3>1
    <3>3. Len(u) = 1
      BY ONLY <3>1
    <3>4. Len(u \o v) = Len(u) + Len(v)
      BY ONLY Concat
    <3>5. Len(w) = 2
      BY ONLY <2>3, <3>2, <3>3, <3>4
    <3> QED BY ONLY <3>5
  <2> HIDE DEF head
  <2>6. ~(w[1] = "indent" /\ Len(w) = 3)
    BY ONLY <2>4, <2>5, SMTT(30)
  <2> QED BY ONLY <2>1, <2>6
<1>8. head \in Seq(Keyed(K)) /\ Len(head) = m
  <2>1. head = [i \in 1..m |-> head[i]]
    BY <1>6
  <2> HIDE DEF head
  <2>2. \A i \in 1..m : head[i] \in Keyed(K)
    BY <1>7
  <2> QED BY <1>5, <2>1, <2>2, FunctionIsSequence
<1>9. n > AppendixMaxLines => more \in Keyed(K) /\ more \in Keyed({"indent"})
  <2> SUFFICES ASSUME n > AppendixMaxLines PROVE more \in Keyed(K) /\ more \in Keyed({"indent"})
    OBVIOUS
  <2>1. ToString(n - AppendixMaxLines) \in PublicWords
    <3>1. n - AppendixMaxLines \in Nat
      BY <1>2, <1>4
    <3> QED BY <3>1, OthersSay
  <2> QED BY <1>3, <2>1 DEF Keyed, Line
<1> HIDE DEF head, more, K
<1>10. (n > AppendixMaxLines => tail = <<more>>) /\ (~(n > AppendixMaxLines) => tail = <<>>)
  BY DEF Section
<1> HIDE DEF tail
<1>11. tail \in Seq(Keyed(K)) /\ tail \in Seq(Keyed({"indent"}))
  <2>1. CASE n > AppendixMaxLines
    BY <1>9, <1>10, <2>1, OneKeyed
  <2>2. CASE ~(n > AppendixMaxLines)
    BY <1>10, <2>2, NoneKeyed
  <2> QED BY <2>1, <2>2
<1>12. AppendixLines(a) \in Seq(Keyed(K)) /\ Len(AppendixLines(a)) = Len(head) + Len(tail)
       /\ \A i \in 1..Len(tail) : (head \o tail)[Len(head) + i] = tail[i]
  <2>1. head \in Seq(Keyed(K)) /\ tail \in Seq(Keyed(K))
    BY <1>8, <1>11
  <2>2. /\ head \o tail \in Seq(Keyed(K)) /\ Len(head \o tail) = Len(head) + Len(tail)
        /\ \A i \in 1..Len(tail) : (head \o tail)[Len(head) + i] = tail[i]
    BY ONLY <2>1, Concat
  <2> QED BY <1>1, <2>2
<1>17. \A i \in 1..Len(AppendixLines(a)) :
         AppendixLines(a)[i][1] = "indent" /\ Len(AppendixLines(a)[i]) = 3 =>
           n > AppendixMaxLines /\ AppendixLines(a)[i] = more
  <2> SUFFICES ASSUME NEW i \in 1..Len(AppendixLines(a)),
                      AppendixLines(a)[i][1] = "indent", Len(AppendixLines(a)[i]) = 3
               PROVE  n > AppendixMaxLines /\ AppendixLines(a)[i] = more
    OBVIOUS
  <2>1. head \in Seq(Keyed(K)) /\ tail \in Seq(Keyed(K))
    BY <1>8, <1>11
  <2>2. /\ Len(head \o tail) = Len(head) + Len(tail)
        /\ \A h \in 1..Len(head) : (head \o tail)[h] = head[h]
        /\ \A h \in 1..Len(tail) : (head \o tail)[Len(head) + h] = tail[h]
    BY ONLY <2>1, Concat
  <2>3. i \notin 1..m
    BY <1>1, <1>8, <1>16, <2>2
  <2>4. n > AppendixMaxLines
    <3>1. ASSUME tail = <<>> PROVE FALSE
      <4>1. Len(tail) = 0
        BY <3>1
      <4> QED BY <1>5, <1>8, <1>12, <2>3, <4>1
    <3> QED BY <1>10, <3>1
  <2>5. tail = <<more>> /\ Len(tail) = 1 /\ tail[1] = more
    BY <1>10, <2>4
  <2>6. i = Len(head) + 1
    BY <1>5, <1>8, <1>12, <2>3, <2>5
  <2> QED BY <1>1, <2>2, <2>4, <2>5, <2>6
<1>13. n > AppendixMaxLines => \E i \in 1..Len(AppendixLines(a)) : AppendixLines(a)[i] = more
  <2> SUFFICES ASSUME n > AppendixMaxLines
               PROVE  \E i \in 1..Len(AppendixLines(a)) : AppendixLines(a)[i] = more
    OBVIOUS
  <2>1. tail = <<more>> /\ Len(tail) = 1 /\ tail[1] = more
    BY <1>10
  <2>2. Len(head) + 1 \in 1..Len(AppendixLines(a)) /\ AppendixLines(a)[Len(head) + 1] = more
    BY <1>1, <1>8, <1>12, <2>1
  <2> QED BY <2>2
<1>14. Len(Among(AppendixLines(a), S)) = IF lines # <<>> THEN 1 ELSE 0
  <2>1. Keyed({"indent"}) \cap S = {}
    BY <1>3 DEF Keyed
  <2>2. Among(tail, S) = <<>>
    BY <1>11, <2>1, AmongNone
  <2>3. Keyed(K) \in SUBSET Line
    BY DEF Keyed
  <2>4. Among(head \o tail, S) = Among(head, S) \o Among(tail, S)
    BY <1>8, <1>11, AmongConcat
  <2>5. Among(head, S) \in Seq(Keyed(K))
    BY <1>8, AmongType
  <2>6. Among(AppendixLines(a), S) = Among(head, S)
    BY <1>1, <2>2, <2>4, <2>5
  <2>7. CASE lines = <<>>
    <3>1. head = <<>>
      BY <1>5, <1>8, <2>7
    <3> QED BY <2>6, <2>7, <3>1, AmongEmpty
  <2>8. CASE lines # <<>>
    <3>1. m >= 1
      BY <1>2, <1>5, <2>8 DEF Line
    <3> DEFINE rest == [i \in 1..(m - 1) |-> head[i + 1]]
    <3>2. \A i \in 1..(m - 1) : i + 1 \in 1..m /\ head[i + 1] \in Keyed({"indent"})
      BY <1>7, <3>1 DEF Keyed
    <3>3. rest \in Seq(Keyed({"indent"})) /\ Len(rest) = m - 1
      BY <3>1, <3>2
    <3>4. head[1] \in Keyed(K) /\ head[1] \in S
      <4>1. 1 \in 1..m /\ (IF 1 = 1 THEN "appendix" ELSE "indent") = "appendix"
        BY <3>1
      <4>2. head[1] \in Keyed(K) /\ head[1] \in Keyed({"appendix"})
        BY <1>7, <4>1
      <4> QED BY <4>2 DEF Keyed
    <3> HIDE DEF S
    <3>5. rest \in Seq(Keyed(K))
      BY <1>8, <3>1, <3>2
    <3>6. head = <<head[1]>> \o rest
      <4>1. <<head[1]>> \in Seq(Keyed(K)) /\ Len(<<head[1]>>) = 1 /\ <<head[1]>>[1] = head[1]
        BY <3>4
      <4>2. \A i \in 1..(m - 1) : rest[i] = head[i + 1]
        OBVIOUS
      <4> HIDE DEF rest
      <4>3. /\ <<head[1]>> \o rest \in Seq(Keyed(K)) /\ Len(<<head[1]>> \o rest) = m
            /\ (<<head[1]>> \o rest)[1] = head[1]
            /\ \A i \in 1..(m - 1) : (<<head[1]>> \o rest)[1 + i] = head[i + 1]
        BY <3>1, <3>3, <3>5, <4>1, <4>2
      <4>4. \A i \in 1..m : (<<head[1]>> \o rest)[i] = head[i]
        <5> SUFFICES ASSUME NEW i \in 1..m PROVE (<<head[1]>> \o rest)[i] = head[i]
          OBVIOUS
        <5>1. i = 1 \/ (i - 1 \in 1..(m - 1) /\ 1 + (i - 1) = i /\ (i - 1) + 1 = i)
          BY <3>1
        <5> QED BY <4>3, <5>1
      <4> QED BY <1>8, <4>3, <4>4, SeqEqual
    <3> HIDE DEF rest
    <3>7. Among(head, S) = Among(<<head[1]>>, S) \o Among(rest, S)
      <4>1. PICK first \in Seq(Keyed(K)) : first = <<head[1]>>
        BY <3>4, OneKeyed
      <4>2. Among(first \o rest, S) = Among(first, S) \o Among(rest, S)
        BY <3>5, AmongConcat
      <4> QED BY <3>6, <4>1, <4>2
    <3>8. Among(rest, S) = <<>>
      BY <2>1, <3>3, AmongNone
    <3>9. Among(<<head[1]>>, S) = <<head[1]>>
      <4>1. {head[1]} \subseteq S /\ <<head[1]>> \in Seq({head[1]})
        BY <3>4
      <4> QED BY <4>1, AmongAll
    <3>10. Among(head, S) = <<head[1]>>
      BY <3>7, <3>8, <3>9
    <3> QED BY <2>6, <2>8, <3>10
  <2> QED BY <2>7, <2>8
<1> QED BY <1>12, <1>13, <1>14, <1>17 DEF lines, more, K

-----------------------------------------------------------------------------
\* The text form, section by section.

\* The fault and its causes, as they are when a form is written.
Collected == FaultInv /\ causes \in Seq(Nodes)

LEMMA OrderIs ==
  /\ Len(Order) = 14 /\ DOMAIN Order = 1..14
  /\ Order[1] = {"report"} /\ Order[2] = {"error"} /\ Order[3] = {"category"}
  /\ Order[4] = {"location"} /\ Order[5] = {"source"} /\ Order[6] = {"scope"}
  /\ Order[7] = {"attachment"} /\ Order[8] = CauseKeys /\ Order[9] = {"trace_id"}
  /\ Order[10] = {"fingerprint"} /\ Order[11] = {"advice"} /\ Order[12] = {"action"}
  /\ Order[13] = {"hint"} /\ Order[14] = {"appendix", "indent"}
BY DEF Order

LEMMA OrderApart ==
  ASSUME NEW j \in 1..14, NEW k \in 1..14, j # k
  PROVE  Order[j] \cap Order[k] = {}
<1> DEFINE rank == [w \in Labels |->
      CASE w = "report" -> 1 [] w = "error" -> 2 [] w = "category" -> 3 [] w = "location" -> 4
        [] w = "source" -> 5 [] w = "scope" -> 6 [] w = "attachment" -> 7
        [] w \in CauseKeys -> 8 [] w = "trace_id" -> 9 [] w = "fingerprint" -> 10
        [] w = "advice" -> 11 [] w = "action" -> 12 [] w = "hint" -> 13
        [] OTHER -> 14]
<1>1. ASSUME NEW i \in 1..14, NEW w \in Order[i] PROVE w \in Labels /\ rank[w] = i
  <2>1. CASE i \in 1..7
    BY <2>1, OrderIs DEF Labels, CauseKeys
  <2>2. CASE i \in 8..14
    BY <2>2, OrderIs DEF Labels, CauseKeys
  <2> QED BY <2>1, <2>2
<1> HIDE DEF rank
<1> QED BY <1>1

\* The appendix, block by block.
AppendixBlocks == [i \in DOMAIN Appendix |-> AppendixLines(Appendix[i])]

LEMMA AppendixKeyed ==
  ASSUME FaultInv
  PROVE  /\ Each(Appendix, AppendixLines) = FlattenSeq(AppendixBlocks)
         /\ AppendixBlocks \in Seq(Seq(Keyed({"appendix", "indent"})))
         /\ Len(AppendixBlocks) = Len(Appendix)
         /\ Each(Appendix, AppendixLines) \in Seq(Keyed({"appendix", "indent"}))
<1>1. Appendix \in Seq({a \in Visible : a.key # Blank})
  BY AttachmentsFound
<1>2. /\ DOMAIN Appendix = 1..Len(Appendix) /\ Len(Appendix) \in Nat
      /\ \A i \in 1..Len(Appendix) : Appendix[i] \in Visible /\ Appendix[i].key # Blank
  BY <1>1
<1>3. \A i \in 1..Len(Appendix) :
        AppendixLines(Appendix[i]) \in Seq(Keyed({"appendix", "indent"}))
  BY <1>2, AppendixBlock
<1>4. /\ AppendixBlocks \in Seq(Seq(Keyed({"appendix", "indent"})))
      /\ Len(AppendixBlocks) = Len(Appendix)
  BY <1>2, <1>3 DEF AppendixBlocks
<1>5. Each(Appendix, AppendixLines) = FlattenSeq(AppendixBlocks)
  BY DEF Each, AppendixBlocks
<1> QED BY <1>4, <1>5, FlattenType

\* Sections of at most one line.
Single == (1..13) \ {7, 8}

LEMMA TextSectionsKeyed ==
  ASSUME Collected, AdviceIsOneLine
  PROVE  /\ Len(TextSections) = 14
         /\ \A k \in 1..14 : TextSections[k] \in Seq(Keyed(Order[k]))
         /\ \A k \in Single : TextSections[k] \in Lone(Order[k])
<1> DEFINE s1 == <<<<"report", "fast-observe/1">>>>
           s2 == Escaped(<<"error">> \o Heading(Root), Root.says)
           s3 == Section(FrameCategory # Blank, <<<<"category", FrameCategory, Policy[FrameCategory]>>>>)
           s4 == <<<<"location", Root.at>>>>
           s5 == Section(SourceLine # <<>>, Escaped(<<"source">>, SourceLine))
           s6 == Each(FindKeyed("scope_path"), ScopeLine)
           s7 == Each(Inline, AttachmentLine)
           s8 == [n \in DOMAIN causes |-> CauseLine(n)]
           s9 == Each(FindKeyed("trace_id"), LAMBDA a : Escaped(<<"trace_id">>, a.shows))
           s10 == <<<<"fingerprint">> \o Fingerprint>>
           s11 == Section(RootEntry.advice # <<>>, Unescaped(<<"advice">>, RootEntry.advice))
           s12 == Section(FrameCategory # Blank, Escaped(<<"action">>, BaseAction))
           s13 == Section(Root.code # <<>>, <<<<"hint", "doctor", ToString(Root.code)>>>>)
           s14 == Each(Appendix, AppendixLines)
<1>0. FaultInv /\ causes \in Seq(Nodes)
  BY DEF Collected
<1>1. s1 \in Lone({"report"}) /\ s4 \in Lone({"location"})
  <2>1. /\ "report" \in {"report"} \cap Labels /\ "location" \in {"location"} \cap Labels
        /\ "fast-observe/1" \in PublicWords /\ <<>> \in Line
    BY OthersSay DEF Labels, Line
  <2>2. Root.at \in PublicWords
    BY <1>0, RootSays, ErrorsSay
  <2>3. <<"report", "fast-observe/1">> \in Keyed({"report"})
    BY <2>1, LabelLine
  <2>4. <<"location", Root.at>> \in Keyed({"location"})
    BY <2>1, <2>2, LabelLine
  <2> QED BY <2>3, <2>4, LoneIs
<1>2. s2 \in Lone({"error"}) /\ s3 \in Lone({"category"}) /\ s5 \in Lone({"source"})
  BY <1>0, ErrorKeyed, CategoryKeyed, SourceKeyed
<1>3. s6 \in Lone({"scope"})
  BY <1>0, ScopeKeyed
<1>4. s7 \in Seq(Keyed({"attachment"})) /\ s8 \in Seq(Keyed(CauseKeys))
  BY <1>0, AttachmentKeyed, CausesKeyed
<1>5. s9 \in Lone({"trace_id"}) /\ s10 \in Lone({"fingerprint"})
  BY <1>0, TraceKeyed, FingerprintKeyed
<1>6. s11 \in Lone({"advice"}) /\ s12 \in Lone({"action"}) /\ s13 \in Lone({"hint"})
  BY <1>0, AdviceKeyed, ActionKeyed, HintKeyed
<1>7. s14 \in Seq(Keyed({"appendix", "indent"}))
  BY <1>0, AppendixKeyed
<1>8. TextSections = <<s1, s2, s3, s4, s5, s6, s7, s8, s9, s10, s11, s12, s13, s14>>
  BY DEF TextSections
<1> HIDE DEF s1, s2, s3, s4, s5, s6, s7, s8, s9, s10, s11, s12, s13, s14
<1>9. /\ Len(TextSections) = 14
      /\ TextSections[1] = s1 /\ TextSections[2] = s2 /\ TextSections[3] = s3
      /\ TextSections[4] = s4 /\ TextSections[5] = s5 /\ TextSections[6] = s6
      /\ TextSections[7] = s7 /\ TextSections[8] = s8 /\ TextSections[9] = s9
      /\ TextSections[10] = s10 /\ TextSections[11] = s11 /\ TextSections[12] = s12
      /\ TextSections[13] = s13 /\ TextSections[14] = s14
  BY <1>8
<1>10. \A k \in Single : TextSections[k] \in Lone(Order[k])
  <2> SUFFICES ASSUME NEW k \in Single PROVE TextSections[k] \in Lone(Order[k])
    OBVIOUS
  <2>1. /\ TextSections[1] \in Lone(Order[1]) /\ TextSections[2] \in Lone(Order[2])
        /\ TextSections[3] \in Lone(Order[3]) /\ TextSections[4] \in Lone(Order[4])
        /\ TextSections[5] \in Lone(Order[5]) /\ TextSections[6] \in Lone(Order[6])
    BY <1>1, <1>2, <1>3, <1>9, OrderIs
  <2>2. /\ TextSections[9] \in Lone(Order[9]) /\ TextSections[10] \in Lone(Order[10])
        /\ TextSections[11] \in Lone(Order[11]) /\ TextSections[12] \in Lone(Order[12])
        /\ TextSections[13] \in Lone(Order[13])
    BY <1>5, <1>6, <1>9, OrderIs
  <2>3. k \in {1, 2, 3, 4, 5, 6, 9, 10, 11, 12, 13}
    BY DEF Single
  <2> QED BY <2>1, <2>2, <2>3
<1>11. \A k \in {7, 8, 14} : TextSections[k] \in Seq(Keyed(Order[k]))
  <2>1. /\ TextSections[7] \in Seq(Keyed(Order[7])) /\ TextSections[8] \in Seq(Keyed(Order[8]))
        /\ TextSections[14] \in Seq(Keyed(Order[14]))
    BY <1>4, <1>7, <1>9, OrderIs
  <2> QED BY <2>1
<1>12. \A k \in 1..14 : TextSections[k] \in Seq(Keyed(Order[k]))
  BY <1>10, <1>11, LoneIs DEF Single
<1> QED BY <1>9, <1>10, <1>12

LEMMA LongSectionsAre ==
  /\ TextSections[7] = Each(Inline, AttachmentLine)
  /\ TextSections[8] = [n \in DOMAIN causes |-> CauseLine(n)]
  /\ TextSections[14] = Each(Appendix, AppendixLines)
BY DEF TextSections

\* The lines of a section are found by their first words.
LEMMA TextRows ==
  ASSUME Collected, AdviceIsOneLine
  PROVE  /\ FlattenSeq(TextSections) \in Seq(Line) /\ TextSections \in Seq(Seq(Line))
         /\ \A k \in 1..14 : Rows(FlattenSeq(TextSections), Order[k]) = TextSections[k]
<1>1. /\ Len(TextSections) = 14
      /\ \A k \in 1..14 : TextSections[k] \in Seq(Keyed(Order[k]))
  BY TextSectionsKeyed
<1>2. \A k \in 1..14 : TextSections[k] \in Seq(Line)
  BY <1>1, MoreValues DEF Keyed
<1>3. TextSections \in Seq(Seq(Line))
  <2>1. TextSections = [k \in 1..14 |-> TextSections[k]]
    BY DEF TextSections
  <2> QED BY <1>2, <2>1, FunctionIsSequence
<1>4. FlattenSeq(TextSections) \in Seq(Line)
  BY <1>3, FlattenType
<1>5. ASSUME NEW k \in 1..14
      PROVE  Rows(FlattenSeq(TextSections), Order[k]) = TextSections[k]
  <2> DEFINE S == {l \in Line : l[1] \in Order[k]}
  <2>1. Rows(FlattenSeq(TextSections), Order[k]) = Among(FlattenSeq(TextSections), S)
    BY <1>4, RowsIs
  <2>2. TextSections[k] \in Seq(Line \cap S)
    <3>1. Keyed(Order[k]) \subseteq Line \cap S
      BY DEF Keyed
    <3> HIDE DEF S
    <3> QED BY <1>1, <3>1, MoreValues
  <2>3. ASSUME NEW j \in 1..14, j # k PROVE TextSections[j] \in Seq(Line \ S)
    <3>1. Order[j] \cap Order[k] = {}
      BY <2>3, OrderApart
    <3>2. Keyed(Order[j]) \subseteq Line \ S
      BY <3>1 DEF Keyed
    <3> HIDE DEF S
    <3> QED BY <1>1, <3>2, MoreValues
  <2> HIDE DEF S
  <2>4. Among(FlattenSeq(TextSections), S) = TextSections[k]
    <3>1. k \in 1..Len(TextSections)
      BY <1>1
    <3>2. \A j \in 1..Len(TextSections) : j # k => TextSections[j] \in Seq(Line \ S)
      BY <1>1, <2>3
    <3> QED BY ONLY <1>3, <2>2, <3>1, <3>2, SectionOf, SMTT(30)
  <2> QED BY <2>1, <2>4
<1> QED BY <1>3, <1>4, <1>5

-----------------------------------------------------------------------------
\* The causes are the frames, in order.

LEMMA CauseLineSays ==
  ASSUME Collected, NEW n \in 1..Len(causes)
  PROVE  /\ CauseLine(n)[1] = CauseLabel(causes[n].kind)
         /\ CauseLine(n)[2] = ToString(n - 1)
         /\ causes[n].error \in Errors
         /\ CauseLine(n) = <<CauseLabel(causes[n].kind), ToString(n - 1)>>
                             \o ((Heading(causes[n].error) \o causes[n].error.says)
                                   \o <<causes[n].error.at>>)
<1> DEFINE e     == causes[n].error
           start == <<CauseLabel(causes[n].kind), ToString(n - 1)>>
<1>1. e \in Errors
  <2>1. causes \in Seq(Nodes)
    BY DEF Collected
  <2>2. causes[n] \in Nodes
    BY <2>1
  <2> QED BY <2>2 DEF Nodes, Errors
<1>2. CauseLine(n) = ((start \o Heading(e)) \o e.says) \o <<e.at>>
  BY DEF CauseLine
<1>3. Heading(e) \in Line /\ e.says \in Line /\ <<e.at>> \in Line
  BY <1>1, HeadingSays, ErrorsSay DEF Line
<1> HIDE DEF e
<1> DEFINE OfAll == PublicWords \cup {CauseLabel(causes[n].kind), ToString(n - 1)}
<1>4. start \in Seq(OfAll) /\ Heading(e) \in Seq(OfAll) /\ e.says \in Seq(OfAll) /\ <<e.at>> \in Seq(OfAll)
  <2>1. PublicWords \subseteq OfAll
    OBVIOUS
  <2>2. start \in Seq(OfAll)
    OBVIOUS
  <2> HIDE DEF start, OfAll
  <2> QED BY <1>3, <2>1, <2>2, MoreValues DEF Line
<1>5. start[1] = CauseLabel(causes[n].kind) /\ start[2] = ToString(n - 1) /\ Len(start) = 2
  OBVIOUS
<1> HIDE DEF start, OfAll
<1>6. \A x, y, z \in Seq(OfAll) : (x \o y) \o z = x \o (y \o z) /\ x \o y \in Seq(OfAll)
  BY ConcatAssociative, ConcatProperties, SMTT(30)
<1>7. CauseLine(n) = start \o ((Heading(e) \o e.says) \o <<e.at>>)
  <2>1. PICK h, s, w \in Seq(OfAll) : h = Heading(e) /\ s = e.says /\ w = <<e.at>>
    BY <1>4
  <2>2. PICK r \in Seq(OfAll) : r = start
    BY <1>4
  <2>3. (r \o h) \o s = r \o (h \o s)
    BY ConcatAssociative
  <2>4. PICK hs \in Seq(OfAll) : hs = h \o s
    BY <1>6
  <2>5. (r \o hs) \o w = r \o (hs \o w)
    BY ConcatAssociative, SMTT(30)
  <2> QED BY <1>2, <2>1, <2>2, <2>3, <2>4, <2>5
<1>8. (Heading(e) \o e.says) \o <<e.at>> \in Seq(OfAll)
  BY <1>4, <1>6
<1>9. CauseLine(n)[1] = start[1] /\ CauseLine(n)[2] = start[2]
  <2>1. \A i \in 1..Len(start) :
          (start \o ((Heading(e) \o e.says) \o <<e.at>>))[i] = start[i]
    <3>1. PICK r \in Seq(OfAll) : r = (Heading(e) \o e.says) \o <<e.at>>
      BY <1>8
    <3>2. \A i \in 1..Len(start) : (start \o r)[i] = start[i]
      BY <1>4, Concat
    <3> QED BY <3>1, <3>2
  <2>2. 1 \in 1..Len(start) /\ 2 \in 1..Len(start)
    BY <1>5
  <2> QED BY <1>7, <2>1, <2>2
<1> QED BY <1>1, <1>5, <1>7, <1>9 DEF e, start

LEMMA CausesTold ==
  ASSUME ReportIInv, AdviceIsOneLine
  PROVE  CausesInOrder
<1> SUFFICES ASSUME Done PROVE CausesInOrder
  BY DEF CausesInOrder
<1>1. rendering = "done" /\ rendering # "building"
  BY DEF Done
<1>2. /\ Collected /\ Walking(DOMAIN tree, toCollect) /\ toCollect = <<>>
      /\ Len(causes) = Cardinality(Visited(DOMAIN tree, toCollect))
      /\ \A v \in Visited(DOMAIN tree, toCollect) :
           Place(DOMAIN tree, v) \in 1..Len(causes) /\ causes[Place(DOMAIN tree, v)] = tree[v]
      /\ text = FlattenSeq(TextSections)
  BY <1>1 DEF ReportIInv, CollectInv, WrittenInv, Collected
<1>3. Visited(DOMAIN tree, toCollect) = DOMAIN tree
  <2>1. \A i \in 1..Len(<<>>) : FALSE
    OBVIOUS
  <2> QED BY <1>2, <2>1 DEF Visited, Waiting
<1> DEFINE Told(p) == 1 + Cardinality({q \in DOMAIN tree : Before(q, p)})
           lines   == Rows(text, CauseKeys)
<1>4. \A p : Told(p) = Place(DOMAIN tree, p)
  BY DEF Place, Earlier
<1>5. lines = [n \in DOMAIN causes |-> CauseLine(n)]
  <2>1. Rows(text, Order[8]) = TextSections[8]
    BY <1>2, TextRows
  <2> QED BY <2>1, LongSectionsAre, OrderIs
<1> HIDE DEF Told, lines
<1>6. DOMAIN causes = 1..Len(causes) /\ Len(causes) \in Nat
  BY <1>2 DEF Collected
<1>7. Len(lines) = Cardinality(DOMAIN tree)
  BY <1>2, <1>3, <1>5, <1>6
<1>8. ASSUME NEW p \in DOMAIN tree
      PROVE  /\ causes[Told(p)] = tree[p]
             /\ lines[Told(p)][1] = CauseLabel(tree[p].kind)
             /\ lines[Told(p)][2] = ToString(Told(p) - 1)
  <2>1. Told(p) \in 1..Len(causes) /\ causes[Told(p)] = tree[p]
    BY <1>2, <1>3, <1>4
  <2>2. lines[Told(p)] = CauseLine(Told(p))
    BY <1>5, <1>6, <2>1
  <2>3. /\ CauseLine(Told(p))[1] = CauseLabel(causes[Told(p)].kind)
        /\ CauseLine(Told(p))[2] = ToString(Told(p) - 1)
    BY <1>2, <2>1, CauseLineSays
  <2> QED BY <2>1, <2>2, <2>3
<1> QED BY <1>7, <1>8 DEF CausesInOrder, Told, lines

\* Depth first, parents before children and branches in order, every frame once and
\* under its number (ReportData::collect and write_cause_line), for every tree: when
\* no entry has advice of several lines, which write_report leaves unescaped.
THEOREM CausesAreTold == AdviceIsOneLine => (ReportSpec => []CausesInOrder)
<1> SUFFICES ASSUME AdviceIsOneLine PROVE ReportSpec => []CausesInOrder
  OBVIOUS
<1>1. ReportIInv => CausesInOrder
  BY CausesTold
<1> QED BY <1>1, ReportInvariant, PTL

-----------------------------------------------------------------------------
\* Each line of the text is one fact of the format.

\* What is not to be shown has no word of what reports say.
SecretsApart ==
  \A a \in AttachmentMenu :
    a.placement \in {"opaque", "hidden"} => ToSet(a.shows) \cap PublicWords = {}

LEMMA LinesInOrder ==
  ASSUME Collected, AdviceIsOneLine, NEW t, t = FlattenSeq(TextSections)
  PROVE  LET rank == [i \in DOMAIN t |-> {k \in DOMAIN Order : t[i][1] \in Order[k]}]
         IN  /\ \A i \in DOMAIN t : Cardinality(rank[i]) = 1
             /\ \A i \in 1..(Len(t) - 1) :
                  \E a \in rank[i], b \in rank[i + 1] :
                    a < b \/ (a = b /\ t[i][1] \in Repeated)
<1> DEFINE rank == [i \in DOMAIN t |-> {k \in DOMAIN Order : t[i][1] \in Order[k]}]
<1>1. t \in Seq(Line) /\ TextSections \in Seq(Seq(Line))
  BY TextRows
<1>2. PICK where : Origin(TextSections, where)
  BY <1>1, FlattenOrder
<1>3. /\ DOMAIN t = 1..Len(t) /\ Len(t) \in Nat /\ DOMAIN Order = 1..14
      /\ Len(TextSections) = 14
  <2>1. DOMAIN t = 1..Len(t) /\ Len(t) \in Nat
    BY <1>1
  <2>2. Len(TextSections) = 14
    BY TextSectionsKeyed
  <2> QED BY <2>1, <2>2, OrderIs
<1>4. /\ where \in [1..Len(t) -> 1..14]
      /\ \A i \in 1..Len(t) : \E j \in 1..Len(TextSections[where[i]]) :
           t[i] = TextSections[where[i]][j]
      /\ \A i \in 1..(Len(t) - 1) :
           \/ where[i] < where[i + 1]
           \/ where[i] = where[i + 1] /\ Len(TextSections[where[i]]) >= 2
  BY <1>2, <1>3 DEF Origin
<1>5. ASSUME NEW i \in 1..Len(t)
      PROVE  t[i][1] \in Order[where[i]] /\ rank[i] = {where[i]} /\ where[i] \in 1..14
  <2>1. where[i] \in 1..14
    BY <1>4
  <2>2. PICK j \in 1..Len(TextSections[where[i]]) : t[i] = TextSections[where[i]][j]
    BY <1>4
  <2>3. TextSections[where[i]] \in Seq(Keyed(Order[where[i]]))
    BY <2>1, TextSectionsKeyed
  <2>4. t[i] \in Keyed(Order[where[i]])
    BY <2>2, <2>3
  <2>5. t[i][1] \in Order[where[i]]
    BY <2>4 DEF Keyed
  <2>6. \A k \in 1..14 : t[i][1] \in Order[k] => k = where[i]
    BY <2>1, <2>5, OrderApart
  <2>7. rank[i] = {k \in 1..14 : t[i][1] \in Order[k]}
    BY <1>3
  <2> HIDE DEF rank
  <2> QED BY <2>1, <2>5, <2>6, <2>7
<1> HIDE DEF rank
<1>6. \A i \in DOMAIN t : Cardinality(rank[i]) = 1
  <2> SUFFICES ASSUME NEW i \in 1..Len(t) PROVE Cardinality(rank[i]) = 1
    BY <1>3
  <2>1. rank[i] = {where[i]}
    BY <1>5
  <2>2. Cardinality({where[i]}) = 1
    BY FS_Singleton
  <2> QED BY <2>1, <2>2
<1>7. ASSUME NEW i \in 1..(Len(t) - 1)
      PROVE  \E a \in rank[i], b \in rank[i + 1] : a < b \/ (a = b /\ t[i][1] \in Repeated)
  <2>1. i \in 1..Len(t) /\ i + 1 \in 1..Len(t)
    BY <1>3
  <2>2. rank[i] = {where[i]} /\ rank[i + 1] = {where[i + 1]} /\ t[i][1] \in Order[where[i]]
        /\ where[i] \in 1..14
    BY <1>5, <2>1
  <2>3. CASE where[i] < where[i + 1]
    BY <2>2, <2>3
  <2>4. CASE where[i] = where[i + 1] /\ Len(TextSections[where[i]]) >= 2
    <3>1. where[i] \notin Single
      <4> SUFFICES ASSUME where[i] \in Single PROVE FALSE
        OBVIOUS
      <4>1. TextSections[where[i]] \in Lone(Order[where[i]])
        BY TextSectionsKeyed
      <4>2. Len(TextSections[where[i]]) <= 1 /\ Len(TextSections[where[i]]) \in Nat
        BY <4>1 DEF Lone
      <4> QED BY <2>4, <4>2
    <3>2. where[i] \in {7, 8, 14}
      BY <2>2, <3>1 DEF Single
    <3>3. t[i][1] \in Repeated
      BY <2>2, <3>2, OrderIs DEF Repeated
    <3> QED BY <2>2, <2>4, <3>3
  <2> QED BY <1>4, <2>3, <2>4
<1> QED BY <1>6, <1>7 DEF rank

\* The lines of the appendix with one of its two keys.
LEMMA AppendixRows ==
  ASSUME Collected, AdviceIsOneLine, NEW t, t = FlattenSeq(TextSections),
         NEW w \in {"appendix", "indent"}, NEW S, S = {l \in Line : l[1] \in {w}}
  PROVE  /\ With(t, w) = Among(t, S)
         /\ Among(t, S) = FlattenSeq([i \in 1..Len(Appendix) |-> Among(AppendixBlocks[i], S)])
<1>1. t \in Seq(Line) /\ TextSections \in Seq(Seq(Line)) /\ Len(TextSections) = 14
  BY TextRows, TextSectionsKeyed
<1>2. With(t, w) = Among(t, S)
  BY <1>1, RowsIs DEF With
<1>3. ASSUME NEW k \in 1..14, k # 14 PROVE Among(TextSections[k], S) = <<>>
  <2>1. Order[k] \cap Order[14] = {}
    BY <1>3, OrderApart
  <2>2. w \in Order[14]
    BY OrderIs
  <2>3. Keyed(Order[k]) \cap S = {}
    BY <2>1, <2>2 DEF Keyed
  <2>4. PICK s \in Seq(Keyed(Order[k])) : s = TextSections[k]
    BY TextSectionsKeyed
  <2>5. Among(s, S) = <<>>
    BY <2>3, AmongNone
  <2> QED BY <2>4, <2>5
<1>7. Among(t, S) = Among(TextSections[14], S)
  <2>1. PICK ss \in Seq(Seq(Line)) : ss = TextSections
    BY <1>1
  <2>5. Len(ss) = 14
    BY <2>1, TextSectionsKeyed
  <2>4. 14 \in 1..Len(ss)
    BY <2>5
  <2>2. ASSUME NEW j \in 1..Len(ss), j # 14 PROVE Among(ss[j], S) = <<>>
    <3>1. j \in 1..14
      BY <2>5
    <3> QED BY <1>3, <2>1, <2>2, <3>1
  <2>3. Among(FlattenSeq(ss), S) = Among(ss[14], S)
    BY <2>2, <2>4, SelectedFrom, ZenonT(40)
  <2> QED BY <2>1, <2>3
<1>8. /\ TextSections[14] = FlattenSeq(AppendixBlocks)
      /\ AppendixBlocks \in Seq(Seq(Keyed({"appendix", "indent"})))
      /\ Len(AppendixBlocks) = Len(Appendix)
  BY LongSectionsAre, AppendixKeyed DEF Collected
<1>9. Among(FlattenSeq(AppendixBlocks), S)
        = FlattenSeq([i \in 1..Len(AppendixBlocks) |-> Among(AppendixBlocks[i], S)])
  BY <1>8, AmongFlatten
<1> QED BY <1>2, <1>7, <1>8, <1>9

\* Each appendix that has a line is listed once.
LEMMA AppendixListed ==
  ASSUME Collected, AdviceIsOneLine, NEW t, t = FlattenSeq(TextSections),
         NEW appended, appended = [i \in DOMAIN Appendix |-> TrimEnd(Appendix[i].shows)]
  PROVE  Len(With(t, "appendix")) = Len(Select(appended, LAMBDA u : u # <<>>))
<1> DEFINE S == {l \in Line : l[1] \in {"appendix"}}
           T == {u \in Line : u # <<>>}
           kept == [i \in 1..Len(Appendix) |-> Among(AppendixBlocks[i], S)]
<1>1. With(t, "appendix") = FlattenSeq(kept)
  <2> HIDE DEF S
  <2>1. "appendix" \in {"appendix", "indent"} /\ S = {l \in Line : l[1] \in {"appendix"}}
    BY DEF S
  <2> QED BY ONLY AppendixRows, <2>1, Collected, AdviceIsOneLine, t = FlattenSeq(TextSections)
<1>2. Appendix \in Seq({a \in Visible : a.key # Blank})
  BY AttachmentsFound DEF Collected
<1>3. /\ DOMAIN Appendix = 1..Len(Appendix) /\ Len(Appendix) \in Nat
      /\ \A i \in 1..Len(Appendix) : Appendix[i] \in Visible /\ Appendix[i].key # Blank
  BY <1>2
<1>4. ASSUME NEW i \in 1..Len(Appendix)
      PROVE  /\ AppendixLines(Appendix[i]) \in Seq(Line)
             /\ Len(Among(AppendixLines(Appendix[i]), S))
                  = IF TrimEnd(Appendix[i].shows) # <<>> THEN 1 ELSE 0
             /\ TrimEnd(Appendix[i].shows) \in Line
  <2>1. Appendix[i] \in Visible /\ Appendix[i].key # Blank
    BY <1>3
  <2>2. AppendixLines(Appendix[i]) \in Seq(Keyed({"appendix", "indent"}))
    BY <2>1, AppendixBlock
  <2>3. Keyed({"appendix", "indent"}) \subseteq Line
    BY DEF Keyed
  <2>4. Appendix[i].shows \in Seq(PublicWords)
    BY <2>1, AttachmentsSay DEF Line
  <2>5. TrimEnd(Appendix[i].shows) \in Line
    BY <2>4, TrimEndIs DEF Line
  <2> QED BY <2>1, <2>2, <2>3, <2>5, AppendixBlock, MoreValues
<1>5. \A i \in 1..Len(Appendix) : AppendixBlocks[i] = AppendixLines(Appendix[i])
  BY <1>3 DEF AppendixBlocks
<1>6. \A i \in 1..Len(Appendix) : kept[i] = Among(AppendixLines(Appendix[i]), S)
  BY <1>5
<1>7. kept \in Seq(Seq(Line)) /\ Len(kept) = Len(Appendix)
  <2>1. \A i \in 1..Len(Appendix) : kept[i] \in Seq(Line)
    BY <1>4, <1>6, AmongType
  <2>2. kept = [i \in 1..Len(Appendix) |-> kept[i]]
    BY <1>3
  <2> HIDE DEF kept
  <2> QED BY <1>3, <2>1, <2>2, FunctionIsSequence
<1>8. appended \in Seq(Line) /\ Len(appended) = Len(Appendix)
      /\ \A i \in 1..Len(Appendix) : appended[i] = TrimEnd(Appendix[i].shows)
  <2>1. \A i \in 1..Len(Appendix) : appended[i] = TrimEnd(Appendix[i].shows)
    BY <1>3
  <2>2. appended = [i \in 1..Len(Appendix) |-> appended[i]]
    BY <1>3
  <2> QED BY <1>3, <1>4, <2>1, <2>2, FunctionIsSequence
<1> HIDE DEF S, T, kept
<1>9. \A i \in 1..Len(appended) : Len(kept[i]) = IF appended[i] \in T THEN 1 ELSE 0
  BY <1>4, <1>6, <1>8 DEF T
<1>10. Len(FlattenSeq(kept)) = Len(Among(appended, T))
  <2>1. Len(kept) = Len(appended) /\ kept \in Seq(Seq(Line)) /\ appended \in Seq(Line)
    BY <1>7, <1>8
  <2> QED BY ONLY <1>9, <2>1, FlattenCounts
<1>11. Select(appended, LAMBDA u : u # <<>>) = Among(appended, T)
  BY <1>8, NonEmptyIs DEF T
<1> QED BY <1>1, <1>10, <1>11

\* Where an appendix is cut, the text says by how much.
LEMMA AppendixCut ==
  ASSUME Collected, AdviceIsOneLine, NEW t, t = FlattenSeq(TextSections),
         NEW a \in ToSet(Appendix), Len(TrimEnd(a.shows)) > AppendixMaxLines
  PROVE  \E i \in DOMAIN With(t, "indent") :
           With(t, "indent")[i]
             = <<"indent", "more", ToString(Len(TrimEnd(a.shows)) - AppendixMaxLines)>>
<1> DEFINE S    == {l \in Line : l[1] \in {"indent"}}
           more == <<"indent", "more", ToString(Len(TrimEnd(a.shows)) - AppendixMaxLines)>>
<1>1. Appendix \in Seq({b \in Visible : b.key # Blank})
  BY AttachmentsFound DEF Collected
<1>2. PICK k \in 1..Len(Appendix) : a = Appendix[k]
  <2>1. DOMAIN Appendix = 1..Len(Appendix)
    BY <1>1
  <2> QED BY <2>1 DEF ToSet
<1>3. a \in Visible /\ a.key # Blank
  BY <1>1, <1>2
<1>4. PICK i \in 1..Len(AppendixLines(a)) : AppendixLines(a)[i] = more
  BY <1>3, AppendixBlock
<1>5. /\ AppendixBlocks \in Seq(Seq(Keyed({"appendix", "indent"})))
      /\ Len(AppendixBlocks) = Len(Appendix) /\ AppendixBlocks[k] = AppendixLines(a)
      /\ TextSections[14] = FlattenSeq(AppendixBlocks)
  <2>1. DOMAIN Appendix = 1..Len(Appendix)
    BY <1>1
  <2>2. AppendixBlocks[k] = AppendixLines(a)
    BY <1>2, <2>1 DEF AppendixBlocks
  <2> QED BY <2>2, AppendixKeyed, LongSectionsAre DEF Collected
<1>6. PICK j \in 1..Len(TextSections[14]) : TextSections[14][j] = more
  <2>1. PICK bs \in Seq(Seq(Keyed({"appendix", "indent"}))) : bs = AppendixBlocks
    BY <1>5
  <2>2. k \in 1..Len(bs) /\ i \in 1..Len(bs[k]) /\ bs[k][i] = more
    BY <1>2, <1>4, <1>5, <2>1
  <2> HIDE DEF more
  <2>3. \E j \in 1..Len(FlattenSeq(bs)) : FlattenSeq(bs)[j] = bs[k][i]
    BY <2>2, FlattenHasAll
  <2> QED BY <1>5, <2>1, <2>2, <2>3
<1>7. t \in Seq(Line) /\ TextSections \in Seq(Seq(Line)) /\ 14 \in 1..Len(TextSections)
  <2>1. Len(TextSections) = 14
    BY TextSectionsKeyed
  <2> QED BY <2>1, TextRows
<1>8. PICK h \in 1..Len(t) : t[h] = more
  <2>1. PICK ss \in Seq(Seq(Line)) : ss = TextSections
    BY <1>7
  <2>2. 14 \in 1..Len(ss) /\ j \in 1..Len(ss[14]) /\ ss[14][j] = more
    BY <1>6, <1>7, <2>1
  <2> HIDE DEF more
  <2>3. \E h \in 1..Len(FlattenSeq(ss)) : FlattenSeq(ss)[h] = ss[14][j]
    BY <2>2, FlattenHasAll
  <2> QED BY <2>1, <2>2, <2>3
<1>9. more \in ToSet(t) /\ more \in S
  <2>1. DOMAIN t = 1..Len(t) /\ t[h] \in Line
    BY <1>7
  <2>2. more[1] = "indent"
    OBVIOUS
  <2> HIDE DEF more
  <2> QED BY <1>8, <2>1, <2>2 DEF ToSet
<1> HIDE DEF S, more
<1>10. With(t, "indent") = Among(t, S)
  <2>1. "indent" \in {"appendix", "indent"} /\ S = {l \in Line : l[1] \in {"indent"}}
    BY DEF S
  <2> QED BY ONLY AppendixRows, <2>1, Collected, AdviceIsOneLine, t = FlattenSeq(TextSections)
<1>11. more \in ToSet(With(t, "indent"))
  BY <1>7, <1>9, <1>10, AmongMembers
<1> QED BY <1>11 DEF ToSet, more

\* Only there.
LEMMA OnlyCutsTold ==
  ASSUME Collected, AdviceIsOneLine, NEW t, t = FlattenSeq(TextSections),
         NEW l \in ToSet(With(t, "indent")), Len(l) = 3
  PROVE  \E a \in ToSet(Appendix) :
           /\ Len(TrimEnd(a.shows)) > AppendixMaxLines
           /\ l = <<"indent", "more", ToString(Len(TrimEnd(a.shows)) - AppendixMaxLines)>>
<1> DEFINE S       == {x \in Line : x[1] \in {"indent"}}
           Says(x) == \E a \in ToSet(Appendix) :
                        /\ Len(TrimEnd(a.shows)) > AppendixMaxLines
                        /\ x = <<"indent", "more", ToString(Len(TrimEnd(a.shows)) - AppendixMaxLines)>>
           G       == {x \in Line : x[1] = "indent" /\ Len(x) = 3 => Says(x)}
<1>1. Appendix \in Seq({b \in Visible : b.key # Blank})
  BY AttachmentsFound DEF Collected
<1>2. /\ AppendixBlocks \in Seq(Seq(Keyed({"appendix", "indent"})))
      /\ Len(AppendixBlocks) = Len(Appendix)
  BY AppendixKeyed DEF Collected
<1>3. PICK n \in Nat : n = Len(Appendix) /\ DOMAIN Appendix = 1..n
  BY <1>1
<1> HIDE DEF Says
<1>4. ASSUME NEW k \in 1..n PROVE AppendixBlocks[k] \in Seq(G)
  <2>1. PICK a : a = Appendix[k]
    OBVIOUS
  <2>2. a \in Visible /\ a.key # Blank /\ a \in ToSet(Appendix)
    BY <1>1, <1>3, <2>1 DEF ToSet
  <2>3. AppendixBlocks[k] = AppendixLines(a)
    BY <1>3, <2>1 DEF AppendixBlocks
  <2>4. PICK b \in Seq(Keyed({"appendix", "indent"})) : b = AppendixBlocks[k]
    BY <1>2, <1>3
  <2>5. ASSUME NEW i \in 1..Len(b) PROVE b[i] \in G
    <3>1. b[i] \in Line
      BY <2>4 DEF Keyed
    <3>2. ASSUME b[i][1] = "indent", Len(b[i]) = 3 PROVE Says(b[i])
      <4>1. /\ Len(TrimEnd(a.shows)) > AppendixMaxLines
            /\ b[i] = <<"indent", "more", ToString(Len(TrimEnd(a.shows)) - AppendixMaxLines)>>
        BY <2>2, <2>3, <2>4, <3>2, AppendixBlock
      <4> QED BY <2>2, <4>1 DEF Says
    <3> QED BY <3>1, <3>2
  <2> HIDE DEF G
  <2> QED BY <2>4, <2>5
<1> HIDE DEF G, S
<1>5. "indent" \in {"appendix", "indent"} /\ S = {x \in Line : x[1] \in {"indent"}}
  BY DEF S
<1>6. /\ With(t, "indent") = Among(t, S)
      /\ Among(t, S) = FlattenSeq([i \in 1..Len(Appendix) |-> Among(AppendixBlocks[i], S)])
  BY ONLY AppendixRows, <1>5, Collected, AdviceIsOneLine, t = FlattenSeq(TextSections)
<1>7. [i \in 1..n |-> Among(AppendixBlocks[i], S)] \in Seq(Seq(G \cap S))
  <2>1. \A i \in 1..n : Among(AppendixBlocks[i], S) \in Seq(G \cap S)
    BY <1>4, AmongType
  <2> QED BY <2>1
<1>8. With(t, "indent") \in Seq(G \cap S)
  BY <1>3, <1>6, <1>7, FlattenType
<1>9. l \in G /\ l \in S
  BY <1>8 DEF ToSet
<1>10. l[1] = "indent"
  BY <1>9 DEF S
<1> QED BY <1>9, <1>10 DEF G, Says

LEMMA LinesTold ==
  ASSUME ReportIInv, AdviceIsOneLine, SecretsApart
  PROVE  LinesAreFacts
<1> SUFFICES ASSUME Done PROVE LinesAreFacts
  BY DEF LinesAreFacts
<1> DEFINE rank     == [i \in DOMAIN text |-> {k \in DOMAIN Order : text[i][1] \in Order[k]}]
           appended == [i \in DOMAIN Appendix |-> TrimEnd(Appendix[i].shows)]
           listed   == With(text, "appendix")
           rest     == With(text, "indent")
           missing  == {<<"indent", "more", ToString(Len(u) - AppendixMaxLines)>> :
                          u \in {v \in ToSet(appended) : Len(v) > AppendixMaxLines}}
<1>1. Collected /\ text = FlattenSeq(TextSections)
  BY DEF ReportIInv, CollectInv, WrittenInv, Collected, Done
<1>2. /\ \A i \in DOMAIN text : Cardinality(rank[i]) = 1
      /\ \A i \in 1..(Len(text) - 1) :
           \E a \in rank[i], b \in rank[i + 1] : a < b \/ (a = b /\ text[i][1] \in Repeated)
  BY <1>1, LinesInOrder
<1>3. Len(With(text, "attachment")) = Len(Inline)
  <2>1. Rows(FlattenSeq(TextSections), Order[7]) = TextSections[7]
    BY <1>1, TextRows
  <2>2. With(text, "attachment") = Rows(text, {"attachment"})
    BY DEF With
  <2>3. Order[7] = {"attachment"} /\ TextSections[7] = Each(Inline, AttachmentLine)
    BY OrderIs, LongSectionsAre
  <2>4. Len(Each(Inline, AttachmentLine)) = Len(Inline)
    BY <1>1, AttachmentKeyed DEF Collected
  <2> QED BY <1>1, <2>1, <2>2, <2>3, <2>4
<1>4. Len(listed) = Len(Select(appended, LAMBDA u : u # <<>>))
  <2>1. PICK h : h = appended
    OBVIOUS
  <2>2. Len(With(text, "appendix")) = Len(Select(h, LAMBDA u : u # <<>>))
    BY <1>1, <2>1, AppendixListed
  <2> QED BY <2>1, <2>2
<1>5. {l \in ToSet(rest) : Len(l) = 3} = missing
  <2> DEFINE More(a) == <<"indent", "more", ToString(Len(TrimEnd(a.shows)) - AppendixMaxLines)>>
  <2>1. ASSUME NEW l \in ToSet(rest), Len(l) = 3
        PROVE  \E a \in ToSet(Appendix) : Len(TrimEnd(a.shows)) > AppendixMaxLines /\ l = More(a)
    BY <1>1, <2>1, OnlyCutsTold
  <2>2. ASSUME NEW a \in ToSet(Appendix), Len(TrimEnd(a.shows)) > AppendixMaxLines
        PROVE  More(a) \in ToSet(rest) /\ Len(More(a)) = 3
    <3>1. \E i \in DOMAIN With(text, "indent") : With(text, "indent")[i] = More(a)
      BY <1>1, <2>2, AppendixCut
    <3> QED BY <3>1 DEF ToSet
  <2>3. ToSet(appended) = {TrimEnd(a.shows) : a \in ToSet(Appendix)}
    BY DEF ToSet
  <2>4. missing = {More(a) : a \in {b \in ToSet(Appendix) : Len(TrimEnd(b.shows)) > AppendixMaxLines}}
    BY <2>3
  <2> HIDE DEF More, missing, rest
  <2> QED BY <2>1, <2>2, <2>4
<1>6. ASSUME NEW a \in ToSet(attachments), a.placement \in {"opaque", "hidden"},
             NEW i \in DOMAIN text
      PROVE  ToSet(text[i]) \cap ToSet(a.shows) = {}
  <2>1. text \in Seq(Line)
    BY <1>1, TextRows
  <2>2. text[i] \in Seq(PublicWords)
    BY <2>1 DEF Line
  <2>3. ToSet(text[i]) \subseteq PublicWords
    BY <2>2 DEF ToSet
  <2>4. a \in AttachmentMenu
    <3>1. attachments \in Seq(AttachmentMenu)
      BY <1>1 DEF Collected, FaultInv
    <3> QED BY <3>1 DEF ToSet
  <2>5. ToSet(a.shows) \cap PublicWords = {}
    BY <1>6, <2>4 DEF SecretsApart
  <2> QED BY <2>3, <2>5
<1> QED
  <2> HIDE DEF rank, listed, rest, missing, appended
  <2>2. \A a \in ToSet(attachments) : a.placement \in {"opaque", "hidden"} =>
          \A i \in DOMAIN text : ToSet(text[i]) \cap ToSet(a.shows) = {}
    BY <1>6
  <2> QED BY ONLY <1>2, <1>3, <1>4, <1>5, <2>2 DEF LinesAreFacts, rank, listed, rest, missing, appended

\* Data cannot forge a line of the report (report.rs): each line is one fact of the
\* format, in the order of the format, whatever messages and attachments say; an
\* appendix is whole or says how much is missing; what is not to be shown is not.
THEOREM LinesAreFactsOfTheFormat ==
  AdviceIsOneLine /\ SecretsApart => (ReportSpec => []LinesAreFacts)
<1> SUFFICES ASSUME AdviceIsOneLine, SecretsApart PROVE ReportSpec => []LinesAreFacts
  OBVIOUS
<1>1. ReportIInv => LinesAreFacts
  BY LinesTold
<1> QED BY <1>1, ReportInvariant, PTL

-----------------------------------------------------------------------------
\* The members of the JSON form, and which of them are sections of the text.

MemberKeys ==
  <<"schema", "report", "error", "category", "advice", "location", "source", "scope",
    "attachment", "causes", "trace_id", "fingerprint", "action", "hint", "appendix">>

LEMMA MemberKeysAre ==
  /\ MemberKeys[1] = "schema" /\ MemberKeys[2] = "report" /\ MemberKeys[3] = "error"
  /\ MemberKeys[4] = "category" /\ MemberKeys[5] = "advice" /\ MemberKeys[6] = "location"
  /\ MemberKeys[7] = "source" /\ MemberKeys[8] = "scope" /\ MemberKeys[9] = "attachment"
  /\ MemberKeys[10] = "causes" /\ MemberKeys[11] = "trace_id"
  /\ MemberKeys[12] = "fingerprint" /\ MemberKeys[13] = "action" /\ MemberKeys[14] = "hint"
  /\ MemberKeys[15] = "appendix"
BY DEF MemberKeys

LEMMA MemberKeysApart ==
  ASSUME NEW j \in 1..15, NEW k \in 1..15, j # k
  PROVE  MemberKeys[j] # MemberKeys[k]
<1> DEFINE rank == [w \in Labels |->
      CASE w = "schema" -> 1 [] w = "report" -> 2 [] w = "error" -> 3 [] w = "category" -> 4
        [] w = "advice" -> 5 [] w = "location" -> 6 [] w = "source" -> 7 [] w = "scope" -> 8
        [] w = "attachment" -> 9 [] w = "causes" -> 10 [] w = "trace_id" -> 11
        [] w = "fingerprint" -> 12 [] w = "action" -> 13 [] w = "hint" -> 14
        [] OTHER -> 15]
<1>1. ASSUME NEW i \in 1..15 PROVE rank[MemberKeys[i]] = i
  <2>1. CASE i \in 1..8
    BY <2>1, MemberKeysAre DEF Labels
  <2>2. CASE i \in 9..15
    BY <2>2, MemberKeysAre DEF Labels
  <2> QED BY <2>1, <2>2
<1> HIDE DEF rank
<1> QED BY <1>1

LEMMA CauseMemberSays ==
  ASSUME NEW c \in Nodes
  PROVE  /\ CauseMember(c) \in Keyed({"causes"})
         /\ CauseMember(c) = <<"causes">> \o (Heading(c.error) \o c.error.says)
                               \o Word(c.kind) \o <<c.error.at>>
<1> DEFINE e     == c.error
           label == <<"causes">>
           kind  == Word(c.kind)
<1>1. e \in Errors /\ c.kind \in EdgeKinds \cup {Blank}
  BY DEF Nodes, Errors
<1>2. Heading(e) \in Line /\ e.says \in Line /\ <<e.at>> \in Line
  BY <1>1, HeadingSays, ErrorsSay DEF Line
<1>3. kind \in Line
  <2>1. c.kind # Blank => c.kind \in PublicWords
    BY <1>1, OthersSay DEF EdgeKinds, Labels
  <2> QED BY <2>1 DEF Word, Line
<1>4. label \in Keyed({"causes"}) /\ label \in Line
  <2>1. "causes" \in {"causes"} \cap PublicWords
    BY OthersSay DEF Labels
  <2> QED BY <2>1, LineStart DEF Keyed
<1>5. CauseMember(c) = (((label \o Heading(e)) \o e.says) \o kind) \o <<e.at>>
  BY DEF CauseMember
<1> HIDE DEF e, label, kind
<1>6. label \o Heading(e) \in Keyed({"causes"})
  BY <1>2, <1>4, LineLonger
<1>7. (label \o Heading(e)) \o e.says \in Keyed({"causes"})
  BY <1>2, <1>6, LineLonger
<1>8. ((label \o Heading(e)) \o e.says) \o kind \in Keyed({"causes"})
  BY <1>3, <1>7, LineLonger
<1>9. (((label \o Heading(e)) \o e.says) \o kind) \o <<e.at>> \in Keyed({"causes"})
  BY <1>2, <1>8, LineLonger
<1>10. (label \o Heading(e)) \o e.says = label \o (Heading(e) \o e.says)
  <2>1. PICK l, h, s \in Line : l = label /\ h = Heading(e) /\ s = e.says
    BY <1>2, <1>4
  <2>2. l \in Seq(PublicWords) /\ h \in Seq(PublicWords) /\ s \in Seq(PublicWords)
    BY DEF Line
  <2>3. (l \o h) \o s = l \o (h \o s)
    BY <2>2, ConcatAssociative
  <2> QED BY <2>1, <2>3
<1> QED BY <1>5, <1>9, <1>10 DEF e, label, kind

LEMMA AttachmentMembers ==
  Each(Inline, LAMBDA a : <<<<"attachment">> \o Word(a.key) \o a.shows>>)
    = Each(Inline, AttachmentLine)
BY DEF Each, AttachmentLine, Escaped

LEMMA AppendixMembers ==
  ASSUME FaultInv
  PROVE  Each(Appendix, LAMBDA a : <<<<"appendix", a.key>> \o a.shows>>)
           \in Seq(Keyed({"appendix"}))
<1> DEFINE blocks == [i \in DOMAIN Appendix |->
                        <<<<"appendix", Appendix[i].key>> \o Appendix[i].shows>>]
<1>1. Appendix \in Seq({a \in Visible : a.key # Blank})
  BY AttachmentsFound
<1>2. ASSUME NEW a \in Visible
      PROVE  <<<<"appendix", a.key>> \o a.shows>> \in Seq(Keyed({"appendix"}))
  <2>1. "appendix" \in {"appendix"} \cap Labels /\ <<>> \in Line
    BY DEF Labels, Line
  <2>2. a.shows \in Line /\ a.key \in PublicWords
    BY AttachmentsSay
  <2>3. <<"appendix", a.key>> \in Keyed({"appendix"})
    BY <2>1, <2>2, LabelLine
  <2>4. <<"appendix", a.key>> \o a.shows \in Keyed({"appendix"})
    BY <2>2, <2>3, LineLonger
  <2> QED BY <2>4, OneKeyed
<1>3. blocks \in Seq(Seq(Keyed({"appendix"})))
  <2>1. /\ DOMAIN Appendix = 1..Len(Appendix) /\ Len(Appendix) \in Nat
        /\ \A i \in 1..Len(Appendix) : Appendix[i] \in Visible
    BY <1>1
  <2> QED BY <1>2, <2>1
<1>4. Each(Appendix, LAMBDA a : <<<<"appendix", a.key>> \o a.shows>>) = FlattenSeq(blocks)
  BY DEF Each
<1> HIDE DEF blocks
<1> QED BY <1>3, <1>4, FlattenType

\* The members that the text has in another form, and which sections the others are.
Own == {1, 10, 15}

SectionOfMember == <<0, 1, 2, 3, 11, 4, 5, 6, 7, 0, 9, 10, 12, 13, 0>>

LEMMA SectionOfMemberIs ==
  /\ SectionOfMember[2] = 1 /\ SectionOfMember[3] = 2 /\ SectionOfMember[4] = 3
  /\ SectionOfMember[5] = 11 /\ SectionOfMember[6] = 4 /\ SectionOfMember[7] = 5
  /\ SectionOfMember[8] = 6 /\ SectionOfMember[9] = 7 /\ SectionOfMember[11] = 9
  /\ SectionOfMember[12] = 10 /\ SectionOfMember[13] = 12 /\ SectionOfMember[14] = 13
BY DEF SectionOfMember

LEMMA SectionHasKey ==
  ASSUME NEW k \in (1..15) \ Own
  PROVE  SectionOfMember[k] \in 1..14 /\ Order[SectionOfMember[k]] = {MemberKeys[k]}
<1>1. CASE k \in 2..7
  BY <1>1, SectionOfMemberIs, MemberKeysAre, OrderIs
<1>2. CASE k \in {8, 9, 11, 12, 13, 14}
  BY <1>2, SectionOfMemberIs, MemberKeysAre, OrderIs
<1> QED BY <1>1, <1>2 DEF Own

LEMMA JsonMembersKeyed ==
  ASSUME Collected, AdviceIsOneLine, ElapsedIsTyped
  PROVE  /\ JsonMembers = [k \in 1..15 |-> JsonMembers[k]] /\ Len(JsonMembers) = 15
         /\ \A k \in 1..15 : JsonMembers[k] \in Seq(Keyed({MemberKeys[k]}))
         /\ JsonMembers[10] = [n \in DOMAIN causes |-> CauseMember(causes[n])]
         /\ \A k \in (1..15) \ Own : JsonMembers[k] = TextSections[SectionOfMember[k]]
<1> DEFINE s2  == Escaped(<<"error">> \o Heading(Root), Root.says)
           m2  == <<<<"error">> \o Heading(Root) \o Root.says>>
           s3  == Section(FrameCategory # Blank,
                          <<<<"category", FrameCategory, Policy[FrameCategory]>>>>)
           s5  == Section(SourceLine # <<>>, Escaped(<<"source">>, SourceLine))
           m5  == Section(SourceLine # <<>>, <<<<"source">> \o SourceLine>>)
           s6  == Each(FindKeyed("scope_path"), ScopeLine)
           m6  == Each(FindKeyed("scope_path"), ScopeMember)
           s7  == Each(Inline, AttachmentLine)
           m7  == Each(Inline, LAMBDA a : <<<<"attachment">> \o Word(a.key) \o a.shows>>)
           s8  == [n \in DOMAIN causes |-> CauseLine(n)]
           m8  == [n \in DOMAIN causes |-> CauseMember(causes[n])]
           s9  == Each(FindKeyed("trace_id"), LAMBDA a : Escaped(<<"trace_id">>, a.shows))
           m9  == Each(FindKeyed("trace_id"), LAMBDA a : <<<<"trace_id">> \o a.shows>>)
           s11 == Section(RootEntry.advice # <<>>, Unescaped(<<"advice">>, RootEntry.advice))
           m11 == Section(RootEntry.advice # <<>>, <<<<"advice">> \o RootEntry.advice>>)
           s12 == Section(FrameCategory # Blank, Escaped(<<"action">>, BaseAction))
           m12 == Section(FrameCategory # Blank, <<<<"action">> \o BaseAction>>)
           s14 == Each(Appendix, AppendixLines)
           m14 == Each(Appendix, LAMBDA a : <<<<"appendix", a.key>> \o a.shows>>)
           hint == Section(Root.code # <<>>, <<<<"hint", "doctor", ToString(Root.code)>>>>)
           start == <<<<"report", "fast-observe/1">>>>
           place == <<<<"location", Root.at>>>>
           print == <<<<"fingerprint">> \o Fingerprint>>
           schema == <<<<"schema", "2">>>>
<1>0. FaultInv /\ causes \in Seq(Nodes)
  BY DEF Collected
<1>1. m2 = s2 /\ m5 = s5
  BY DEF Escaped
<1>2. m6 = s6 /\ m7 = s7 /\ m9 = s9
  BY <1>0, ScopeKeyed, AttachmentMembers, TraceKeyed
<1>3. m11 = s11 /\ m12 = s12
  BY <1>0, AdviceKeyed, ActionKeyed
<1>4. m8 \in Seq(Keyed({"causes"}))
  <2>1. DOMAIN causes = 1..Len(causes) /\ Len(causes) \in Nat
        /\ \A n \in 1..Len(causes) : causes[n] \in Nodes
    BY <1>0
  <2>2. \A n \in 1..Len(causes) : CauseMember(causes[n]) \in Keyed({"causes"})
    BY <2>1, CauseMemberSays
  <2> QED BY <2>1, <2>2
<1>5. m14 \in Seq(Keyed({"appendix"}))
  BY <1>0, AppendixMembers
<1>6. schema \in Seq(Keyed({"schema"}))
  <2>1. "schema" \in {"schema"} \cap Labels /\ "2" \in PublicWords /\ <<>> \in Line
    BY OthersSay DEF Labels, Line
  <2>2. <<"schema", "2">> \in Keyed({"schema"})
    BY <2>1, LabelLine
  <2> QED BY <2>2, OneKeyed
<1>7. TextSections = <<start, s2, s3, place, s5, s6, s7, s8, s9, print, s11, s12, hint, s14>>
  BY DEF TextSections
<1>8. JsonMembers = <<schema, start, m2, s3, m11, place, m5, m6, m7, m8, m9, print, m12, hint, m14>>
  BY DEF JsonMembers
<1> HIDE DEF s2, m2, s3, s5, m5, s6, m6, s7, m7, s8, m8, s9, m9, s11, m11, s12, m12, s14, m14,
             hint, start, place, print, schema
<1>9. /\ TextSections[1] = start /\ TextSections[2] = s2 /\ TextSections[3] = s3
      /\ TextSections[4] = place /\ TextSections[5] = s5 /\ TextSections[6] = s6
      /\ TextSections[7] = s7 /\ TextSections[9] = s9 /\ TextSections[10] = print
      /\ TextSections[11] = s11 /\ TextSections[12] = s12 /\ TextSections[13] = hint
  BY <1>7
<1>10. /\ JsonMembers[1] = schema /\ JsonMembers[2] = start /\ JsonMembers[3] = m2
       /\ JsonMembers[4] = s3 /\ JsonMembers[5] = m11 /\ JsonMembers[6] = place
       /\ JsonMembers[7] = m5 /\ JsonMembers[8] = m6 /\ JsonMembers[9] = m7
       /\ JsonMembers[10] = m8 /\ JsonMembers[11] = m9 /\ JsonMembers[12] = print
       /\ JsonMembers[13] = m12 /\ JsonMembers[14] = hint /\ JsonMembers[15] = m14
  BY <1>8
<1>11. JsonMembers = [k \in 1..15 |-> JsonMembers[k]] /\ Len(JsonMembers) = 15
  BY <1>8
<1>12. \A k \in {1, 10, 15} : JsonMembers[k] \in Seq(Keyed({MemberKeys[k]}))
  BY <1>4, <1>5, <1>6, <1>10, MemberKeysAre
<1>13. \A k \in 1..14 : TextSections[k] \in Seq(Keyed(Order[k]))
  BY TextSectionsKeyed
<1>14. /\ JsonMembers[2] = TextSections[1] /\ JsonMembers[3] = TextSections[2]
       /\ JsonMembers[4] = TextSections[3] /\ JsonMembers[5] = TextSections[11]
       /\ JsonMembers[6] = TextSections[4] /\ JsonMembers[7] = TextSections[5]
       /\ JsonMembers[8] = TextSections[6] /\ JsonMembers[9] = TextSections[7]
       /\ JsonMembers[11] = TextSections[9] /\ JsonMembers[12] = TextSections[10]
       /\ JsonMembers[13] = TextSections[12] /\ JsonMembers[14] = TextSections[13]
  BY <1>1, <1>2, <1>3, <1>9, <1>10
<1>15. ASSUME NEW k \in (1..15) \ Own PROVE JsonMembers[k] = TextSections[SectionOfMember[k]]
  <2>1. CASE k \in 2..7
    BY ONLY <1>14, <2>1, SectionOfMemberIs
  <2>2. CASE k \in {8, 9, 11, 12, 13, 14}
    BY ONLY <1>14, <2>2, SectionOfMemberIs
  <2> QED BY <2>1, <2>2 DEF Own
<1>16. ASSUME NEW k \in 1..15 PROVE JsonMembers[k] \in Seq(Keyed({MemberKeys[k]}))
  <2>1. CASE k \in Own
    BY <1>12, <2>1 DEF Own
  <2>2. CASE k \notin Own
    <3>1. TextSections[SectionOfMember[k]] \in Seq(Keyed(Order[SectionOfMember[k]]))
      BY <1>13, <2>2, SectionHasKey
    <3> QED BY <1>15, <2>2, <3>1, SectionHasKey
  <2> QED BY <2>1, <2>2
<1>18. JsonMembers[10] = [n \in DOMAIN causes |-> CauseMember(causes[n])]
  BY <1>10 DEF m8
<1> QED BY ONLY <1>11, <1>15, <1>16, <1>18

LEMMA JsonRows ==
  ASSUME Collected, AdviceIsOneLine, ElapsedIsTyped
  PROVE  \A k \in 1..15 : With(FlattenSeq(JsonMembers), MemberKeys[k]) = JsonMembers[k]
<1>1. /\ Len(JsonMembers) = 15
      /\ \A k \in 1..15 : JsonMembers[k] \in Seq(Keyed({MemberKeys[k]}))
  BY JsonMembersKeyed
<1>2. \A k \in 1..15 : JsonMembers[k] \in Seq(Line)
  BY <1>1, MoreValues DEF Keyed
<1>3. JsonMembers \in Seq(Seq(Line))
  <2>1. JsonMembers = [k \in 1..15 |-> JsonMembers[k]]
    BY JsonMembersKeyed
  <2> QED BY <1>2, <2>1, FunctionIsSequence
<1>4. FlattenSeq(JsonMembers) \in Seq(Line)
  BY <1>3, FlattenType
<1> SUFFICES ASSUME NEW k \in 1..15
             PROVE  With(FlattenSeq(JsonMembers), MemberKeys[k]) = JsonMembers[k]
  OBVIOUS
<1> DEFINE S == {l \in Line : l[1] \in {MemberKeys[k]}}
<1>5. With(FlattenSeq(JsonMembers), MemberKeys[k]) = Among(FlattenSeq(JsonMembers), S)
  BY <1>4, RowsIs DEF With
<1>6. JsonMembers[k] \in Seq(Line \cap S)
  <2>1. Keyed({MemberKeys[k]}) \subseteq Line \cap S
    BY DEF Keyed
  <2> HIDE DEF S
  <2> QED BY <1>1, <2>1, MoreValues
<1>7. ASSUME NEW j \in 1..15, j # k PROVE JsonMembers[j] \in Seq(Line \ S)
  <2>1. MemberKeys[j] # MemberKeys[k]
    BY <1>7, MemberKeysApart
  <2>2. Keyed({MemberKeys[j]}) \subseteq Line \ S
    BY <2>1 DEF Keyed
  <2> HIDE DEF S
  <2> QED BY <1>1, <2>2, MoreValues
<1> HIDE DEF S
<1>8. k \in 1..Len(JsonMembers)
  BY <1>1
<1>9. \A j \in 1..Len(JsonMembers) : j # k => JsonMembers[j] \in Seq(Line \ S)
  BY <1>1, <1>7
<1>10. Among(FlattenSeq(JsonMembers), S) = JsonMembers[k]
  BY ONLY <1>3, <1>6, <1>8, <1>9, SectionOf, SMTT(30)
<1> QED BY <1>5, <1>10

-----------------------------------------------------------------------------
\* The text and the JSON tell the same.

SharedKeys ==
  <<"report", "error", "category", "location", "source", "scope", "attachment",
    "trace_id", "fingerprint", "action", "hint", "advice">>

LEMMA SharedKeysAreMembers ==
  ASSUME NEW key \in ToSet(SharedKeys)
  PROVE  \E k \in (1..15) \ Own : key = MemberKeys[k]
<1>1. PICK i \in 1..12 : key = SharedKeys[i]
  <2>1. DOMAIN SharedKeys = 1..12
    BY DEF SharedKeys
  <2> QED BY <2>1 DEF ToSet
<1>2. /\ SharedKeys[1] = MemberKeys[2] /\ SharedKeys[2] = MemberKeys[3]
      /\ SharedKeys[3] = MemberKeys[4] /\ SharedKeys[4] = MemberKeys[6]
      /\ SharedKeys[5] = MemberKeys[7] /\ SharedKeys[6] = MemberKeys[8]
      /\ SharedKeys[7] = MemberKeys[9] /\ SharedKeys[8] = MemberKeys[11]
      /\ SharedKeys[9] = MemberKeys[12] /\ SharedKeys[10] = MemberKeys[13]
      /\ SharedKeys[11] = MemberKeys[14] /\ SharedKeys[12] = MemberKeys[5]
  BY MemberKeysAre DEF SharedKeys
<1>3. \A k \in {2, 3, 4, 5, 6, 7, 8, 9, 11, 12, 13, 14} : k \in (1..15) \ Own
  BY DEF Own
<1>4. CASE i \in 1..6
  BY ONLY <1>1, <1>2, <1>3, <1>4
<1>5. CASE i \in 7..12
  BY ONLY <1>1, <1>2, <1>3, <1>5
<1> QED BY <1>4, <1>5

LEMMA SharedRows ==
  ASSUME Collected, AdviceIsOneLine, ElapsedIsTyped, NEW k \in (1..15) \ Own
  PROVE  /\ With(FlattenSeq(TextSections), MemberKeys[k])
              = With(FlattenSeq(JsonMembers), MemberKeys[k])
         /\ With(FlattenSeq(TextSections), MemberKeys[k]) = TextSections[SectionOfMember[k]]
<1>1. SectionOfMember[k] \in 1..14 /\ Order[SectionOfMember[k]] = {MemberKeys[k]}
  BY SectionHasKey
<1>2. Rows(FlattenSeq(TextSections), Order[SectionOfMember[k]]) = TextSections[SectionOfMember[k]]
  BY <1>1, TextRows
<1>3. With(FlattenSeq(TextSections), MemberKeys[k]) = TextSections[SectionOfMember[k]]
  BY <1>1, <1>2 DEF With
<1>4. With(FlattenSeq(JsonMembers), MemberKeys[k]) = JsonMembers[k]
  BY JsonRows
<1>5. JsonMembers[k] = TextSections[SectionOfMember[k]]
  BY JsonMembersKeyed
<1> QED BY <1>3, <1>4, <1>5

LEMMA DropTwo ==
  ASSUME NEW X, NEW x \in X, NEW y \in X, NEW u \in Seq(X)
  PROVE  SubSeq(<<x, y>> \o u, 3, Len(<<x, y>> \o u)) = u
<1>1. PICK r \in Seq(X) : r = <<x, y>> \o u
  <2>1. <<x, y>> \in Seq(X)
    OBVIOUS
  <2> QED BY <2>1, Concat
<1>2. Len(r) = 2 + Len(u) /\ Len(u) \in Nat /\ \A i \in 1..Len(u) : r[2 + i] = u[i]
  <2>1. <<x, y>> \in Seq(X) /\ Len(<<x, y>>) = 2
    OBVIOUS
  <2> QED BY <1>1, <2>1, Concat
<1>3. SubSeq(r, 3, Len(r)) = [i \in 1..Len(u) |-> u[i]]
  <2>1. SubSeq(r, 3, Len(r)) = [i \in 1..(Len(r) - 2) |-> r[i + 2]]
    OBVIOUS
  <2>2. Len(r) - 2 = Len(u)
    BY <1>2
  <2>3. \A i \in 1..Len(u) : r[i + 2] = u[i]
    BY <1>2
  <2> QED BY <2>1, <2>2, <2>3
<1>4. u = [i \in 1..Len(u) |-> u[i]]
  OBVIOUS
<1> QED BY <1>1, <1>3, <1>4

\* What is left of a cause in the text when its key and its number are dropped.
LEMMA CauseWords ==
  ASSUME Collected, NEW n \in 1..Len(causes)
  PROVE  LET words == Drop(CauseLine(n), 2) IN
         CauseMember(causes[n])
           = <<"causes">> \o Front(words) \o Word(causes[n].kind) \o <<Last(words)>>
<1> DEFINE e     == causes[n].error
           says  == Heading(e) \o e.says
           label == CauseLabel(causes[n].kind)
           OfAll   == PublicWords \cup {label, ToString(n - 1)}
<1>1. causes[n] \in Nodes
  <2>1. causes \in Seq(Nodes)
    BY DEF Collected
  <2> QED BY <2>1
<1>2. e \in Errors /\ CauseLine(n) = <<label, ToString(n - 1)>> \o (says \o <<e.at>>)
  BY CauseLineSays
<1>3. CauseMember(causes[n]) = <<"causes">> \o says \o Word(causes[n].kind) \o <<e.at>>
  BY <1>1, CauseMemberSays
<1>4. Heading(e) \in Line /\ e.says \in Line /\ e.at \in PublicWords
  BY <1>2, HeadingSays, ErrorsSay
<1> HIDE DEF e, label
<1>5. says \in Seq(OfAll) /\ e.at \in OfAll /\ label \in OfAll /\ ToString(n - 1) \in OfAll
  <2>1. says \in Seq(PublicWords)
    BY <1>4 DEF Line
  <2>2. PublicWords \subseteq OfAll
    OBVIOUS
  <2> HIDE DEF says
  <2> QED BY <1>4, <2>1, <2>2, MoreValues
<1> HIDE DEF says, OfAll
<1>6. PICK t \in Seq(OfAll) : t = says
  BY <1>5
<1>7. Drop(CauseLine(n), 2) = t \o <<e.at>>
  <2>1. PICK u \in Seq(OfAll) : u = t \o <<e.at>>
    <3>1. <<e.at>> \in Seq(OfAll)
      BY <1>5
    <3> QED BY <3>1, Concat
  <2>2. SubSeq(<<label, ToString(n - 1)>> \o u, 3, Len(<<label, ToString(n - 1)>> \o u)) = u
    BY <1>5, DropTwo
  <2> QED BY <1>2, <1>6, <2>1, <2>2 DEF Drop
<1>8. Front(t \o <<e.at>>) = t /\ Last(t \o <<e.at>>) = e.at
  BY <1>5 DEF Front, Last
<1> QED BY <1>3, <1>6, <1>7, <1>8

LEMMA CausesAgree ==
  ASSUME Collected, AdviceIsOneLine, ElapsedIsTyped,
         text = FlattenSeq(TextSections), json = FlattenSeq(JsonMembers)
  PROVE  LET rows == Rows(text, CauseKeys)
         IN  /\ Len(rows) = Len(With(json, "causes"))
             /\ \A i \in DOMAIN rows :
                  LET words == Drop(rows[i], 2) IN
                  With(json, "causes")[i]
                    = <<"causes">> \o Front(words) \o Word(causes[i].kind) \o <<Last(words)>>
<1>1. Rows(text, CauseKeys) = [n \in DOMAIN causes |-> CauseLine(n)]
  <2>1. Rows(FlattenSeq(TextSections), Order[8]) = TextSections[8]
    BY TextRows
  <2> QED BY <2>1, OrderIs, LongSectionsAre
<1>2. With(json, "causes") = [n \in DOMAIN causes |-> CauseMember(causes[n])]
  <2>1. With(FlattenSeq(JsonMembers), MemberKeys[10]) = JsonMembers[10]
    BY JsonRows
  <2>2. JsonMembers[10] = [n \in DOMAIN causes |-> CauseMember(causes[n])]
    BY JsonMembersKeyed
  <2> QED BY <2>1, <2>2, MemberKeysAre
<1>3. DOMAIN causes = 1..Len(causes) /\ Len(causes) \in Nat
  <2>1. causes \in Seq(Nodes)
    BY DEF Collected
  <2> QED BY <2>1
<1>4. Len(Rows(text, CauseKeys)) = Len(causes) /\ Len(With(json, "causes")) = Len(causes)
  BY <1>1, <1>2, <1>3
<1>5. DOMAIN Rows(text, CauseKeys) = 1..Len(causes)
  BY <1>1, <1>3
<1>6. ASSUME NEW i \in 1..Len(causes)
      PROVE  LET words == Drop(Rows(text, CauseKeys)[i], 2) IN
             With(json, "causes")[i]
               = <<"causes">> \o Front(words) \o Word(causes[i].kind) \o <<Last(words)>>
  <2>1. Rows(text, CauseKeys)[i] = CauseLine(i) /\ With(json, "causes")[i] = CauseMember(causes[i])
    BY <1>1, <1>2, <1>3
  <2>2. LET words == Drop(CauseLine(i), 2) IN
        CauseMember(causes[i])
          = <<"causes">> \o Front(words) \o Word(causes[i].kind) \o <<Last(words)>>
    BY CauseWords
  <2> QED BY <2>1, <2>2
<1> QED BY <1>4, <1>5, <1>6

CodeOf == [Content |-> 65, Transient |-> 75, Invariant |-> 70, Fatal |-> 70]

LEMMA ExitCodeAgrees ==
  ASSUME Collected, AdviceIsOneLine, text = FlattenSeq(TextSections)
  PROVE  LET shown == With(text, "category")
         IN  \/ shown = <<>> /\ ExitCode = 1
             \/ /\ shown # <<>>
                /\ ExitCode = [Content |-> 65, Transient |-> 75, Invariant |-> 70, Fatal |-> 70]
                                [shown[1][2]]
<1>1. With(text, "category")
        = Section(FrameCategory # Blank, <<<<"category", FrameCategory, Policy[FrameCategory]>>>>)
  <2>1. Rows(FlattenSeq(TextSections), Order[3]) = TextSections[3]
    BY TextRows
  <2>2. Order[3] = {"category"}
    BY OrderIs
  <2>3. TextSections[3] = Section(FrameCategory # Blank,
                                  <<<<"category", FrameCategory, Policy[FrameCategory]>>>>)
    BY DEF TextSections
  <2> QED BY <2>1, <2>2, <2>3 DEF With
<1>2. FrameCategory \in Tags \cup {Blank}
  BY RootSays DEF Collected
<1>3. CASE FrameCategory = Blank
  <2>1. \A lines : Section(FrameCategory # Blank, lines) = <<>>
    BY <1>3 DEF Section
  <2>2. ExitCode = 1
    <3>1. /\ FrameCategory # "Content" /\ FrameCategory # "Transient"
          /\ FrameCategory \notin {"Invariant", "Fatal"}
      BY <1>3, BlankIs DEF Tags
    <3> QED BY <1>3, <3>1 DEF ExitCode
  <2> QED BY <1>1, <2>1, <2>2
<1>4. CASE FrameCategory # Blank
  <2>1. \A lines : Section(FrameCategory # Blank, lines) = lines
    BY <1>4 DEF Section
  <2>2. With(text, "category") = <<<<"category", FrameCategory, Policy[FrameCategory]>>>>
    BY <1>1, <2>1
  <2>3. With(text, "category") # <<>> /\ With(text, "category")[1][2] = FrameCategory
    BY <2>2
  <2>4. FrameCategory \in {"Content", "Transient", "Invariant", "Fatal"}
    BY <1>2, <1>4 DEF Tags
  <2>5. ExitCode = CodeOf[FrameCategory]
    BY <1>4, <2>4 DEF ExitCode, CodeOf
  <2> QED BY <2>3, <2>5 DEF CodeOf
<1> QED BY <1>3, <1>4

\* The command of the hint finds the entry whose advice is shown.
LEMMA HintFinds ==
  ASSUME Collected, AdviceIsOneLine, ElapsedIsTyped,
         text = FlattenSeq(TextSections), json = FlattenSeq(JsonMembers),
         With(text, "advice") # <<>>
  PROVE  LET answer == Doctor(slices, Root.code)
         IN  /\ With(text, "hint") # <<>>
             /\ answer.answer = "entry"
             /\ With(json, "advice") = <<<<"advice">> \o answer.entries[1].advice>>
<1>1. 5 \in (1..15) \ Own /\ 14 \in (1..15) \ Own
  BY DEF Own
<1>2. /\ With(text, "advice") = TextSections[11] /\ With(json, "advice") = TextSections[11]
      /\ With(text, "hint") = TextSections[13]
  BY <1>1, SharedRows, MemberKeysAre, SectionOfMemberIs
<1>3. TextSections[11] = Section(RootEntry.advice # <<>>, <<<<"advice">> \o RootEntry.advice>>)
  <2>1. TextSections[11]
          = Section(RootEntry.advice # <<>>, Unescaped(<<"advice">>, RootEntry.advice))
    BY DEF TextSections
  <2> QED BY <2>1, AdviceKeyed DEF Collected
<1>4. TextSections[13] = Section(Root.code # <<>>, <<<<"hint", "doctor", ToString(Root.code)>>>>)
  BY DEF TextSections
<1>5. RootEntry.advice # <<>>
  BY <1>2, <1>3 DEF Section
<1>6. RootEntry # NoEntry
  BY <1>5 DEF NoEntry, Entry
<1>7. Root.code # <<>> /\ RootEntry = LookupError(slices, Root.code)
  BY <1>6 DEF RootEntry
<1>8. With(text, "hint") # <<>>
  <2>1. \A lines : Section(Root.code # <<>>, lines) = lines
    BY <1>7 DEF Section
  <2> QED BY <1>2, <1>4, <2>1
<1>9. Doctor(slices, Root.code) = [answer |-> "entry", entries |-> <<RootEntry>>]
  BY <1>6, <1>7 DEF Doctor
<1>10. With(json, "advice") = <<<<"advice">> \o RootEntry.advice>>
  <2>1. \A lines : Section(RootEntry.advice # <<>>, lines) = lines
    BY <1>5 DEF Section
  <2> QED BY <1>2, <1>3, <2>1
<1> QED BY <1>8, <1>9, <1>10

LEMMA FormsTold ==
  ASSUME ReportIInv, AdviceIsOneLine, ElapsedIsTyped
  PROVE  FormsAgree
<1> SUFFICES ASSUME Done PROVE FormsAgree
  BY DEF FormsAgree
<1>1. Collected /\ text = FlattenSeq(TextSections) /\ json = FlattenSeq(JsonMembers)
  BY DEF ReportIInv, CollectInv, WrittenInv, Collected, Done
<1>2. \A key \in ToSet(SharedKeys) : With(text, key) = With(json, key)
  <2> SUFFICES ASSUME NEW key \in ToSet(SharedKeys) PROVE With(text, key) = With(json, key)
    OBVIOUS
  <2>1. PICK k \in (1..15) \ Own : key = MemberKeys[k]
    BY SharedKeysAreMembers
  <2> QED BY <1>1, <2>1, SharedRows
<1>3. LET rows == Rows(text, CauseKeys)
      IN  /\ Len(rows) = Len(With(json, "causes"))
          /\ \A i \in DOMAIN rows :
               LET words == Drop(rows[i], 2) IN
               With(json, "causes")[i]
                 = <<"causes">> \o Front(words) \o Word(causes[i].kind) \o <<Last(words)>>
  BY <1>1, CausesAgree
<1>4. LET shown == With(text, "category")
      IN  \/ shown = <<>> /\ ExitCode = 1
          \/ /\ shown # <<>>
             /\ ExitCode = [Content |-> 65, Transient |-> 75, Invariant |-> 70, Fatal |-> 70]
                             [shown[1][2]]
  BY <1>1, ExitCodeAgrees
<1>5. With(text, "advice") # <<>> =>
        LET answer == Doctor(slices, Root.code)
        IN  /\ With(text, "hint") # <<>>
            /\ answer.answer = "entry"
            /\ With(json, "advice") = <<<<"advice">> \o answer.entries[1].advice>>
  BY <1>1, HintFinds
<1> QED BY ONLY <1>2, <1>3, <1>4, <1>5 DEF FormsAgree, SharedKeys

\* The text, the JSON, the exit code and doctor tell the same of a fault (report.rs,
\* Fault::exit_code_raw, doctor): each shared fact is in both forms, the exit code is
\* that of the category shown, and the command of the hint finds the advice shown.
THEOREM FormsAreAgreed ==
  AdviceIsOneLine /\ ElapsedIsTyped => (ReportSpec => []FormsAgree)
<1> SUFFICES ASSUME AdviceIsOneLine, ElapsedIsTyped PROVE ReportSpec => []FormsAgree
  OBVIOUS
<1>1. ReportIInv => FormsAgree
  BY FormsTold
<1> QED BY <1>1, ReportInvariant, PTL
-----------------------------------------------------------------------------
\* The attribute macros: what an expansion has kept of its item.

Kept == Items \cup Members

\* Bodies that might have been wrapped and are not.
Bare(written, items, wraps) ==
  {i \in DOMAIN items : /\ items[i].is = "function" /\ items[i].body
                        /\ wraps[i] = "none"
                        /\ Unmarked(written[i]) = written[i]}

Guarded(item, wrap) ==
  item.is = "function" /\ item.async /\ wrap \in {"scope", "exit with report"}

Macros == {"none", "instrument", "instrument_async", "main", "skip", "all_functions"}
Wraps == {"none", "scope", "trace on poll", "exit with report"}

Expansions == [item : Seq(Kept), wrap : Seq(Wraps), diagnosed : Nat, carried : Nat]

AttributeIInv ==
  /\ stage \in {"idle", "members", "expanded"}
  /\ invocation \in [macro : Macros, args : Arguments, item : Seq(Kept)]
  /\ expansion \in Expansions
  /\ stage = "members" => invocation.macro = "all_functions"
  /\ Len(expansion.item) = Len(invocation.item) /\ Len(expansion.wrap) = Len(invocation.item)
  /\ \A i \in 1..Len(invocation.item) :
       /\ expansion.item[i] = Unmarked(invocation.item[i])
       /\ ~Guarded(expansion.item[i], expansion.wrap[i])
  /\ invocation.macro # "skip" =>
       expansion.carried >= Cardinality(Bare(invocation.item, expansion.item, expansion.wrap))

\* An item on its own: kept, unguarded where async, and not left bare in silence.
Keeps(m, e) ==
  /\ e \in [item : Kept, wrap : Wraps, diagnosed : Nat, carried : Nat]
  /\ e.item = Unmarked(m)
  /\ ~Guarded(e.item, e.wrap)

Tells(m, e) ==
  e.item.is = "function" /\ e.item.body /\ e.wrap = "none" /\ Unmarked(m) = m => e.carried >= 1

LEMMA OutputIs ==
  ASSUME NEW m \in Kept, NEW item \in Kept, NEW wrap \in Wraps, NEW k \in Nat, NEW n \in Nat,
         NEW e, e = [item |-> item, wrap |-> wrap, diagnosed |-> k, carried |-> n]
  PROVE  /\ item = Unmarked(m) /\ ~Guarded(item, wrap) => Keeps(m, e)
         /\ (item.is = "function" /\ item.body /\ wrap = "none" /\ Unmarked(m) = m => n >= 1)
              => Tells(m, e)
<1>1. e.item = item /\ e.wrap = wrap /\ e.carried = n
  OBVIOUS
<1>2. e \in [item : Kept, wrap : Wraps, diagnosed : Nat, carried : Nat]
  OBVIOUS
<1> QED BY <1>1, <1>2 DEF Keeps, Tells

\* The same of the operators that make outputs, with the wrap they give.
LEMMA OutputKeeps ==
  \A m, item \in Kept, wrap \in Wraps, n \in Nat :
    LET e == Output(item, wrap, n)
    IN  /\ item = Unmarked(m) /\ ~Guarded(item, wrap) => Keeps(m, e)
        /\ (item.is = "function" /\ item.body /\ wrap = "none" /\ Unmarked(m) = m => n >= 1)
              => Tells(m, e)
BY OutputIs DEF Output

LEMMA RefusalKeeps ==
  \A m, item \in Kept, n \in Nat :
    LET e == Refused(item, n)
    IN  /\ item = Unmarked(m) => Keeps(m, e)
        /\ (item.is = "function" /\ item.body /\ Unmarked(m) = m => n >= 1) => Tells(m, e)
<1> SUFFICES ASSUME NEW m \in Kept, NEW item \in Kept, NEW n \in Nat
             PROVE  LET e == Refused(item, n)
                    IN  /\ item = Unmarked(m) => Keeps(m, e)
                        /\ (item.is = "function" /\ item.body /\ Unmarked(m) = m => n >= 1)
                              => Tells(m, e)
  OBVIOUS
<1>1. "none" \in Wraps /\ ~Guarded(item, "none")
  BY DEF Wraps, Guarded
<1> QED BY <1>1, OutputKeeps DEF Refused

LEMMA ItemsAreUnmarked == \A m \in Items : m \in Kept /\ Unmarked(m) = m
BY DEF Items, Function, Unmarked, Kept

LEMMA MemberIsKept == \A m \in Members : Keeps(m, ExpandMember(m)) /\ Tells(m, ExpandMember(m))
<1> SUFFICES ASSUME NEW m \in Members
             PROVE  Keeps(m, ExpandMember(m)) /\ Tells(m, ExpandMember(m))
  OBVIOUS
<1>1. CASE m.is # "function"
  <2>1. ExpandMember(m) = Refused(m, 0) /\ Unmarked(m) = m /\ m \in Kept
    BY <1>1 DEF ExpandMember, Unmarked, Kept
  <2> QED BY <1>1, <2>1, RefusalKeeps
<1>2. CASE m.is = "function"
  <2>1. m \in Function /\ m.returns = "nothing"
    BY <1>2 DEF Members
  <2>2. CASE IsSkip(m.mark)
    <3> DEFINE f == [m EXCEPT !.mark = "none"]
    <3>1. /\ f \in Function /\ f.returns = "nothing" /\ f.mark = "none" /\ f.is = "function"
      BY <2>1 DEF Function
    <3>2. f \in Kept
      BY <3>1 DEF Members, Kept
    <3>3. ExpandMember(m) = Refused(f, 0) /\ m \in Kept
      BY <1>2, <2>2 DEF ExpandMember, Kept
    <3>4. Unmarked(m) = f
      BY <1>2, <2>2 DEF Unmarked, IsSkip
    <3>5. f # m
      BY <3>1, <2>2 DEF IsSkip
    <3> HIDE DEF f
    <3> QED BY <3>1, <3>2, <3>3, <3>4, <3>5, RefusalKeeps
  <2>3. CASE ~IsSkip(m.mark)
    <3>1. Unmarked(m) = m /\ m \in Kept
      BY <2>3 DEF Unmarked, IsSkip, Kept
    <3>2. CASE m.async
      <4>1. ExpandMember(m) = Refused(m, 1)
        BY <1>2, <2>3, <3>2 DEF ExpandMember
      <4> QED BY <3>1, <4>1, RefusalKeeps
    <3>3. CASE ~m.async
      <4>1. ExpandMember(m) = Output(m, WrapBody(m, "scope"), 0)
        BY <1>2, <2>3, <3>3 DEF ExpandMember
      <4>2. /\ WrapBody(m, "scope") \in Wraps /\ ~Guarded(m, WrapBody(m, "scope"))
            /\ m.body => WrapBody(m, "scope") # "none"
        BY <3>3 DEF Guarded, WrapBody, Wraps
      <4> QED BY <3>1, <4>1, <4>2, OutputKeeps
    <3> QED BY <3>2, <3>3
  <2> QED BY <2>2, <2>3
<1> QED BY <1>1, <1>2

LEMMA ItemIsKept ==
  \A args \in Arguments, m \in Items :
    /\ \A macro \in {"instrument", "instrument_async", "main"} :
         Keeps(m, ExpansionOf(macro, args, m)) /\ Tells(m, ExpansionOf(macro, args, m))
    /\ Keeps(m, ExpansionOf("skip", args, m))
<1> SUFFICES ASSUME NEW args \in Arguments, NEW m \in Items
             PROVE  /\ Keeps(m, Instrument(args, m)) /\ Tells(m, Instrument(args, m))
                    /\ Keeps(m, InstrumentAsync(args, m)) /\ Tells(m, InstrumentAsync(args, m))
                    /\ Keeps(m, Main(args, m)) /\ Tells(m, Main(args, m))
                    /\ Keeps(m, Skip(args, m))
  BY DEF ExpansionOf
<1>1. m \in Kept /\ Unmarked(m) = m
  BY ItemsAreUnmarked
<1>2. NameErrors(args) \in Nat
  BY DEF NameErrors
<1>3. \/ m.is \in {"impl", "struct", "unparsable"}
      \/ m.is = "function" /\ m \in Function
  BY DEF Items, Function
<1>4. Keeps(m, Instrument(args, m)) /\ Tells(m, Instrument(args, m))
  <2>1. CASE m.is = "unparsable"
    <3>1. Instrument(args, m) = [item |-> m, wrap |-> "none", diagnosed |-> NameErrors(args) + 1,
                                 carried |-> NameErrors(args)]
      BY <2>1 DEF Instrument, Refused, Output
    <3>2. "none" \in Wraps /\ ~Guarded(m, "none") /\ NameErrors(args) + 1 \in Nat
      BY <1>2 DEF Wraps, Guarded
    <3> QED BY <1>1, <1>2, <2>1, <3>1, <3>2, OutputIs
  <2>2. CASE m.is \in {"impl", "struct"}
    <3>1. Instrument(args, m) = Refused(m, NameErrors(args) + 1)
      BY <2>2 DEF Instrument
    <3> QED BY <1>1, <1>2, <3>1, RefusalKeeps
  <2>3. CASE m.is = "function" /\ m.async
    <3>1. Instrument(args, m) = Refused(m, NameErrors(args) + 1)
      BY <2>3 DEF Instrument
    <3> QED BY <1>1, <1>2, <3>1, RefusalKeeps
  <2>4. CASE m.is = "function" /\ ~m.async
    <3>1. Instrument(args, m) = Output(m, WrapBody(m, "scope"), NameErrors(args))
      BY <2>4 DEF Instrument
    <3>2. /\ WrapBody(m, "scope") \in Wraps /\ ~Guarded(m, WrapBody(m, "scope"))
          /\ m.body => WrapBody(m, "scope") # "none"
      BY <2>4 DEF Guarded, WrapBody, Wraps
    <3> QED BY <1>1, <1>2, <3>1, <3>2, OutputKeeps
  <2> QED BY <1>3, <2>1, <2>2, <2>3, <2>4
<1>5. Keeps(m, InstrumentAsync(args, m)) /\ Tells(m, InstrumentAsync(args, m))
  <2>1. "trace on poll" \in Wraps /\ ~Guarded(m, "trace on poll")
    BY DEF Wraps, Guarded
  <2>2. CASE m.is = "function" /\ m.async
    BY <1>1, <1>2, <2>1, <2>2, OutputKeeps DEF InstrumentAsync
  <2>3. CASE ~(m.is = "function" /\ m.async)
    <3>1. InstrumentAsync(args, m) = Refused(m, NameErrors(args) + 1)
      BY <2>3 DEF InstrumentAsync
    <3> QED BY <1>1, <1>2, <3>1, RefusalKeeps
  <2> QED BY <2>2, <2>3
<1>6. Keeps(m, Main(args, m)) /\ Tells(m, Main(args, m))
  <2>1. PICK n \in Nat : n = IF args = "empty" THEN 0 ELSE 1
    OBVIOUS
  <2>2. CASE m.is = "function" /\ ~m.async /\ ReturnsResult(m) /\ m.body
    <3>1. "exit with report" \in Wraps /\ ~Guarded(m, "exit with report")
      BY <2>2 DEF Wraps, Guarded
    <3>2. Main(args, m) = Output(m, "exit with report", n)
      BY <2>1, <2>2 DEF Main
    <3> QED BY <1>1, <3>1, <3>2, OutputKeeps
  <2>3. CASE ~(m.is = "function" /\ ~m.async /\ ReturnsResult(m) /\ m.body)
    <3>1. Main(args, m) = Refused(m, n + 1)
      BY <2>1, <2>3 DEF Main
    <3> QED BY <1>1, <3>1, RefusalKeeps
  <2> QED BY <2>2, <2>3
<1>7. Keeps(m, Skip(args, m))
  <2>1. "none" \in Wraps /\ ~Guarded(m, "none")
    BY DEF Wraps, Guarded
  <2> QED BY <1>1, <2>1, OutputKeeps DEF Skip
<1> QED BY <1>4, <1>5, <1>6, <1>7

\* One more member: what was kept stays kept, and a bare body has a complaint.
LEMMA OneMoreKept ==
  ASSUME NEW written \in Seq(Kept), NEW items \in Seq(Kept), NEW wraps \in Seq(Wraps),
         Len(items) = Len(written), Len(wraps) = Len(written),
         NEW told \in Nat, told >= Cardinality(Bare(written, items, wraps)),
         NEW m \in Kept, NEW e, Keeps(m, e), Tells(m, e)
  PROVE  told + e.carried >=
           Cardinality(Bare(Append(written, m), Append(items, e.item), Append(wraps, e.wrap)))
<1> DEFINE n    == Len(written)
           B    == Bare(written, items, wraps)
           more == Bare(Append(written, m), Append(items, e.item), Append(wraps, e.wrap))
<1>1. e.item \in Kept /\ e.wrap \in Wraps /\ e.carried \in Nat
  BY DEF Keeps
<1>2. B \subseteq 1..n
  BY DEF Bare
<1>3. IsFiniteSet(B) /\ Cardinality(B) \in Nat
  <2>1. IsFiniteSet(1..n)
    BY FS_Interval
  <2> QED BY <1>2, <2>1, FS_Subset, FS_CardinalityType
<1>4. /\ DOMAIN Append(items, e.item) = 1..(n + 1)
      /\ Append(items, e.item)[n + 1] = e.item /\ Append(wraps, e.wrap)[n + 1] = e.wrap
      /\ Append(written, m)[n + 1] = m
      /\ \A i \in 1..n : /\ Append(items, e.item)[i] = items[i]
                         /\ Append(wraps, e.wrap)[i] = wraps[i]
                         /\ Append(written, m)[i] = written[i]
  BY <1>1
<1>5. \A i \in more : i \in B \/ i = n + 1
  BY <1>4 DEF Bare
<1>6. n + 1 \in more => e.carried >= 1
  BY <1>4 DEF Bare, Tells
<1>7. n + 1 \notin B
  BY <1>2
<1> HIDE DEF B, more
<1>8. CASE n + 1 \in more
  <2>1. IsFiniteSet(B \cup {n + 1}) /\ Cardinality(B \cup {n + 1}) = Cardinality(B) + 1
    BY <1>3, <1>7, FS_AddElement
  <2>2. more \subseteq B \cup {n + 1}
    BY <1>5
  <2>3. Cardinality(more) <= Cardinality(B) + 1 /\ Cardinality(more) \in Nat
    BY <2>1, <2>2, FS_Subset, FS_CardinalityType
  <2> QED BY <1>1, <1>3, <1>6, <1>8, <2>3 DEF B, more
<1>9. CASE n + 1 \notin more
  <2>1. more \subseteq B
    BY <1>5, <1>9
  <2>2. Cardinality(more) <= Cardinality(B) /\ Cardinality(more) \in Nat
    BY <1>3, <2>1, FS_Subset, FS_CardinalityType
  <2> QED BY <1>1, <1>3, <2>2 DEF B, more
<1> QED BY <1>8, <1>9

LEMMA NothingIsBare ==
  ASSUME NEW written, NEW wraps PROVE Cardinality(Bare(written, <<>>, wraps)) = 0
<1>1. Bare(written, <<>>, wraps) = {}
  BY DEF Bare
<1> QED BY <1>1, FS_EmptySet

\* An invocation about one item, in the words of the invariant.
LEMMA OneKept ==
  ASSUME NEW macro \in Macros, NEW args \in Arguments, NEW m \in Kept, NEW e,
         Keeps(m, e), macro # "skip" => Tells(m, e),
         invocation' = [macro |-> macro, args |-> args, item |-> <<m>>],
         expansion' = [item |-> <<e.item>>, wrap |-> <<e.wrap>>,
                       diagnosed |-> e.diagnosed, carried |-> e.carried],
         stage' = "expanded"
  PROVE  AttributeIInv'
<1>1. e.item \in Kept /\ e.wrap \in Wraps /\ e.carried \in Nat /\ e.diagnosed \in Nat
  BY DEF Keeps
<1>2. <<m>> \in Seq(Kept) /\ <<e.item>> \in Seq(Kept) /\ <<e.wrap>> \in Seq(Wraps)
  BY <1>1
<1>3. expansion' \in Expansions
  BY ONLY <1>1, <1>2,
     expansion' = [item |-> <<e.item>>, wrap |-> <<e.wrap>>,
                   diagnosed |-> e.diagnosed, carried |-> e.carried] DEF Expansions
<1>4. invocation' \in [macro : Macros, args : Arguments, item : Seq(Kept)]
  BY ONLY <1>2, macro \in Macros, args \in Arguments,
          invocation' = [macro |-> macro, args |-> args, item |-> <<m>>]
<1>5. /\ invocation'.item = <<m>> /\ invocation'.macro = macro
      /\ expansion'.item = <<e.item>> /\ expansion'.wrap = <<e.wrap>>
      /\ expansion'.carried = e.carried
  OBVIOUS
<1>6. macro # "skip" => e.carried >= Cardinality(Bare(<<m>>, <<e.item>>, <<e.wrap>>))
  <2> SUFFICES ASSUME macro # "skip"
               PROVE  e.carried >= Cardinality(Bare(<<m>>, <<e.item>>, <<e.wrap>>))
    OBVIOUS
  <2>1. <<>> \in Seq(Kept) /\ <<>> \in Seq(Wraps) /\ Len(<<>>) = 0
    OBVIOUS
  <2>2. Cardinality(Bare(<<>>, <<>>, <<>>)) = 0
    BY NothingIsBare
  <2>3. PICK k \in Seq(Kept), w \in Seq(Wraps), z \in Nat : k = <<>> /\ w = <<>> /\ z = 0
    BY <2>1
  <2>4. Len(k) = 0 /\ Len(w) = 0 /\ z >= Cardinality(Bare(k, k, w))
    BY <2>2, <2>3
  <2>5. z + e.carried >= Cardinality(Bare(Append(k, m), Append(k, e.item), Append(w, e.wrap)))
    BY <2>4, OneMoreKept
  <2>6. Append(<<>>, m) = <<m>> /\ Append(<<>>, e.item) = <<e.item>> /\ Append(<<>>, e.wrap) = <<e.wrap>>
    OBVIOUS
  <2> QED BY <1>1, <2>3, <2>5, <2>6
<1>7. \A i \in 1..Len(<<m>>) :
        <<e.item>>[i] = Unmarked(<<m>>[i]) /\ ~Guarded(<<e.item>>[i], <<e.wrap>>[i])
  BY DEF Keeps
<1> QED BY <1>3, <1>4, <1>5, <1>6, <1>7 DEF AttributeIInv

LEMMA AttributeInitInv == AttributeInit => AttributeIInv
<1> SUFFICES ASSUME AttributeInit PROVE AttributeIInv
  OBVIOUS
<1>1. /\ invocation.macro = "none" /\ invocation.item = <<>> /\ expansion.item = <<>>
      /\ expansion.wrap = <<>> /\ expansion.carried = 0
  BY DEF AttributeInit, NoInvocation, Nothing
<1>2. /\ <<>> \in Seq(Kept) /\ <<>> \in Seq(Wraps) /\ "empty" \in Arguments
      /\ "none" \in Macros
  BY DEF Arguments, Macros
<1>3. invocation \in [macro : Macros, args : Arguments, item : Seq(Kept)]
  BY <1>2 DEF AttributeInit, NoInvocation
<1>4. expansion \in Expansions
  BY ONLY <1>2, AttributeInit DEF AttributeInit, Nothing, Expansions
<1>5. Cardinality(Bare(<<>>, <<>>, <<>>)) = 0
  BY NothingIsBare
<1> QED BY <1>1, <1>3, <1>4, <1>5 DEF AttributeIInv, AttributeInit

LEMMA MemberStepInv ==
  ASSUME AttributeIInv, NEW m \in Members, Member(m) PROVE AttributeIInv'
<1> DEFINE e     == ExpandMember(m)
           given == invocation.item
           items == expansion.item
           wraps == expansion.wrap
           told  == expansion.carried
<1>1. /\ given \in Seq(Kept) /\ items \in Seq(Kept) /\ wraps \in Seq(Wraps) /\ told \in Nat
      /\ expansion.diagnosed \in Nat /\ invocation.macro \in Macros /\ invocation.args \in Arguments
      /\ Len(items) = Len(given) /\ Len(wraps) = Len(given)
  BY DEF AttributeIInv, Expansions
<1>2. Keeps(m, e) /\ Tells(m, e) /\ m \in Kept
  BY MemberIsKept DEF Kept
<1>3. invocation.macro = "all_functions"
  BY DEF AttributeIInv, Member
<1>4. /\ invocation' = [invocation EXCEPT !.item = Append(given, m)]
      /\ expansion' = [item |-> Append(items, e.item), wrap |-> Append(wraps, e.wrap),
                       diagnosed |-> expansion.diagnosed + e.diagnosed,
                       carried |-> told + e.carried]
      /\ stage' = stage
  BY DEF Member
<1>5. e.item \in Kept /\ e.wrap \in Wraps /\ e.carried \in Nat /\ e.diagnosed \in Nat
  BY <1>2 DEF Keeps
<1>6. told >= Cardinality(Bare(given, items, wraps))
  BY <1>3 DEF AttributeIInv
<1>7. /\ e.item = Unmarked(m) /\ ~Guarded(e.item, e.wrap)
      /\ \A i \in 1..Len(given) : items[i] = Unmarked(given[i]) /\ ~Guarded(items[i], wraps[i])
  BY <1>2 DEF AttributeIInv, Keeps
<1> HIDE DEF e
<1>8. /\ invocation'.item = Append(given, m) /\ invocation'.macro = "all_functions"
      /\ invocation' \in [macro : Macros, args : Arguments, item : Seq(Kept)]
  <2>1. invocation \in [macro : Macros, args : Arguments, item : Seq(Kept)]
    BY DEF AttributeIInv
  <2>2. Append(given, m) \in Seq(Kept)
    BY <1>1, <1>2
  <2> QED BY ONLY <1>3, <1>4, <2>1, <2>2
<1>9. /\ expansion' \in Expansions
      /\ expansion'.item = Append(items, e.item) /\ expansion'.wrap = Append(wraps, e.wrap)
      /\ expansion'.carried = told + e.carried
  <2>1. /\ Append(items, e.item) \in Seq(Kept) /\ Append(wraps, e.wrap) \in Seq(Wraps)
        /\ told + e.carried \in Nat /\ expansion.diagnosed + e.diagnosed \in Nat
    BY <1>1, <1>5
  <2> QED BY ONLY <1>4, <2>1 DEF Expansions
<1>10. PICK gs \in Seq(Kept), is \in Seq(Kept), ws \in Seq(Wraps), n \in Nat :
         gs = given /\ is = items /\ ws = wraps /\ n = told
  BY <1>1
<1>11. n + e.carried >= Cardinality(Bare(Append(gs, m), Append(is, e.item), Append(ws, e.wrap)))
  <2>1. Len(is) = Len(gs) /\ Len(ws) = Len(gs) /\ n >= Cardinality(Bare(gs, is, ws))
    BY <1>1, <1>6, <1>10
  <2> QED BY <1>2, <2>1, OneMoreKept
<1>12. /\ Len(Append(is, e.item)) = Len(Append(gs, m)) /\ Len(Append(ws, e.wrap)) = Len(Append(gs, m))
       /\ \A i \in 1..Len(Append(gs, m)) :
            /\ Append(is, e.item)[i] = Unmarked(Append(gs, m)[i])
            /\ ~Guarded(Append(is, e.item)[i], Append(ws, e.wrap)[i])
  <2>1. /\ Len(is) = Len(gs) /\ Len(ws) = Len(gs)
        /\ \A i \in 1..Len(gs) : is[i] = Unmarked(gs[i]) /\ ~Guarded(is[i], ws[i])
    BY <1>1, <1>7, <1>10
  <2> QED BY ONLY <1>2, <1>5, <1>7, <2>1, gs \in Seq(Kept), is \in Seq(Kept), ws \in Seq(Wraps)
<1>13. stage' \in {"idle", "members", "expanded"}
  BY <1>4 DEF AttributeIInv
<1> QED BY <1>8, <1>9, <1>10, <1>11, <1>12, <1>13 DEF AttributeIInv

LEMMA InvokeStepInv ==
  ASSUME NEW macro \in {"instrument", "instrument_async", "main", "skip"},
         NEW args \in Arguments, NEW m \in Items, Invoke(macro, args, m)
  PROVE  AttributeIInv'
<1> DEFINE e == ExpansionOf(macro, args, m)
<1>1. Keeps(m, e) /\ (macro # "skip" => Tells(m, e)) /\ m \in Kept /\ macro \in Macros
  BY ItemIsKept DEF Kept, Macros
<1>2. /\ invocation' = [macro |-> macro, args |-> args, item |-> <<m>>]
      /\ expansion' = [e EXCEPT !.item = <<e.item>>, !.wrap = <<e.wrap>>]
      /\ stage' = "expanded"
  BY DEF Invoke
<1>3. e \in [item : Kept, wrap : Wraps, diagnosed : Nat, carried : Nat]
  BY <1>1 DEF Keeps
<1> HIDE DEF e
<1>4. expansion' = [item |-> <<e.item>>, wrap |-> <<e.wrap>>,
                    diagnosed |-> e.diagnosed, carried |-> e.carried]
  BY ONLY <1>2, <1>3
<1> QED BY ONLY <1>1, <1>2, <1>4, args \in Arguments, OneKept

LEMMA InvokeAllStepInv ==
  ASSUME NEW args \in Arguments, NEW m \in Items, InvokeAllFunctions(args, m)
  PROVE  AttributeIInv'
<1>1. PICK n \in Nat : n = IF args = "empty" THEN 0 ELSE 1
  OBVIOUS
<1>2. "all_functions" \in Macros /\ m \in Kept /\ Unmarked(m) = m
  BY ItemsAreUnmarked DEF Macros
<1>3. CASE m.is = "impl"
  <2>1. /\ invocation' = [macro |-> "all_functions", args |-> args, item |-> <<>>]
        /\ expansion' = [Nothing EXCEPT !.diagnosed = n, !.carried = n]
        /\ stage' = "members"
    BY <1>1, <1>3 DEF InvokeAllFunctions
  <2>2. expansion' = [item |-> <<>>, wrap |-> <<>>, diagnosed |-> n, carried |-> n]
    BY <2>1 DEF Nothing
  <2>3. <<>> \in Seq(Kept) /\ <<>> \in Seq(Wraps)
    OBVIOUS
  <2>4. expansion' \in Expansions
    BY ONLY <2>2, <2>3, n \in Nat DEF Expansions
  <2>5. /\ invocation' \in [macro : Macros, args : Arguments, item : Seq(Kept)]
        /\ invocation'.item = <<>> /\ invocation'.macro = "all_functions"
    BY ONLY <1>2, <2>1, <2>3, args \in Arguments
  <2>6. Cardinality(Bare(<<>>, <<>>, <<>>)) = 0
    BY NothingIsBare
  <2>7. expansion'.item = <<>> /\ expansion'.wrap = <<>> /\ expansion'.carried = n
    BY <2>2
  <2> QED BY <2>1, <2>4, <2>5, <2>6, <2>7 DEF AttributeIInv
<1>4. CASE m.is # "impl"
  <2>1. PICK e : e = Refused(m, n + 1)
    OBVIOUS
  <2>2. Keeps(m, e) /\ Tells(m, e)
    BY <1>2, <2>1, RefusalKeeps
  <2>3. e = [item |-> m, wrap |-> "none", diagnosed |-> n + 1, carried |-> n + 1]
    BY <2>1 DEF Refused, Output
  <2>4. /\ invocation' = [macro |-> "all_functions", args |-> args, item |-> <<m>>]
        /\ expansion' = [item |-> <<e.item>>, wrap |-> <<e.wrap>>,
                         diagnosed |-> e.diagnosed, carried |-> e.carried]
        /\ stage' = "expanded"
    BY <1>1, <1>4, <2>3 DEF InvokeAllFunctions
  <2>5. PICK macro \in Macros : macro = "all_functions"
    BY <1>2
  <2> QED BY ONLY <1>2, <2>2, <2>4, <2>5, args \in Arguments, OneKept
<1> QED BY <1>3, <1>4

LEMMA AttributeStepInv == AttributeIInv /\ [AttributeNext]_attributeVars => AttributeIInv'
<1> SUFFICES ASSUME AttributeIInv, [AttributeNext]_attributeVars PROVE AttributeIInv'
  OBVIOUS
<1>1. CASE UNCHANGED attributeVars
  BY <1>1 DEF AttributeIInv, attributeVars
<1>2. CASE \E macro \in {"instrument", "instrument_async", "main", "skip"}, args \in Arguments,
             item \in Items : Invoke(macro, args, item)
  BY <1>2, InvokeStepInv
<1>3. CASE \E args \in Arguments, item \in Items : InvokeAllFunctions(args, item)
  BY <1>3, InvokeAllStepInv
<1>4. CASE \E m \in Members : Member(m)
  BY <1>4, MemberStepInv
<1>5. CASE EndImpl
  BY <1>5 DEF AttributeIInv, EndImpl
<1> QED BY <1>1, <1>2, <1>3, <1>4, <1>5 DEF AttributeNext

\* Whatever an attribute macro is put on, its expansion keeps the item, no guard is held
\* across an await, and no body is left unwrapped in silence (instrument, main, skip and
\* all_functions of the macros), for impl blocks of any length.
THEOREM NothingIsLostInExpansion == AttributeSpec => []NothingLostInExpansion
<1>1. AttributeIInv => NothingLostInExpansion
  <2> SUFFICES ASSUME AttributeIInv PROVE NothingLostInExpansion
    OBVIOUS
  <2>1. /\ invocation.item \in Seq(Kept) /\ expansion.item \in Seq(Kept)
        /\ Len(expansion.item) = Len(invocation.item)
    BY DEF AttributeIInv, Expansions
  <2>2. /\ DOMAIN expansion.item = 1..Len(invocation.item)
        /\ DOMAIN invocation.item = 1..Len(invocation.item)
    BY <2>1
  <2>3. expansion.item = [i \in DOMAIN invocation.item |-> Unmarked(invocation.item[i])]
    <3>1. \A i \in 1..Len(invocation.item) : expansion.item[i] = Unmarked(invocation.item[i])
      BY DEF AttributeIInv
    <3>2. expansion.item = [i \in DOMAIN expansion.item |-> expansion.item[i]]
      BY <2>1
    <3> QED BY <2>2, <3>1, <3>2
  <2>4. \A i \in DOMAIN expansion.item : ~GuardAcrossAwait(i)
    BY <2>2 DEF AttributeIInv, GuardAcrossAwait, Guarded
  <2>5. invocation.macro # "skip" =>
          expansion.carried >= Cardinality(Bare(invocation.item, expansion.item, expansion.wrap))
    BY DEF AttributeIInv
  <2> QED BY <2>3, <2>4, <2>5 DEF NothingLostInExpansion, Bare
<1> QED BY <1>1, AttributeInitInv, AttributeStepInv, PTL DEF AttributeSpec
-----------------------------------------------------------------------------
\* error!: what has been read of a variant.

IsMeta(m) ==
  m = [tpl |-> m.tpl, code |-> m.code, category |-> m.category, advice |-> m.advice,
       action |-> m.action, from |-> m.from, doc |-> m.doc, cfg |-> m.cfg]

Slot(m, field) ==
  CASE field = "tpl" -> m.tpl
    [] field = "code" -> m.code
    [] field = "category" -> m.category
    [] field = "advice" -> m.advice
    [] field = "action" -> m.action

\* m2 is m with other slots set.
SameFlags(m, m2) == m2.from = m.from /\ m2.doc = m.doc /\ m2.cfg = m.cfg

LEMMA SlotIs ==
  ASSUME NEW m, IsMeta(m) PROVE \A field \in Fields : m[field] = Slot(m, field)
BY DEF Fields, Slot

LEMMA SetOnceIs ==
  ASSUME NEW m, IsMeta(m), NEW field \in Fields, NEW v
  PROVE  LET r == SetOnce(m, field, v)
         IN  /\ IsMeta(r.meta) /\ SameFlags(m, r.meta)
             /\ r.errors = {} <=> Slot(m, field) = None
             /\ \A f \in Fields : Slot(r.meta, f) = IF f = field THEN v ELSE Slot(m, f)
<1> DEFINE s == SetOnce(m, field, v)
<1>1. s.meta = [m EXCEPT ![field] = v] /\ s.errors = IF m[field] = None THEN {} ELSE {<<"duplicate", field>>}
  BY DEF SetOnce
<1>2. s.errors = {} <=> Slot(m, field) = None
  BY <1>1, SlotIs
<1> HIDE DEF s
<1>3. CASE field = "tpl"
  <2>1. s.meta = [tpl |-> v, code |-> m.code, category |-> m.category, advice |-> m.advice,
                  action |-> m.action, from |-> m.from, doc |-> m.doc, cfg |-> m.cfg]
    BY <1>1, <1>3 DEF IsMeta
  <2> QED BY <1>2, <1>3, <2>1 DEF IsMeta, SameFlags, Slot, Fields, s
<1>4. CASE field = "code"
  <2>1. s.meta = [tpl |-> m.tpl, code |-> v, category |-> m.category, advice |-> m.advice,
                  action |-> m.action, from |-> m.from, doc |-> m.doc, cfg |-> m.cfg]
    BY <1>1, <1>4 DEF IsMeta
  <2> QED BY <1>2, <1>4, <2>1 DEF IsMeta, SameFlags, Slot, Fields, s
<1>5. CASE field = "category"
  <2>1. s.meta = [tpl |-> m.tpl, code |-> m.code, category |-> v, advice |-> m.advice,
                  action |-> m.action, from |-> m.from, doc |-> m.doc, cfg |-> m.cfg]
    BY <1>1, <1>5 DEF IsMeta
  <2> QED BY <1>2, <1>5, <2>1 DEF IsMeta, SameFlags, Slot, Fields, s
<1>6. CASE field = "advice"
  <2>1. s.meta = [tpl |-> m.tpl, code |-> m.code, category |-> m.category, advice |-> v,
                  action |-> m.action, from |-> m.from, doc |-> m.doc, cfg |-> m.cfg]
    BY <1>1, <1>6 DEF IsMeta
  <2> QED BY <1>2, <1>6, <2>1 DEF IsMeta, SameFlags, Slot, Fields, s
<1>7. CASE field = "action"
  <2>1. s.meta = [tpl |-> m.tpl, code |-> m.code, category |-> m.category, advice |-> m.advice,
                  action |-> v, from |-> m.from, doc |-> m.doc, cfg |-> m.cfg]
    BY <1>1, <1>7 DEF IsMeta
  <2> QED BY <1>2, <1>7, <2>1 DEF IsMeta, SameFlags, Slot, Fields, s
<1> QED BY <1>3, <1>4, <1>5, <1>6, <1>7 DEF Fields

-----------------------------------------------------------------------------
\* What is written of a variant, and one attribute more.

More(w, w2, a) == w2.attributes = w.attributes (+) SetToBag({a})

LEMMA BagMore ==
  ASSUME NEW B, IsABag(B), NEW a
  PROVE  LET B2 == B (+) SetToBag({a})
         IN  /\ IsABag(B2) /\ BagToSet(B2) = BagToSet(B) \cup {a}
             /\ \A b \in BagToSet(B) : b # a => B2[b] = B[b]
             /\ a \in BagToSet(B) => B2[a] > 1
             /\ a \notin BagToSet(B) => B2[a] = 1
<1> DEFINE B2 == B (+) SetToBag({a})
<1>1. B \in [DOMAIN B -> {n \in Nat : n > 0}]
  BY DEF IsABag
<1>2. DOMAIN SetToBag({a}) = {a} /\ SetToBag({a})[a] = 1
  BY DEF SetToBag
<1>3. B2 = [e \in (DOMAIN B) \cup {a} |->
              (IF e \in DOMAIN B THEN B[e] ELSE 0) + (IF e \in {a} THEN SetToBag({a})[e] ELSE 0)]
  BY <1>2 DEF (+)
<1> HIDE DEF B2
<1>4. /\ DOMAIN B2 = (DOMAIN B) \cup {a}
      /\ \A e \in (DOMAIN B) \cup {a} :
           B2[e] = (IF e \in DOMAIN B THEN B[e] ELSE 0) + (IF e \in {a} THEN 1 ELSE 0)
  BY <1>2, <1>3
<1>5. \A e \in DOMAIN B : B[e] \in Nat /\ B[e] > 0
  BY <1>1
<1>6. /\ \A b \in DOMAIN B : b # a => B2[b] = B[b]
      /\ a \in DOMAIN B => B2[a] = B[a] + 1
      /\ a \notin DOMAIN B => B2[a] = 1
  BY <1>4, <1>5
<1>7. B2 \in [DOMAIN B2 -> {n \in Nat : n > 0}]
  <2>1. \A e \in DOMAIN B2 : B2[e] \in {n \in Nat : n > 0}
    BY <1>4, <1>5, <1>6
  <2>2. B2 = [e \in DOMAIN B2 |-> B2[e]]
    BY <1>3
  <2> QED BY <2>1, <2>2
<1> QED BY <1>4, <1>5, <1>6, <1>7, SMTT(30) DEF IsABag, BagToSet, B2

LEMMA GivenMore ==
  ASSUME NEW w, NEW w2, NEW a, IsABag(w.attributes), More(w, w2, a), NEW field
  PROVE  /\ IsGiven(w2, field) <=> IsGiven(w, field) \/ Places(a, field) # {}
         /\ GivenTwice(w2, field) <=> \/ GivenTwice(w, field)
                                      \/ IsGiven(w, field) /\ Places(a, field) # {}
                                      \/ \E i, j \in Places(a, field) : i # j
<1> DEFINE As == BagToSet(w.attributes)
           B2 == w2.attributes
<1>1. /\ BagToSet(B2) = As \cup {a}
      /\ \A b \in As : b # a => B2[b] = w.attributes[b]
      /\ a \in As => B2[a] > 1
      /\ a \notin As => B2[a] = 1
  <2>1. PICK B : B = w.attributes
    OBVIOUS
  <2>2. IsABag(B) /\ B2 = B (+) SetToBag({a})
    BY <2>1 DEF More
  <2>3. LET C == B (+) SetToBag({a})
        IN  /\ BagToSet(C) = BagToSet(B) \cup {a}
            /\ \A b \in BagToSet(B) : b # a => C[b] = B[b]
            /\ a \in BagToSet(B) => C[a] > 1
            /\ a \notin BagToSet(B) => C[a] = 1
    BY ONLY <2>2, BagMore
  <2>4. /\ BagToSet(B2) = BagToSet(B) \cup {a}
        /\ \A b \in BagToSet(B) : b # a => B2[b] = B[b]
        /\ a \in BagToSet(B) => B2[a] > 1
        /\ a \notin BagToSet(B) => B2[a] = 1
    BY ONLY <2>2, <2>3
  <2> QED BY ONLY <2>1, <2>4
<1>2. IsGiven(w2, field) <=> IsGiven(w, field) \/ Places(a, field) # {}
  BY <1>1 DEF IsGiven
<1>3. ASSUME GivenTwice(w, field) PROVE GivenTwice(w2, field)
  <2>a. PICK b \in As, c \in As : \E i \in Places(b, field), j \in Places(c, field) :
          <<b, i>> # <<c, j>> \/ w.attributes[b] > 1
    BY <1>3 DEF GivenTwice
  <2>1. PICK i \in Places(b, field), j \in Places(c, field) :
          <<b, i>> # <<c, j>> \/ w.attributes[b] > 1
    BY <2>a
  <2>2. <<b, i>> # <<c, j>> \/ B2[b] > 1
    BY <1>1, <2>1
  <2> QED BY <1>1, <2>2 DEF GivenTwice
<1>4. ASSUME IsGiven(w, field), Places(a, field) # {} PROVE GivenTwice(w2, field)
  <2>a. PICK b \in As : Places(b, field) # {}
    BY <1>4 DEF IsGiven
  <2>1. PICK i \in Places(b, field), j \in Places(a, field) : TRUE
    BY <1>4, <2>a
  <2>2. <<b, i>> # <<a, j>> \/ B2[b] > 1
    BY <1>1
  <2> QED BY <1>1, <2>2 DEF GivenTwice
<1>5. ASSUME NEW i \in Places(a, field), NEW j \in Places(a, field), i # j PROVE GivenTwice(w2, field)
  <2>1. <<a, i>> # <<a, j>>
    BY <1>5
  <2> QED BY <1>1, <2>1 DEF GivenTwice
<1>6. ASSUME GivenTwice(w2, field), ~(IsGiven(w, field) /\ Places(a, field) # {}),
             ~(\E i, j \in Places(a, field) : i # j)
      PROVE  GivenTwice(w, field)
  <2>a. PICK b \in As \cup {a}, c \in As \cup {a} :
          \E i \in Places(b, field), j \in Places(c, field) : <<b, i>> # <<c, j>> \/ B2[b] > 1
    BY <1>1, <1>6 DEF GivenTwice
  <2>1. PICK i \in Places(b, field), j \in Places(c, field) : <<b, i>> # <<c, j>> \/ B2[b] > 1
    BY <2>a
  <2>2. Places(b, field) # {} /\ Places(c, field) # {}
    OBVIOUS
  <2>3. CASE IsGiven(w, field)
    <3>1. Places(a, field) = {}
      BY <1>6, <2>3
    <3>2. b # a /\ c # a
      BY <2>2, <3>1
    <3>3. b \in As /\ c \in As /\ B2[b] = w.attributes[b]
      BY <1>1, <3>2
    <3> QED BY <2>1, <3>3 DEF GivenTwice
  <2>4. CASE ~IsGiven(w, field)
    <3>1. b = a /\ c = a /\ a \notin As
      BY <2>2, <2>4 DEF IsGiven
    <3>2. i = j
      BY <1>6, <3>1
    <3> QED BY <1>1, <2>1, <3>1, <3>2
  <2> QED BY <2>3, <2>4
<1> QED BY <1>2, <1>3, <1>4, <1>5, <1>6

\* A comma that no key follows ends the list.
BlankIsLast(tail) == \A i \in DOMAIN tail : tail[i].key = "none" => i = Len(tail)

LEMMA LeastMember ==
  ASSUME NEW S, S \subseteq Nat, S # {} PROVE \E i \in S : \A j \in S : i <= j
<1>1. PICK i \in S : \A j \in S : ~(<<j, i>> \in Smaller)
  <2>1. IsWellFoundedOn(Smaller, Nat)
    BY SmallerWellFounded
  <2>2. \E x \in S : \A y \in S : ~(<<y, x>> \in Smaller)
    BY ONLY <2>1, S \subseteq Nat, S # {}, WFMin
  <2> QED BY <2>2
<1>2. \A j \in S : i \in Nat /\ j \in Nat /\ (j < i => <<j, i>> \in Smaller)
  BY DEF Smaller
<1>3. ASSUME NEW j \in S PROVE i <= j
  <2>1. i \in Nat /\ j \in Nat /\ ~(j < i)
    BY <1>1, <1>2
  <2> QED BY ONLY <2>1
<1> QED BY <1>3

LEMMA GreatestMember ==
  ASSUME NEW n \in Nat, NEW S, S \subseteq 1..n, S # {} PROVE \E i \in S : \A j \in S : j <= i
<1>0. PICK one \in S : TRUE
  OBVIOUS
<1>1. {n - i : i \in S} \subseteq Nat /\ {n - i : i \in S} # {}
  <2>1. \A i \in S : n - i \in Nat
    OBVIOUS
  <2>2. n - one \in {n - i : i \in S}
    BY <1>0
  <2> QED BY <2>1, <2>2
<1>2. PICK k \in {n - i : i \in S} : \A l \in {n - i : i \in S} : k <= l
  BY ONLY <1>1, LeastMember
<1>3. PICK i \in S : k = n - i
  BY <1>2
<1>4. ASSUME NEW j \in S PROVE j <= i
  <2>1. n - j \in {n - h : h \in S}
    OBVIOUS
  <2>2. n - i <= n - j
    BY <1>2, <1>3, <2>1
  <2> QED BY <2>2
<1> QED BY <1>4

\* A well spelled list, or one without complaints, is read to its end.
LEMMA ReadToTheEnd ==
  ASSUME NEW tail, tail \in Seq(Range(tail)), BlankIsLast(tail),
         \A i \in ReadOf(tail) : tail[i].key # "unseparated"
  PROVE  ReadOf(tail) = DOMAIN tail
<1>1. DOMAIN tail = 1..Len(tail) /\ Len(tail) \in Nat
  OBVIOUS
<1>2. CASE EndsOf(tail) = {}
  BY <1>2 DEF ReadOf
<1>3. CASE EndsOf(tail) # {}
  <2>1. EndsOf(tail) \subseteq Nat
    BY <1>1 DEF EndsOf
  <2>2. PICK e \in EndsOf(tail) : \A j \in EndsOf(tail) : e <= j
    BY ONLY <1>3, <2>1, LeastMember
  <2>3. e \in ReadOf(tail) /\ e \in DOMAIN tail
    BY <2>2 DEF ReadOf, EndsOf
  <2>4. e = Len(tail)
    BY <2>3 DEF EndsOf, BlankIsLast
  <2>5. \A i \in DOMAIN tail, j \in EndsOf(tail) : i <= j
    BY <1>1, <2>1, <2>2, <2>4
  <2> QED BY <2>5 DEF ReadOf
<1> QED BY <1>2, <1>3

-----------------------------------------------------------------------------
\* One attribute, interpreted.

\* Spelled as documented, and a template as a literal: what the parser takes.
Taken(a) == WellSpelled(a) /\ ~(a.is = "error" /\ a.value = "word")

Accepts(m, a) ==
  /\ Taken(a)
  /\ \A f \in Fields : /\ Places(a, f) # {} => Slot(m, f) = None
                       /\ \A i, j \in Places(a, f) : i = j

\* The slots of m2 are those of m and those a gives a value to.
SlotsOf(m, a, m2) ==
  \A f \in Fields : Slot(m2, f) # None <=> Slot(m, f) # None \/ Places(a, f) # {}

\* What does not depend on how often a slot is given: the template, the code, from.
FlagsOf(m, a, m2) ==
  /\ IsMeta(m2)
  /\ m2.from <=> m.from \/ a.is = "from"
  /\ IF a.is = "error" THEN m.tpl = None /\ a.value # None /\ m2.tpl = a.value ELSE m2.tpl = m.tpl
  /\ IF a.is = "code" THEN m.code = None /\ a.value # None /\ m2.code = a.value ELSE m2.code = m.code

\* The slots of m2 are those of m after the tail.
LastGiven(m, tail, m2) == \A f \in TailFields : Slot(m2, f) = LastOr(tail, f, Slot(m, f))

LEMMA TailIs ==
  ASSUME NEW m, IsMeta(m), NEW lit, lit # None, NEW tail
  PROVE  LET r == ParseCodeTail(m, lit, tail)
         IN  /\ IsMeta(r.meta) /\ SameFlags(m, r.meta)
             /\ r.meta.tpl = m.tpl /\ r.meta.code = lit
             /\ LastGiven(m, tail, r.meta)
             /\ r.errors = {} <=> m.code = None /\ TailErrors(m, tail) = {}
<1>1. PICK one : one = SetOnce(m, "code", lit)
  OBVIOUS
<1>2. /\ IsMeta(one.meta) /\ SameFlags(m, one.meta) /\ (one.errors = {} <=> m.code = None)
      /\ one.meta.tpl = m.tpl /\ one.meta.code = lit
  <2>1. "code" \in Fields /\ "tpl" \in Fields
    BY DEF Fields
  <2>2. /\ IsMeta(one.meta) /\ SameFlags(m, one.meta) /\ (one.errors = {} <=> Slot(m, "code") = None)
        /\ \A f \in Fields : Slot(one.meta, f) = IF f = "code" THEN lit ELSE Slot(m, f)
    BY <1>1, <2>1, SetOnceIs
  <2>3. Slot(one.meta, "tpl") = Slot(m, "tpl") /\ Slot(one.meta, "code") = lit
    BY <2>1, <2>2
  <2> QED BY <2>2, <2>3 DEF Slot
<1> DEFINE c == LastOr(tail, "category", m.category)
           d == LastOr(tail, "advice", m.advice)
           e == LastOr(tail, "action", m.action)
           r == ParseCodeTail(m, lit, tail)
           x == one.meta
<1>3. r = [meta |-> [x EXCEPT !.category = c, !.advice = d, !.action = e],
           errors |-> one.errors \cup TailErrors(m, tail)]
  BY <1>1 DEF ParseCodeTail
<1> HIDE DEF c, d, e, r, x
<1>y. x = [tpl |-> m.tpl, code |-> lit, category |-> x.category, advice |-> x.advice,
           action |-> x.action, from |-> m.from, doc |-> m.doc, cfg |-> m.cfg]
  BY <1>2 DEF IsMeta, SameFlags, x
<1>x. PICK k, l, n : x = [tpl |-> m.tpl, code |-> lit, category |-> k, advice |-> l,
                          action |-> n, from |-> m.from, doc |-> m.doc, cfg |-> m.cfg]
  BY ONLY <1>y
<1>4. [x EXCEPT !.category = c, !.advice = d, !.action = e] =
        [tpl |-> m.tpl, code |-> lit, category |-> c, advice |-> d,
         action |-> e, from |-> m.from, doc |-> m.doc, cfg |-> m.cfg]
  <2>1. PICK y : y = [x EXCEPT !.category = c]
    OBVIOUS
  <2>2. PICK z : z = [y EXCEPT !.advice = d]
    OBVIOUS
  <2>3. y = [tpl |-> m.tpl, code |-> lit, category |-> c, advice |-> l,
             action |-> n, from |-> m.from, doc |-> m.doc, cfg |-> m.cfg]
    BY ONLY <1>x, <2>1
  <2>4. z = [tpl |-> m.tpl, code |-> lit, category |-> c, advice |-> d,
             action |-> n, from |-> m.from, doc |-> m.doc, cfg |-> m.cfg]
    BY ONLY <2>2, <2>3
  <2>5. [z EXCEPT !.action = e] =
          [tpl |-> m.tpl, code |-> lit, category |-> c, advice |-> d,
           action |-> e, from |-> m.from, doc |-> m.doc, cfg |-> m.cfg]
    BY ONLY <2>4
  <2>6. [x EXCEPT !.category = c, !.advice = d, !.action = e] =
          [[[x EXCEPT !.category = c] EXCEPT !.advice = d] EXCEPT !.action = e]
    BY ONLY TRUE
  <2> QED BY ONLY <2>1, <2>2, <2>5, <2>6
<1>5. r.meta = [tpl |-> m.tpl, code |-> lit, category |-> c, advice |-> d,
                action |-> e, from |-> m.from, doc |-> m.doc, cfg |-> m.cfg]
  BY ONLY <1>3, <1>4
<1>6. r.errors = {} <=> m.code = None /\ TailErrors(m, tail) = {}
  BY <1>2, <1>3
<1>7. /\ r.meta.tpl = m.tpl /\ r.meta.code = lit /\ r.meta.category = c /\ r.meta.advice = d
      /\ r.meta.action = e /\ r.meta.from = m.from /\ r.meta.doc = m.doc /\ r.meta.cfg = m.cfg
  BY <1>5
<1>8. IsMeta(r.meta) /\ SameFlags(m, r.meta)
  BY <1>5, <1>7 DEF IsMeta, SameFlags
<1>9. LastGiven(m, tail, r.meta)
  BY <1>7 DEF LastGiven, TailFields, Slot, c, d, e
<1> QED BY <1>6, <1>7, <1>8, <1>9 DEF r

\* The flags that are set without a slot.
LEMMA FlagSet ==
  ASSUME NEW m, IsMeta(m), NEW v
  PROVE  /\ IsMeta([m EXCEPT !.from = v]) /\ IsMeta([m EXCEPT !.doc = v]) /\ IsMeta([m EXCEPT !.cfg = v])
         /\ \A f \in Fields : /\ Slot([m EXCEPT !.from = v], f) = Slot(m, f)
                              /\ Slot([m EXCEPT !.doc = v], f) = Slot(m, f)
                              /\ Slot([m EXCEPT !.cfg = v], f) = Slot(m, f)
         /\ [m EXCEPT !.from = v].from = v
         /\ [m EXCEPT !.doc = v].from = m.from /\ [m EXCEPT !.cfg = v].from = m.from
<1>1. [m EXCEPT !.from = v] =
        [tpl |-> m.tpl, code |-> m.code, category |-> m.category, advice |-> m.advice,
         action |-> m.action, from |-> v, doc |-> m.doc, cfg |-> m.cfg]
  BY DEF IsMeta
<1>2. [m EXCEPT !.doc = v] =
        [tpl |-> m.tpl, code |-> m.code, category |-> m.category, advice |-> m.advice,
         action |-> m.action, from |-> m.from, doc |-> v, cfg |-> m.cfg]
  BY DEF IsMeta
<1>3. [m EXCEPT !.cfg = v] =
        [tpl |-> m.tpl, code |-> m.code, category |-> m.category, advice |-> m.advice,
         action |-> m.action, from |-> m.from, doc |-> m.doc, cfg |-> v]
  BY DEF IsMeta
<1>4. \A f \in Fields : /\ Slot([m EXCEPT !.from = v], f) = Slot(m, f)
                        /\ Slot([m EXCEPT !.doc = v], f) = Slot(m, f)
                        /\ Slot([m EXCEPT !.cfg = v], f) = Slot(m, f)
  BY <1>1, <1>2, <1>3 DEF Slot, Fields
<1>5. IsMeta([m EXCEPT !.from = v]) /\ IsMeta([m EXCEPT !.doc = v]) /\ IsMeta([m EXCEPT !.cfg = v])
  BY <1>1, <1>2, <1>3 DEF IsMeta
<1> QED BY <1>1, <1>2, <1>3, <1>4, <1>5

\* An attribute whose only value goes to one slot.
LEMMA SlotRead ==
  ASSUME NEW m, IsMeta(m), NEW a, NEW field \in Fields,
         NEW val, val # None => val = a.value /\ a.value # None,
         Interpret(m, a) = SetOr(m, field, val), Taken(a) <=> val # None,
         \A f \in Fields : Places(a, f) = {i \in {0} : f = field /\ a.value # None}
  PROVE  LET r == Interpret(m, a)
         IN  /\ IsMeta(r.meta) /\ SameFlags(m, r.meta)
             /\ r.errors = {} <=> Accepts(m, a)
             /\ r.errors = {} => SlotsOf(m, a, r.meta)
             /\ r.errors = {} => /\ a.value # None /\ Slot(m, field) = None
                                 /\ Slot(r.meta, field) = a.value
                                 /\ \A f \in Fields : f # field => Slot(r.meta, f) = Slot(m, f)
<1>1. CASE val = None
  <2>1. Interpret(m, a).meta = m /\ Interpret(m, a).errors # {}
    <3>1. PICK e : e = {<<"malformed", field>>}
      OBVIOUS
    <3>2. e # {}
      BY ONLY <3>1
    <3>3. Interpret(m, a) = [meta |-> m, errors |-> e]
      BY <1>1, <3>1 DEF SetOr, Complain
    <3> QED BY ONLY <3>2, <3>3
  <2>2. ~Accepts(m, a)
    BY <1>1 DEF Accepts
  <2> QED BY <2>1, <2>2 DEF SameFlags
<1>2. CASE val # None
  <2>1. PICK r : r = Interpret(m, a)
    OBVIOUS
  <2>2. r = SetOnce(m, field, a.value)
    BY <1>2, <2>1 DEF SetOr
  <2>3. /\ IsMeta(r.meta) /\ SameFlags(m, r.meta)
        /\ r.errors = {} <=> Slot(m, field) = None
        /\ \A f \in Fields : Slot(r.meta, f) = IF f = field THEN a.value ELSE Slot(m, f)
    BY <2>2, SetOnceIs
  <2>4. \A f \in Fields : Places(a, f) = IF f = field THEN {0} ELSE {}
    BY <1>2
  <2>5. Accepts(m, a) <=> Slot(m, field) = None
    BY <1>2, <2>4 DEF Accepts
  <2>6. SlotsOf(m, a, r.meta)
    BY <1>2, <2>3, <2>4 DEF SlotsOf
  <2> QED BY <1>2, <2>1, <2>3, <2>5, <2>6
<1> QED BY <1>1, <1>2

\* Every item of the tail that is read is good, and no slot is given twice.
TailFine(m, tail) ==
  /\ \A j \in ReadOf(tail) : tail[j].key = "none" \/ (tail[j].key \in TailFields /\ tail[j].value # None)
  /\ \A f \in TailFields : /\ SetBy(tail, f) # {} => Slot(m, f) = None
                           /\ \A i, j \in SetBy(tail, f) : i = j

LEMMA TailErrorsAre ==
  ASSUME NEW m, IsMeta(m), NEW tail PROVE TailErrors(m, tail) = {} <=> TailFine(m, tail)
<1>1. \A f \in TailFields : m[f] = Slot(m, f)
  BY SlotIs DEF TailFields, Fields
<1> DEFINE twice == {f \in TailFields : \/ SetBy(tail, f) # {} /\ m[f] # None
                                        \/ \E i, j \in SetBy(tail, f) : i # j}
           bad   == {j \in ReadOf(tail) : /\ tail[j].key # "none"
                                          /\ tail[j].key \in TailFields => tail[j].value = None}
<1>2. TailErrors(m, tail) = {<<"duplicate", f>> : f \in twice} \cup {<<"malformed", "code">> : i \in bad}
  BY DEF TailErrors
<1>3. TailErrors(m, tail) = {} <=> twice = {} /\ bad = {}
  <2> HIDE DEF twice, bad
  <2> QED BY <1>2
<1>4. twice = {} <=> \A f \in TailFields : /\ SetBy(tail, f) # {} => Slot(m, f) = None
                                           /\ \A i, j \in SetBy(tail, f) : i = j
  BY <1>1
<1>5. bad = {} <=> \A j \in ReadOf(tail) : \/ tail[j].key = "none"
                                           \/ tail[j].key \in TailFields /\ tail[j].value # None
  <2>1. \A j \in ReadOf(tail) : j \in bad <=> ~(\/ tail[j].key = "none"
                                                \/ tail[j].key \in TailFields /\ tail[j].value # None)
    OBVIOUS
  <2>2. bad \subseteq ReadOf(tail)
    OBVIOUS
  <2> HIDE DEF bad
  <2> QED BY <2>1, <2>2
<1> QED BY ONLY <1>3, <1>4, <1>5 DEF TailFine

LEMMA LastOrIs ==
  ASSUME NEW tail, tail \in Seq(Range(tail)), NEW field, NEW now
  PROVE  LastOr(tail, field, now) # None <=> SetBy(tail, field) # {} \/ now # None
<1>1. CASE SetBy(tail, field) = {}
  BY <1>1 DEF LastOr
<1>2. CASE SetBy(tail, field) # {}
  <2>1. PICK n \in Nat : n = Len(tail) /\ DOMAIN tail = 1..n
    OBVIOUS
  <2>2. PICK set : set = SetBy(tail, field)
    OBVIOUS
  <2>3. set \subseteq 1..n /\ set # {}
    BY <1>2, <2>1, <2>2 DEF SetBy, ReadOf
  <2>4. \E i \in set : \A j \in set : j <= i
    BY ONLY <2>3, GreatestMember
  <2>5. PICK k \in set : k = CHOOSE i \in set : \A j \in set : j <= i
    BY <2>4
  <2>6. LastOr(tail, field, now) = tail[k].value
    BY <1>2, <2>2, <2>5 DEF LastOr
  <2>7. tail[k].value # None
    BY <2>2 DEF SetBy
  <2> QED BY <1>2, <2>6, <2>7
<1> QED BY <1>1, <1>2

LEMMA CodePlaces ==
  ASSUME NEW a, IsAttribute(a), a.is = "code", a.value # None
  PROVE  /\ Places(a, "tpl") = {} /\ Places(a, "code") = {0}
         /\ \A f \in TailFields :
              Places(a, f) = {i \in DOMAIN a.tail : a.tail[i].key = f /\ a.tail[i].value # None}
<1>1. \A i \in DOMAIN a.tail : a.tail[i].key # "tpl" /\ a.tail[i].key # "code"
  BY DEF IsAttribute
<1>2. Places(a, "tpl") = {}
  BY <1>1 DEF Places
<1>3. Places(a, "code") = {0}
  BY <1>1 DEF Places
<1>4. ASSUME NEW f \in TailFields
      PROVE  Places(a, f) = {i \in DOMAIN a.tail : a.tail[i].key = f /\ a.tail[i].value # None}
  BY DEF Places, TailFields
<1> QED BY <1>2, <1>3, <1>4

LEMMA TailRead ==
  ASSUME NEW m, IsMeta(m), NEW a, IsAttribute(a), a.is = "code", a.value # None,
         BlankIsLast(a.tail)
  PROVE  Accepts(m, a) <=> m.code = None /\ TailFine(m, a.tail)
<1> DEFINE tail == a.tail
<1>1. /\ tail \in Seq(Range(tail))
      /\ \A i \in DOMAIN tail :
           tail[i].key \in {"category", "advice", "action", "other", "unseparated", "none"}
  BY DEF IsAttribute
<1>2. /\ Places(a, "tpl") = {} /\ Places(a, "code") = {0}
      /\ \A f \in TailFields :
           Places(a, f) = {i \in DOMAIN tail : tail[i].key = f /\ tail[i].value # None}
  BY CodePlaces
<1>3. Taken(a) <=> \A i \in DOMAIN tail : \/ tail[i].key \in TailFields /\ tail[i].value # None
                                          \/ tail[i].key = "none" /\ i = Len(tail)
  <2>1. Taken(a) <=>
          /\ a.value # None
          /\ \A i \in DOMAIN a.tail :
               \/ a.tail[i].key \in {"category", "advice", "action"} /\ a.tail[i].value # None
               \/ a.tail[i].key = "none" /\ i = Len(a.tail)
    BY ONLY a.is = "code" DEF Taken, WellSpelled
  <2> QED BY <2>1 DEF TailFields
<1>4. ReadOf(tail) \subseteq DOMAIN tail
  BY DEF ReadOf
<1>5. ASSUME Taken(a) \/ TailFine(m, tail) PROVE ReadOf(tail) = DOMAIN tail
  <2>1. \A i \in ReadOf(tail) : tail[i].key # "unseparated"
    BY <1>3, <1>4, <1>5 DEF TailFine, TailFields
  <2> QED BY ONLY <1>1, <2>1, BlankIsLast(tail), ReadToTheEnd
<1>6. ASSUME ReadOf(tail) = DOMAIN tail
      PROVE  /\ \A f \in TailFields : SetBy(tail, f) = Places(a, f)
             /\ Taken(a) <=> \A j \in ReadOf(tail) :
                  \/ tail[j].key = "none"
                  \/ tail[j].key \in TailFields /\ tail[j].value # None
  <2>1. \A f \in TailFields : SetBy(tail, f) = Places(a, f)
    BY <1>2, <1>6 DEF SetBy
  <2>2. \A i \in DOMAIN tail : tail[i].key = "none" => i = Len(tail)
    BY DEF BlankIsLast
  <2>3. Taken(a) <=> \A j \in DOMAIN tail :
          \/ tail[j].key = "none"
          \/ tail[j].key \in TailFields /\ tail[j].value # None
    BY ONLY <1>3, <2>2
  <2> QED BY ONLY <1>6, <2>1, <2>3
<1>7. Fields = {"tpl", "code"} \cup TailFields
  BY DEF Fields, TailFields
<1>8. (\A f \in Fields : /\ Places(a, f) # {} => Slot(m, f) = None
                         /\ \A i, j \in Places(a, f) : i = j)
        <=> /\ m.code = None
            /\ \A f \in TailFields : /\ Places(a, f) # {} => Slot(m, f) = None
                                     /\ \A i, j \in Places(a, f) : i = j
  <2> DEFINE Once(f) == /\ Places(a, f) # {} => Slot(m, f) = None
                        /\ \A i, j \in Places(a, f) : i = j
  <2>1. Once("tpl")
    BY <1>2
  <2>2. Once("code") <=> m.code = None
    <3>1. Slot(m, "code") = m.code
      BY DEF Slot
    <3> QED BY <1>2, <3>1
  <2> HIDE DEF Once
  <2>3. (\A f \in Fields : Once(f)) <=> m.code = None /\ \A f \in TailFields : Once(f)
    BY ONLY <1>7, <2>1, <2>2
  <2> QED BY ONLY <2>3 DEF Once
<1>9. ASSUME Accepts(m, a) PROVE m.code = None /\ TailFine(m, tail)
  <2>1. Taken(a) /\ ReadOf(tail) = DOMAIN tail
    BY <1>5, <1>9 DEF Accepts
  <2> QED BY <1>6, <1>8, <1>9, <2>1 DEF Accepts, TailFine
<1>10. ASSUME m.code = None, TailFine(m, tail) PROVE Accepts(m, a)
  <2>1. ReadOf(tail) = DOMAIN tail
    BY <1>5, <1>10
  <2> QED BY <1>6, <1>8, <1>10, <2>1 DEF Accepts, TailFine
<1> QED BY <1>9, <1>10

LEMMA CodeRead ==
  ASSUME NEW m, IsMeta(m), NEW a, IsAttribute(a), a.is = "code"
  PROVE  LET r == Interpret(m, a)
         IN  /\ IsMeta(r.meta)
             /\ r.errors = {} => FlagsOf(m, a, r.meta)
             /\ BlankIsLast(a.tail) => /\ r.errors = {} <=> Accepts(m, a)
                                       /\ r.errors = {} => SlotsOf(m, a, r.meta)
<1>1. Interpret(m, a) = ParseCodeTail(m, a.value, a.tail)
  BY DEF Interpret
<1>2. CASE a.value = None
  <2>1. PICK e : e = {<<"malformed", "code">>}
    OBVIOUS
  <2>2. e # {}
    BY ONLY <2>1
  <2>3. Interpret(m, a) = [meta |-> m, errors |-> e]
    BY <1>1, <1>2, <2>1 DEF ParseCodeTail, Complain
  <2>4. ~Accepts(m, a)
    BY <1>2 DEF Accepts, Taken, WellSpelled
  <2>5. Interpret(m, a).meta = m /\ Interpret(m, a).errors # {}
    BY ONLY <2>2, <2>3
  <2> QED BY <2>4, <2>5
<1>3. CASE a.value # None
  <2> DEFINE tail == a.tail
  <2>1. PICK r : r = Interpret(m, a)
    OBVIOUS
  <2>2. PICK lit : lit = a.value /\ lit # None
    BY <1>3
  <2>3. /\ IsMeta(r.meta) /\ SameFlags(m, r.meta)
        /\ r.meta.tpl = m.tpl /\ r.meta.code = lit
        /\ \A f \in TailFields : Slot(r.meta, f) = LastOr(tail, f, Slot(m, f))
        /\ r.errors = {} <=> m.code = None /\ TailErrors(m, tail) = {}
    <3>1. PICK t : t = tail
      OBVIOUS
    <3>2. r = ParseCodeTail(m, lit, t)
      BY <1>1, <2>1, <2>2, <3>1
    <3>3. /\ IsMeta(r.meta) /\ SameFlags(m, r.meta)
          /\ r.meta.tpl = m.tpl /\ r.meta.code = lit
          /\ LastGiven(m, t, r.meta)
          /\ r.errors = {} <=> m.code = None /\ TailErrors(m, t) = {}
      <4>1. IsMeta(r.meta) /\ SameFlags(m, r.meta)
        BY <2>2, <3>2, TailIs
      <4>2. r.meta.tpl = m.tpl /\ r.meta.code = lit
        BY <2>2, <3>2, TailIs
      <4>3. LastGiven(m, t, r.meta)
        BY <2>2, <3>2, TailIs
      <4>4. r.errors = {} <=> m.code = None /\ TailErrors(m, t) = {}
        BY <2>2, <3>2, TailIs
      <4> QED BY <4>1, <4>2, <4>3, <4>4
    <3> QED BY ONLY <3>1, <3>3 DEF LastGiven
  <2>4. TailErrors(m, tail) = {} <=> TailFine(m, tail)
    BY TailErrorsAre
  <2>5. r.errors = {} => FlagsOf(m, a, r.meta)
    BY <2>2, <2>3 DEF FlagsOf, SameFlags
  <2>6. tail \in Seq(Range(tail))
    BY DEF IsAttribute
  <2>7. \A f \in TailFields : Slot(r.meta, f) # None <=> SetBy(tail, f) # {} \/ Slot(m, f) # None
    <3>1. \A f, now : LastOr(tail, f, now) # None <=> SetBy(tail, f) # {} \/ now # None
      BY <2>6, LastOrIs
    <3> QED BY <2>3, <3>1 DEF TailFields, Slot
  <2>8. ASSUME BlankIsLast(tail) PROVE r.errors = {} <=> Accepts(m, a)
    <3>1. Accepts(m, a) <=> m.code = None /\ TailFine(m, tail)
      BY <1>3, <2>8, TailRead
    <3> QED BY <2>3, <2>4, <3>1
  <2>9. ASSUME BlankIsLast(tail), r.errors = {} PROVE SlotsOf(m, a, r.meta)
    <3>1. /\ Places(a, "tpl") = {} /\ Places(a, "code") = {0}
          /\ \A f \in TailFields :
               Places(a, f) = {i \in DOMAIN tail : tail[i].key = f /\ tail[i].value # None}
      BY <1>3, CodePlaces
    <3>2. \A i \in ReadOf(tail) : tail[i].key # "unseparated"
      BY <2>3, <2>4, <2>9 DEF TailFine, TailFields
    <3>3. ReadOf(tail) = DOMAIN tail
      BY ONLY <2>6, <2>9, <3>2, ReadToTheEnd
    <3>4. \A f \in TailFields : SetBy(tail, f) = Places(a, f)
      BY <3>1, <3>3 DEF SetBy
    <3>5. Slot(r.meta, "tpl") = Slot(m, "tpl") /\ Slot(r.meta, "code") # None
      BY <2>2, <2>3 DEF Slot
    <3>6. Fields = {"tpl", "code"} \cup TailFields
      BY DEF Fields, TailFields
    <3> QED BY <2>7, <3>1, <3>4, <3>5, <3>6 DEF SlotsOf
  <2> QED BY <2>1, <2>3, <2>5, <2>8, <2>9
<1> QED BY <1>2, <1>3

LEMMA AttributeRead ==
  ASSUME NEW m, IsMeta(m), m.from \in BOOLEAN, NEW a, IsAttribute(a)
  PROVE  LET r == Interpret(m, a)
         IN  /\ IsMeta(r.meta) /\ r.meta.from \in BOOLEAN
             /\ r.errors = {} => FlagsOf(m, a, r.meta)
             /\ (a.is = "code" => BlankIsLast(a.tail)) =>
                  /\ r.errors = {} <=> Accepts(m, a)
                  /\ r.errors = {} => SlotsOf(m, a, r.meta)
<1>1. a.is \in {"error", "code", "advice", "category", "action", "from", "doc", "cfg"}
  BY DEF IsAttribute
<1>2. CASE a.is = "code"
  <2>1. PICK r : r = Interpret(m, a)
    OBVIOUS
  <2>2. /\ IsMeta(r.meta)
        /\ r.errors = {} => FlagsOf(m, a, r.meta)
        /\ BlankIsLast(a.tail) => /\ r.errors = {} <=> Accepts(m, a)
                                  /\ r.errors = {} => SlotsOf(m, a, r.meta)
    BY <1>2, <2>1, CodeRead
  <2>3. r.meta.from \in BOOLEAN
    <3>1. r = ParseCodeTail(m, a.value, a.tail)
      BY <1>2, <2>1 DEF Interpret
    <3>2. CASE a.value = None
      BY <3>1, <3>2 DEF ParseCodeTail, Complain
    <3>3. CASE a.value # None
      <4>1. PICK lit : lit = a.value /\ lit # None
        BY <3>3
      <4>2. SameFlags(m, r.meta)
        BY <3>1, <4>1, TailIs
      <4> QED BY <4>2 DEF SameFlags
    <3> QED BY <3>2, <3>3
  <2> QED BY <1>2, <2>1, <2>2, <2>3
<1>3. CASE a.is = "error"
  <2>1. PICK val : val = Literal(a)
    OBVIOUS
  <2>a. /\ "tpl" \in Fields /\ Interpret(m, a) = SetOr(m, "tpl", val)
        /\ val # None => val = a.value /\ a.value # None
        /\ Taken(a) <=> val # None
    <3>1. CASE a.value = "word"
      BY <1>3, <2>1, <3>1 DEF Fields, Interpret, Taken, WellSpelled, Literal
    <3>2. CASE a.value # "word"
      BY <1>3, <2>1, <3>2 DEF Fields, Interpret, Taken, WellSpelled, Literal
    <3> QED BY <3>1, <3>2
  <2>2. \A f \in Fields : Places(a, f) = {i \in {0} : f = "tpl" /\ a.value # None}
    BY <1>3 DEF Fields, Places
  <2>3. PICK r : r = Interpret(m, a)
    OBVIOUS
  <2>4. /\ IsMeta(r.meta) /\ SameFlags(m, r.meta)
        /\ r.errors = {} <=> Accepts(m, a)
        /\ r.errors = {} => SlotsOf(m, a, r.meta)
        /\ r.errors = {} => /\ a.value # None /\ Slot(m, "tpl") = None
                            /\ Slot(r.meta, "tpl") = a.value
                            /\ \A f \in Fields : f # "tpl" => Slot(r.meta, f) = Slot(m, f)
    BY <2>a, <2>2, <2>3, SlotRead
  <2>5. r.errors = {} => FlagsOf(m, a, r.meta)
    <3>1. r.errors = {} => Slot(r.meta, "code") = Slot(m, "code")
      BY <2>4 DEF Fields
    <3> QED BY <1>3, <2>4, <3>1 DEF FlagsOf, SameFlags, Slot
  <2> QED BY <2>3, <2>4, <2>5 DEF SameFlags
<1>4. CASE a.is \in {"advice", "category", "action"}
  <2>1. /\ a.is \in Fields /\ Interpret(m, a) = SetOr(m, a.is, a.value)
        /\ Taken(a) <=> a.value # None
    BY <1>4 DEF Fields, Interpret, Taken, WellSpelled
  <2>2. \A f \in Fields : Places(a, f) = {i \in {0} : f = a.is /\ a.value # None}
    BY <1>4 DEF Fields, Places
  <2>3. PICK r : r = Interpret(m, a)
    OBVIOUS
  <2>4. PICK field \in Fields : field = a.is
    BY <2>1
  <2>5. /\ IsMeta(r.meta) /\ SameFlags(m, r.meta)
        /\ r.errors = {} <=> Accepts(m, a)
        /\ r.errors = {} => SlotsOf(m, a, r.meta)
        /\ r.errors = {} => /\ a.value # None /\ Slot(m, field) = None
                            /\ Slot(r.meta, field) = a.value
                            /\ \A f \in Fields : f # field => Slot(r.meta, f) = Slot(m, f)
    <3>1. /\ Interpret(m, a) = SetOr(m, field, a.value) /\ (Taken(a) <=> a.value # None)
          /\ \A f \in Fields : Places(a, f) = {i \in {0} : f = field /\ a.value # None}
      BY <2>1, <2>2, <2>4
    <3> QED BY <2>3, <3>1, SlotRead
  <2>6. r.errors = {} => FlagsOf(m, a, r.meta)
    <3>1. r.errors = {} => Slot(r.meta, "code") = Slot(m, "code") /\ Slot(r.meta, "tpl") = Slot(m, "tpl")
      BY <1>4, <2>4, <2>5 DEF Fields
    <3> QED BY <1>4, <2>5, <3>1 DEF FlagsOf, SameFlags, Slot
  <2> QED BY <2>3, <2>5, <2>6 DEF SameFlags
<1>5. CASE a.is \in {"from", "doc", "cfg"}
  <2>1. \A f \in Fields : Places(a, f) = {}
    BY <1>5 DEF Fields, Places
  <2>2. Accepts(m, a) <=> Taken(a)
    BY <2>1 DEF Accepts
  <2>3. PICK r : r = Interpret(m, a)
    OBVIOUS
  <2>4. /\ IsMeta(r.meta) /\ r.meta.from \in BOOLEAN
        /\ \A f \in Fields : Slot(r.meta, f) = Slot(m, f)
        /\ r.errors = {} <=> Taken(a)
        /\ r.errors = {} => (r.meta.from <=> m.from \/ a.is = "from")
    <3>f. ASSUME NEW v
          PROVE  IsMeta([m EXCEPT !.from = v]) /\ IsMeta([m EXCEPT !.doc = v]) /\ IsMeta([m EXCEPT !.cfg = v])
      BY FlagSet
    <3>g. ASSUME NEW v
          PROVE  \A f \in Fields :
                   /\ Slot([m EXCEPT !.from = v], f) = Slot(m, f)
                   /\ Slot([m EXCEPT !.doc = v], f) = Slot(m, f)
                   /\ Slot([m EXCEPT !.cfg = v], f) = Slot(m, f)
      BY FlagSet, SMTT(30)
    <3>h. ASSUME NEW v
          PROVE  /\ [m EXCEPT !.from = v].from = v
                 /\ [m EXCEPT !.doc = v].from = m.from /\ [m EXCEPT !.cfg = v].from = m.from
      BY FlagSet
    <3>1. CASE a.is = "from" /\ a.value = None
      <4>1. r = [meta |-> [m EXCEPT !.from = TRUE], errors |-> {}] /\ Taken(a)
        BY <2>3, <3>1 DEF Interpret, Fine, Taken, WellSpelled
      <4>2. r.meta = [m EXCEPT !.from = TRUE] /\ r.errors = {}
        BY ONLY <4>1
      <4> QED BY <3>1, <4>1, <4>2, <3>f, <3>g, <3>h
    <3>2. CASE a.is = "from" /\ a.value # None
      <4>1. PICK e : e = {<<"malformed", "from">>}
        OBVIOUS
      <4>2. r = [meta |-> m, errors |-> e] /\ ~Taken(a)
        BY <2>3, <3>2, <4>1 DEF Interpret, Complain, Taken, WellSpelled
      <4>3. e # {}
        BY ONLY <4>1
      <4>4. r.meta = m /\ r.errors # {}
        BY ONLY <4>2, <4>3
      <4> QED BY <4>2, <4>4
    <3>3. CASE a.is = "doc"
      <4>1. PICK v : v = (m.doc \/ a.value # None)
        OBVIOUS
      <4>2. r = [meta |-> [m EXCEPT !.doc = v], errors |-> {}] /\ Taken(a)
        BY <2>3, <3>3, <4>1 DEF Interpret, Fine, Taken, WellSpelled
      <4>3. r.meta = [m EXCEPT !.doc = v] /\ r.errors = {}
        BY ONLY <4>2
      <4> QED BY <3>3, <4>2, <4>3, <3>f, <3>g, <3>h
    <3>4. CASE a.is = "cfg"
      <4>1. PICK v : v = m.cfg \cup {a.value}
        OBVIOUS
      <4>2. r = [meta |-> [m EXCEPT !.cfg = v], errors |-> {}] /\ Taken(a)
        BY <2>3, <3>4, <4>1 DEF Interpret, Fine, Taken, WellSpelled
      <4>3. r.meta = [m EXCEPT !.cfg = v] /\ r.errors = {}
        BY ONLY <4>2
      <4> QED BY <3>4, <4>2, <4>3, <3>f, <3>g, <3>h
    <3> QED BY <1>5, <3>1, <3>2, <3>3, <3>4
  <2>5. SlotsOf(m, a, r.meta)
    BY <2>1, <2>4 DEF SlotsOf
  <2>6. r.errors = {} => FlagsOf(m, a, r.meta)
    <3>1. Slot(r.meta, "code") = Slot(m, "code") /\ Slot(r.meta, "tpl") = Slot(m, "tpl")
      BY <2>4 DEF Fields
    <3> QED BY <1>5, <2>4, <3>1 DEF FlagsOf, Slot
  <2> QED BY <2>2, <2>3, <2>4, <2>5, <2>6
<1> QED BY <1>1, <1>2, <1>3, <1>4, <1>5

-----------------------------------------------------------------------------
\* A variant as written, and what has been read of it.

Just(x) == {y \in {x} : x # None}

TplsOf(w) == {a.value : a \in {b \in BagToSet(w.attributes) : b.is = "error"}}

Reading(m, w) ==
  /\ m.from <=> IsFrom(w)
  /\ TplsOf(w) = Just(m.tpl)
  /\ CodesOf(w) = Just(m.code)

Exactly(m, w) == \A f \in Fields : Slot(m, f) # None <=> IsGiven(w, f)

Tidy(w) ==
  /\ \A a \in BagToSet(w.attributes) : Taken(a)
  /\ \A f \in Fields : ~GivenTwice(w, f)

LEMMA ReadingMore ==
  ASSUME NEW w, NEW w2, NEW a, IsABag(w.attributes), More(w, w2, a),
         NEW m, NEW m2, Reading(m, w), FlagsOf(m, a, m2)
  PROVE  Reading(m2, w2)
<1> DEFINE As == BagToSet(w.attributes)
<1>1. BagToSet(w2.attributes) = As \cup {a}
  <2>1. PICK B : B = w.attributes
    OBVIOUS
  <2>2. IsABag(B) /\ w2.attributes = B (+) SetToBag({a})
    BY <2>1 DEF More
  <2>3. BagToSet(B (+) SetToBag({a})) = BagToSet(B) \cup {a}
    BY ONLY <2>2, BagMore
  <2> QED BY <2>1, <2>2, <2>3
<1>2. IsFrom(w2) <=> IsFrom(w) \/ a.is = "from"
  BY <1>1 DEF IsFrom
<1>3. TplsOf(w2) = TplsOf(w) \cup {y \in {a.value} : a.is = "error"}
  BY <1>1 DEF TplsOf
<1>4. CodesOf(w2) = CodesOf(w) \cup {y \in {a.value} : a.is = "code"}
  BY <1>1 DEF CodesOf
<1>5. TplsOf(w2) = Just(m2.tpl)
  <2>1. CASE a.is = "error"
    <3>1. m.tpl = None /\ a.value # None /\ m2.tpl = a.value
      BY <2>1 DEF FlagsOf
    <3>2. TplsOf(w) = {}
      BY <3>1 DEF Reading, Just
    <3> QED BY <1>3, <2>1, <3>1, <3>2 DEF Just
  <2>2. CASE a.is # "error"
    <3>1. m2.tpl = m.tpl
      BY <2>2 DEF FlagsOf
    <3> QED BY <1>3, <2>2, <3>1 DEF Reading
  <2> QED BY <2>1, <2>2
<1>6. CodesOf(w2) = Just(m2.code)
  <2>1. CASE a.is = "code"
    <3>1. m.code = None /\ a.value # None /\ m2.code = a.value
      BY <2>1 DEF FlagsOf
    <3>2. CodesOf(w) = {}
      BY <3>1 DEF Reading, Just
    <3> QED BY <1>4, <2>1, <3>1, <3>2 DEF Just
  <2>2. CASE a.is # "code"
    <3>1. m2.code = m.code
      BY <2>2 DEF FlagsOf
    <3> QED BY <1>4, <2>2, <3>1 DEF Reading
  <2> QED BY <2>1, <2>2
<1>7. m2.from <=> IsFrom(w2)
  BY <1>2 DEF Reading, FlagsOf
<1> QED BY <1>5, <1>6, <1>7 DEF Reading

LEMMA TidyMore ==
  ASSUME NEW w, NEW w2, NEW a, IsABag(w.attributes), More(w, w2, a), NEW m
  PROVE  /\ Tidy(w2) => Tidy(w)
         /\ Tidy(w) /\ Exactly(m, w) => (Tidy(w2) <=> Accepts(m, a))
         /\ \A m2 : Exactly(m, w) /\ SlotsOf(m, a, m2) => Exactly(m2, w2)
<1> DEFINE As == BagToSet(w.attributes)
<1>1. BagToSet(w2.attributes) = As \cup {a}
  <2>1. PICK B : B = w.attributes
    OBVIOUS
  <2>2. IsABag(B) /\ w2.attributes = B (+) SetToBag({a})
    BY <2>1 DEF More
  <2>3. BagToSet(B (+) SetToBag({a})) = BagToSet(B) \cup {a}
    BY ONLY <2>2, BagMore
  <2> QED BY <2>1, <2>2, <2>3
<1>2. \A f : /\ IsGiven(w2, f) <=> IsGiven(w, f) \/ Places(a, f) # {}
             /\ GivenTwice(w2, f) <=> \/ GivenTwice(w, f)
                                      \/ IsGiven(w, f) /\ Places(a, f) # {}
                                      \/ \E i, j \in Places(a, f) : i # j
  BY GivenMore
<1>3. Tidy(w2) => Tidy(w)
  BY <1>1, <1>2 DEF Tidy
<1>4. ASSUME Tidy(w), Exactly(m, w) PROVE Tidy(w2) <=> Accepts(m, a)
  BY <1>1, <1>2, <1>4 DEF Tidy, Exactly, Accepts
<1>5. ASSUME NEW m2, Exactly(m, w), SlotsOf(m, a, m2) PROVE Exactly(m2, w2)
  BY <1>2, <1>5 DEF Exactly, SlotsOf
<1> QED BY <1>3, <1>4, <1>5

LEMMA NothingRead ==
  ASSUME NEW w, w.attributes = EmptyBag
  PROVE  /\ IsMeta(NoMeta) /\ NoMeta.from \in BOOLEAN /\ IsABag(w.attributes)
         /\ Reading(NoMeta, w) /\ Exactly(NoMeta, w) /\ Tidy(w)
<1>1. DOMAIN w.attributes = {} /\ BagToSet(w.attributes) = {} /\ IsABag(w.attributes)
  <2>1. w.attributes = [e \in {} |-> 1]
    BY DEF EmptyBag, SetToBag
  <2> QED BY <2>1 DEF BagToSet, IsABag
<1>2. /\ NoMeta.from = FALSE /\ NoMeta.tpl = None /\ NoMeta.code = None
      /\ NoMeta.category = None /\ NoMeta.advice = None /\ NoMeta.action = None
  BY DEF NoMeta
<1>3. IsMeta(NoMeta)
  BY DEF NoMeta, IsMeta
<1>4. \A f \in Fields : Slot(NoMeta, f) = None
  BY <1>2 DEF Fields, Slot
<1>5. Reading(NoMeta, w)
  BY <1>1, <1>2 DEF Reading, IsFrom, TplsOf, CodesOf, Just
<1>6. Exactly(NoMeta, w)
  BY <1>1, <1>4 DEF Exactly, IsGiven
<1>7. Tidy(w)
  BY <1>1 DEF Tidy, GivenTwice
<1> QED BY <1>1, <1>2, <1>3, <1>5, <1>6, <1>7

\* Only the attributes matter.
LEMMA OfAttributes ==
  ASSUME NEW w, NEW w2, w.attributes = w2.attributes
  PROVE  /\ \A m : /\ Reading(m, w) <=> Reading(m, w2)
                   /\ Exactly(m, w) <=> Exactly(m, w2)
         /\ Tidy(w) <=> Tidy(w2)
         /\ IsFrom(w) <=> IsFrom(w2)
         /\ IsTransparent(w) <=> IsTransparent(w2)
         /\ CodesOf(w) = CodesOf(w2) /\ TplsOf(w) = TplsOf(w2)
         /\ \A f : IsGiven(w, f) <=> IsGiven(w2, f)
<1>1. /\ IsFrom(w) <=> IsFrom(w2)
      /\ IsTransparent(w) <=> IsTransparent(w2)
      /\ CodesOf(w) = CodesOf(w2) /\ TplsOf(w) = TplsOf(w2)
  BY DEF IsFrom, IsTransparent, CodesOf, TplsOf
<1>2. \A f : IsGiven(w, f) <=> IsGiven(w2, f)
  BY DEF IsGiven
<1>3. \A f : GivenTwice(w, f) <=> GivenTwice(w2, f)
  BY DEF GivenTwice
<1>4. \A m : Exactly(m, w) <=> Exactly(m, w2)
  BY <1>2 DEF Exactly
<1>5. \A m : Reading(m, w) <=> Reading(m, w2)
  BY <1>1 DEF Reading
<1>6. Tidy(w) <=> Tidy(w2)
  BY <1>3 DEF Tidy
<1> QED BY <1>1, <1>2, <1>4, <1>5, <1>6

LEMMA TransparentIs ==
  ASSUME NEW m, NEW w, Reading(m, w) PROVE IsTransparent(w) <=> m.tpl = "transparent"
<1>1. IsTransparent(w) <=> "transparent" \in TplsOf(w)
  BY DEF IsTransparent, TplsOf
<1>2. "transparent" \in Just(m.tpl) <=> m.tpl = "transparent"
  BY MenuAssumption DEF Just
<1> QED BY <1>1, <1>2 DEF Reading

-----------------------------------------------------------------------------
\* A variant, validated.

\* Splitting at the first digit finds what is capitals and then digits.
LEMMA ValidCodeIs ==
  ASSUME NEW code, code.raw \in BOOLEAN, code.text \in Seq(CharClasses)
  PROVE  ValidCode(code) <=> code.raw \/ CapitalsThenDigits(code.text)
<1> DEFINE t == code.text
           firsts == {i \in DOMAIN t : t[i] = "digit" /\ \A j \in 1..(i - 1) : t[j] # "digit"}
           split == IF \E i \in DOMAIN t : t[i] = "digit"
                    THEN (CHOOSE i \in DOMAIN t :
                            t[i] = "digit" /\ \A j \in 1..(i - 1) : t[j] # "digit") - 1
                    ELSE Len(t)
           Right == /\ split > 0
                    /\ \A i \in 1..split : t[i] = "upper"
                    /\ split < Len(t)
                    /\ \A i \in (split + 1)..Len(t) : t[i] = "digit"
<1>1. PICK n \in Nat : n = Len(t) /\ DOMAIN t = 1..n
  OBVIOUS
<1>2. ValidCode(code) <=> code.raw \/ Right
  BY DEF ValidCode
<1>3. CASE \E i \in DOMAIN t : t[i] = "digit"
  <2>1. \E k \in DOMAIN t : t[k] = "digit" /\ \A j \in 1..(k - 1) : t[j] # "digit"
    <3>1. PICK S : S = {i \in DOMAIN t : t[i] = "digit"}
      OBVIOUS
    <3>2. S \subseteq Nat /\ S # {}
      BY <1>1, <1>3, <3>1
    <3>3. PICK k \in S : \A j \in S : k <= j
      BY ONLY <3>2, LeastMember
    <3>4. \A j \in 1..(k - 1) : t[j] # "digit"
      BY <1>1, <3>1, <3>3
    <3> QED BY <3>1, <3>3, <3>4
  <2>2. PICK k \in DOMAIN t : /\ split = k - 1 /\ t[k] = "digit"
                              /\ \A j \in 1..(k - 1) : t[j] # "digit"
    BY <1>3, <2>1
  <2> HIDE DEF split
  <2>3. k \in 1..n /\ k \in Nat /\ split = k - 1
    BY <1>1, <2>2
  <2>4. ASSUME Right PROVE CapitalsThenDigits(t)
    <3>1. split \in 1..(Len(t) - 1)
      BY <1>1, <2>3, <2>4
    <3>2. \A i \in DOMAIN t : t[i] = IF i <= split THEN "upper" ELSE "digit"
      BY <1>1, <2>3, <2>4
    <3> QED BY <3>1, <3>2 DEF CapitalsThenDigits
  <2>5. ASSUME CapitalsThenDigits(t) PROVE Right
    <3>1. PICK c \in 1..(n - 1) : \A i \in 1..n : t[i] = IF i <= c THEN "upper" ELSE "digit"
      BY <1>1, <2>5 DEF CapitalsThenDigits
    <3>2. k > c
      <4> SUFFICES ASSUME k <= c PROVE FALSE
        BY <2>3
      <4> QED BY <2>2, <2>3, <3>1
    <3>3. k <= c + 1
      <4> SUFFICES ASSUME c + 1 < k PROVE FALSE
        BY <2>3
      <4>1. c + 1 \in 1..(k - 1) /\ t[c + 1] = "digit"
        BY <2>3, <3>1
      <4> QED BY <2>2, <4>1
    <3>4. split = c
      BY <2>3, <3>2, <3>3
    <3> QED BY <1>1, <3>1, <3>4
  <2> QED BY <1>2, <2>4, <2>5
<1>4. CASE ~(\E i \in DOMAIN t : t[i] = "digit")
  <2>1. ~Right
    BY <1>1, <1>4
  <2>2. ~CapitalsThenDigits(t)
    <3> SUFFICES ASSUME CapitalsThenDigits(t) PROVE FALSE
      OBVIOUS
    <3>1. PICK c \in 1..(n - 1) : \A i \in 1..n : t[i] = IF i <= c THEN "upper" ELSE "digit"
      BY <1>1 DEF CapitalsThenDigits
    <3>2. n \in 1..n /\ ~(n <= c)
      BY <3>1
    <3>3. t[n] = "digit"
      BY <3>1, <3>2
    <3> QED BY <1>1, <1>4, <3>2, <3>3
  <2> QED BY <1>2, <2>1, <2>2
<1> QED BY <1>3, <1>4

\* A variant without complaints, one by one.
LEMMA VariantErrorsAre ==
  ASSUME NEW m, NEW kind
  PROVE  VariantErrors(m, kind) = {} <=>
           /\ m.tpl # None
           /\ m.code # None => ValidCode(m.code)
           /\ m.code # None => CategoryOf(m) # None
           /\ m.code = None => m.category = None
           /\ m.from => kind.shape = "tuple" /\ Len(kind.fields) = 1
           /\ ~(Cardinality(Marked(kind)) > 1)
           /\ m.tpl = "transparent" => kind.shape \in {"tuple", "struct"} /\ Len(kind.fields) = 1
<1> DEFINE A == IF m.tpl = None THEN {<<"missing", "tpl">>} ELSE {}
           B == IF m.code # None /\ ~ValidCode(m.code) THEN {<<"shape", "code">>} ELSE {}
           C == CategoryErrors(m)
           D == FromErrors(m, kind)
           E == IF Cardinality(Marked(kind)) > 1 THEN {<<"multiple", "source">>} ELSE {}
           F == TransparentErrors(m, kind)
<1>1. VariantErrors(m, kind) = UNION {A, B, C, D, E, F}
  BY DEF VariantErrors
<1>2. A = {} <=> m.tpl # None
  OBVIOUS
<1>3. B = {} <=> (m.code # None => ValidCode(m.code))
  OBVIOUS
<1>4. C = {} <=> /\ m.code # None => CategoryOf(m) # None
                 /\ m.code = None => m.category = None
  <2>1. PICK x, y : x = <<"category", "missing">> /\ y = <<"category", "uncoded">>
    OBVIOUS
  <2>2. x[2] = "missing" /\ y[2] = "uncoded" /\ y[2] # "missing"
    BY <2>1
  <2>3. C = {e \in {x, y} : CASE e[2] = "missing" -> m.code # None /\ CategoryOf(m) = None
                              [] e[2] = "uncoded" -> m.code = None /\ m.category # None}
    BY <2>1 DEF CategoryErrors
  <2>4. x \in C <=> m.code # None /\ CategoryOf(m) = None
    BY ONLY <2>2, <2>3
  <2>5. y \in C <=> m.code = None /\ m.category # None
    BY ONLY <2>2, <2>3
  <2>6. C \subseteq {x, y}
    BY ONLY <2>3
  <2> HIDE DEF C
  <2> QED BY <2>4, <2>5, <2>6
<1>5. D = {} <=> (m.from => kind.shape = "tuple" /\ Len(kind.fields) = 1)
  BY DEF FromErrors
<1>6. E = {} <=> ~(Cardinality(Marked(kind)) > 1)
  OBVIOUS
<1>7. F = {} <=> (m.tpl = "transparent" => kind.shape \in {"tuple", "struct"} /\ Len(kind.fields) = 1)
  BY DEF TransparentErrors
<1> HIDE DEF A, B, C, D, E, F
<1>8. UNION {A, B, C, D, E, F} = {} <=> A = {} /\ B = {} /\ C = {} /\ D = {} /\ E = {} /\ F = {}
  <2>1. UNION {A, B, C, D, E, F} = A \cup B \cup C \cup D \cup E \cup F
    OBVIOUS
  <2> QED BY <2>1
<1> QED BY ONLY <1>1, <1>2, <1>3, <1>4, <1>5, <1>6, <1>7, <1>8

LEMMA MarkedIs ==
  ASSUME NEW kind, IsShape(kind)
  PROVE  /\ Marked(kind) \subseteq 1..Len(kind.fields) /\ Len(kind.fields) \in Nat
         /\ IsFiniteSet(Marked(kind)) /\ Cardinality(Marked(kind)) \in Nat
         /\ Marked(kind) # {} => (CHOOSE i \in Marked(kind) : \A j \in Marked(kind) : i <= j) \in Marked(kind)
<1>1. kind.fields \in Seq(Range(kind.fields))
  BY DEF IsShape
<1>2. Marked(kind) \subseteq 1..Len(kind.fields) /\ Len(kind.fields) \in Nat
  BY <1>1 DEF Marked
<1>3. IsFiniteSet(Marked(kind)) /\ Cardinality(Marked(kind)) \in Nat
  <2>1. IsFiniteSet(1..Len(kind.fields))
    BY <1>2, FS_Interval
  <2> QED BY <1>2, <2>1, FS_Subset, FS_CardinalityType
<1>4. ASSUME Marked(kind) # {}
      PROVE  (CHOOSE i \in Marked(kind) : \A j \in Marked(kind) : i <= j) \in Marked(kind)
  <2>1. PICK S : S = Marked(kind)
    OBVIOUS
  <2>2. S \subseteq Nat /\ S # {}
    BY <1>2, <1>4, <2>1
  <2>3. \E i \in S : \A j \in S : i <= j
    BY ONLY <2>2, LeastMember
  <2>4. (CHOOSE i \in S : \A j \in S : i <= j) \in S
    BY ONLY <2>3
  <2> QED BY ONLY <2>1, <2>4
<1> QED BY <1>2, <1>3, <1>4

LEMMA SourceFieldIs ==
  ASSUME NEW m, NEW kind, IsShape(kind)
  PROVE  SourceField(m, kind) # 0 <=>
           \/ Marked(kind) # {}
           \/ kind.shape = "struct" /\ m.tpl = "transparent" /\ Len(kind.fields) = 1
<1>1. CASE Marked(kind) # {}
  <2>1. SourceField(m, kind) = CHOOSE i \in Marked(kind) : \A j \in Marked(kind) : i <= j
    BY <1>1 DEF SourceField
  <2>2. SourceField(m, kind) \in 1..Len(kind.fields) /\ Len(kind.fields) \in Nat
    BY <1>1, <2>1, MarkedIs
  <2> QED BY <1>1, <2>2
<1>2. CASE Marked(kind) = {}
  BY <1>2 DEF SourceField
<1> QED BY <1>1, <1>2

\* A validated variant says what was written.
Stands(v, w) ==
  /\ v.kind = w.kind /\ IsShape(w.kind)
  /\ v.from <=> IsFrom(w)
  /\ TplsOf(w) = Just(v.tpl) /\ CodesOf(w) = Just(v.code)
  /\ v.code = None <=> v.category = None
  /\ v.from => v.kind.shape = "tuple" /\ Len(v.kind.fields) = 1
  /\ v.tpl = "transparent" => Len(v.kind.fields) = 1
  /\ v.source # 0 <=> \/ Marked(v.kind) # {}
                      \/ v.kind.shape = "struct" /\ v.tpl = "transparent" /\ Len(v.kind.fields) = 1

LEMMA VariantStands ==
  ASSUME NEW m, NEW w, Reading(m, w), NEW kind, w.kind = kind, IsShape(kind),
         VariantErrors(m, kind) = {}
  PROVE  Stands(Variant(m, kind), w)
<1>1. PICK v : v = Variant(m, kind)
  OBVIOUS
<1>2. /\ v.kind = kind /\ v.from = m.from /\ v.tpl = m.tpl /\ v.code = m.code
      /\ v.category = CategoryOf(m) /\ v.source = SourceField(m, kind)
  BY <1>1 DEF Variant
<1>3. /\ m.code # None => CategoryOf(m) # None
      /\ m.code = None => m.category = None
      /\ m.from => kind.shape = "tuple" /\ Len(kind.fields) = 1
      /\ m.tpl = "transparent" => Len(kind.fields) = 1
  BY VariantErrorsAre
<1>4. v.code = None <=> v.category = None
  BY <1>2, <1>3 DEF CategoryOf
<1>5. v.source # 0 <=> \/ Marked(kind) # {}
                       \/ kind.shape = "struct" /\ m.tpl = "transparent" /\ Len(kind.fields) = 1
  BY <1>2, SourceFieldIs
<1> QED BY ONLY <1>1, <1>2, <1>3, <1>4, <1>5, Reading(m, w), w.kind = kind, IsShape(kind)
        DEF Stands, Reading

\* The attributes and the fields meet the contract exactly when there is no complaint.
FineVariant(w, defaulted) == WellFormedVariant(w, defaulted) /\ Quoted(w)

LEMMA VariantAccepted ==
  ASSUME NEW m, NEW w, Reading(m, w), Exactly(m, w), Tidy(w),
         \A a \in BagToSet(w.attributes) : IsAttribute(a),
         NEW kind, w.kind = kind, IsShape(kind),
         NEW defaulted, header.category # None <=> defaulted
  PROVE  VariantErrors(m, kind) = {} <=> FineVariant(w, defaulted)
<1> DEFINE single == kind.shape \in {"tuple", "struct"} /\ Len(kind.fields) = 1
<1>1. /\ IsGiven(w, "tpl") <=> m.tpl # None
      /\ IsGiven(w, "code") <=> m.code # None
      /\ IsGiven(w, "category") <=> m.category # None
  BY DEF Exactly, Fields, Slot
<1>2. CodesOf(w) = Just(m.code)
  BY DEF Reading
<1>3. (m.code # None => ValidCode(m.code)) <=> \A c \in CodesOf(w) : c.raw \/ CapitalsThenDigits(c.text)
  <2>1. CASE m.code = None
    BY <1>2, <2>1 DEF Just
  <2>2. CASE m.code # None
    <3>1. CodesOf(w) = {m.code}
      BY <1>2, <2>2 DEF Just
    <3>2. PICK a \in BagToSet(w.attributes) : a.is = "code" /\ a.value = m.code
      BY <3>1 DEF CodesOf
    <3>3. m.code.raw \in BOOLEAN /\ m.code.text \in Seq(CharClasses)
      BY <2>2, <3>2 DEF IsAttribute
    <3>4. PICK code : code = m.code
      OBVIOUS
    <3>5. ValidCode(code) <=> code.raw \/ CapitalsThenDigits(code.text)
      BY <3>3, <3>4, ValidCodeIs
    <3> QED BY <2>2, <3>1, <3>4, <3>5
  <2> QED BY <2>1, <2>2
<1>4. /\ m.from <=> IsFrom(w)
      /\ m.tpl = "transparent" <=> IsTransparent(w)
  BY TransparentIs DEF Reading
<1>5. (m.code # None => CategoryOf(m) # None) /\ (m.code = None => m.category = None)
        <=> /\ IsGiven(w, "category") => IsGiven(w, "code")
            /\ IsGiven(w, "code") => IsGiven(w, "category") \/ defaulted
  BY <1>1 DEF CategoryOf
<1>6. kind.shape = "struct" => Marked(kind) = {i \in DOMAIN w.kind.fields : w.kind.fields[i] = "source"}
  BY DEF Marked
<1>7. ~(Cardinality(Marked(kind)) > 1)
        <=> (kind.shape = "struct" =>
               Cardinality({i \in DOMAIN w.kind.fields : w.kind.fields[i] = "source"}) <= 1)
  <2>1. CASE kind.shape = "struct"
    <3>1. PICK c \in Nat : c = Cardinality(Marked(kind))
      BY MarkedIs
    <3> QED BY <1>6, <2>1, <3>1
  <2>2. CASE kind.shape # "struct"
    <3>1. Marked(kind) = {} /\ Cardinality({}) = 0
      BY <2>2, FS_EmptySet DEF Marked
    <3>2. ~(Cardinality(Marked(kind)) > 1)
      BY <3>1
    <3> QED BY <2>2, <3>2
  <2> QED BY <2>1, <2>2
<1>8. FineVariant(w, defaulted) <=>
        /\ IsGiven(w, "tpl")
        /\ IsGiven(w, "category") => IsGiven(w, "code")
        /\ IsGiven(w, "code") => IsGiven(w, "category") \/ defaulted
        /\ \A c \in CodesOf(w) : c.raw \/ CapitalsThenDigits(c.text)
        /\ IsFrom(w) => single /\ kind.shape = "tuple"
        /\ IsTransparent(w) => single
        /\ kind.shape = "struct" =>
             Cardinality({i \in DOMAIN w.kind.fields : w.kind.fields[i] = "source"}) <= 1
  BY DEF FineVariant, WellFormedVariant, Tidy, Taken, Quoted
<1>9. VariantErrors(m, kind) = {} <=>
        /\ m.tpl # None
        /\ m.code # None => ValidCode(m.code)
        /\ m.code # None => CategoryOf(m) # None
        /\ m.code = None => m.category = None
        /\ m.from => kind.shape = "tuple" /\ Len(kind.fields) = 1
        /\ ~(Cardinality(Marked(kind)) > 1)
        /\ m.tpl = "transparent" => single
  BY VariantErrorsAre
<1>10. (m.from => kind.shape = "tuple" /\ Len(kind.fields) = 1) <=> (IsFrom(w) => single /\ kind.shape = "tuple")
  BY <1>4
<1> HIDE DEF single
<1> QED BY ONLY <1>1, <1>3, <1>4, <1>5, <1>7, <1>8, <1>9, <1>10

-----------------------------------------------------------------------------
\* The variants against each other.

\* Two codes of the enum with the same characters are written the same way.
CodesByText(ws) ==
  \A i, j \in DOMAIN ws : \A c \in CodesOf(ws[i]), d \in CodesOf(ws[j]) : c.text = d.text => c = d

Distinct(ws) ==
  \A i, j \in DOMAIN ws : i < j =>
    /\ \A c \in CodesOf(ws[i]), d \in CodesOf(ws[j]) : c.text # d.text
    /\ ~(IsFrom(ws[i]) /\ IsFrom(ws[j]) /\ ws[i].kind.fields[1] = ws[j].kind.fields[1])

FromType(v) ==
  IF v.from /\ v.kind.shape = "tuple" /\ v.kind.fields # <<>> THEN v.kind.fields[1] ELSE None

LEMMA FromTypeIs ==
  ASSUME NEW v, NEW w, Stands(v, w)
  PROVE  /\ FromType(v) # None <=> IsFrom(w)
         /\ IsFrom(w) => FromType(v) = w.kind.fields[1]
<1>1. /\ v.kind = w.kind /\ v.from <=> IsFrom(w)
  BY DEF Stands
<1>2. CASE ~IsFrom(w)
  BY <1>2 DEF FromType, Stands
<1>3. CASE IsFrom(w)
  <2>1. v.from /\ v.kind.shape = "tuple" /\ Len(v.kind.fields) = 1
    BY <1>3 DEF Stands
  <2>2. v.kind.fields \in Seq(Range(v.kind.fields)) /\ None \notin Range(v.kind.fields)
    BY DEF Stands, IsShape
  <2>3. v.kind.fields # <<>> /\ 1 \in DOMAIN v.kind.fields
    BY <2>1, <2>2
  <2>4. v.kind.fields[1] # None
    BY <2>2, <2>3 DEF Range
  <2>5. FromType(v) = v.kind.fields[1]
    BY <2>1, <2>3 DEF FromType
  <2>6. v.kind = w.kind
    BY DEF Stands
  <2> QED BY <1>3, <2>4, <2>5, <2>6
<1> QED BY <1>2, <1>3

LEMMA DuplicatesAre ==
  ASSUME NEW n \in Nat, NEW vs, DOMAIN vs = 1..n, NEW ws, DOMAIN ws = 1..n,
         \A i \in 1..n : Stands(vs[i], ws[i])
  PROVE  /\ DuplicateCodes(vs) = {} <=>
              \A i, j \in 1..n : i < j => ~(vs[j].code # None /\ vs[i].code = vs[j].code)
         /\ DuplicateFroms(vs) = {} <=>
              \A i, j \in 1..n : i < j => ~(IsFrom(ws[i]) /\ IsFrom(ws[j])
                                            /\ ws[i].kind.fields[1] = ws[j].kind.fields[1])
<1>1. \A i, k \in 1..n : i \in 1..(k - 1) <=> i < k
  OBVIOUS
<1>b. \A k \in 1..n : 1..(k - 1) \subseteq 1..n
  OBVIOUS
<1>2. DuplicateCodes(vs) = {} <=>
        \A i, j \in 1..n : i < j => ~(vs[j].code # None /\ vs[i].code = vs[j].code)
  <2> DEFINE later == {k \in DOMAIN vs :
                         \E i \in 1..(k - 1) : vs[k].code # None /\ vs[i].code = vs[k].code}
  <2>1. DuplicateCodes(vs) = {<<"duplicate code", j>> : j \in later}
    BY DEF DuplicateCodes
  <2>2. DuplicateCodes(vs) = {} <=> later = {}
    <3> HIDE DEF later
    <3> QED BY <2>1
  <2>3. later = {} <=> \A j \in 1..n : ~(\E i \in 1..(j - 1) : vs[j].code # None /\ vs[i].code = vs[j].code)
    OBVIOUS
  <2> QED BY ONLY <1>1, <1>b, <2>2, <2>3
<1>3. \A j \in 1..n : FromType(vs[j]) # None <=> IsFrom(ws[j])
  BY FromTypeIs
<1>4. \A j \in 1..n : IsFrom(ws[j]) => FromType(vs[j]) = ws[j].kind.fields[1]
  BY FromTypeIs
<1>5. DuplicateFroms(vs) = {} <=>
        \A i, j \in 1..n : i < j => ~(FromType(vs[j]) # None /\ FromType(vs[i]) = FromType(vs[j]))
  <2> DEFINE later == {k \in DOMAIN vs :
                         \E i \in 1..(k - 1) : FromType(vs[k]) # None /\ FromType(vs[i]) = FromType(vs[k])}
  <2>1. DuplicateFroms(vs) = {<<"duplicate from", j>> : j \in later}
    BY DEF DuplicateFroms, FromType
  <2>2. DuplicateFroms(vs) = {} <=> later = {}
    <3> HIDE DEF later
    <3> QED BY <2>1
  <2>3. later = {} <=>
          \A j \in 1..n : ~(\E i \in 1..(j - 1) : FromType(vs[j]) # None /\ FromType(vs[i]) = FromType(vs[j]))
    OBVIOUS
  <2> QED BY ONLY <1>1, <1>b, <2>2, <2>3
<1>6. \A i, j \in 1..n :
        FromType(vs[j]) # None /\ FromType(vs[i]) = FromType(vs[j])
          <=> IsFrom(ws[i]) /\ IsFrom(ws[j]) /\ ws[i].kind.fields[1] = ws[j].kind.fields[1]
  BY <1>3, <1>4
<1> QED BY <1>2, <1>5, <1>6

LEMMA DistinctIs ==
  ASSUME NEW n \in Nat, NEW vs, DOMAIN vs = 1..n, NEW ws, DOMAIN ws = 1..n,
         \A i \in 1..n : Stands(vs[i], ws[i]), CodesByText(ws)
  PROVE  DuplicateCodes(vs) = {} /\ DuplicateFroms(vs) = {} <=> Distinct(ws)
<1>1. \A i \in 1..n : CodesOf(ws[i]) = Just(vs[i].code)
  BY DEF Stands
<1>2. \A i, j \in 1..n :
        (vs[j].code # None /\ vs[i].code = vs[j].code)
          <=> \E c \in CodesOf(ws[i]), d \in CodesOf(ws[j]) : c.text = d.text
  <2> SUFFICES ASSUME NEW i \in 1..n, NEW j \in 1..n
               PROVE  (vs[j].code # None /\ vs[i].code = vs[j].code)
                        <=> \E c \in CodesOf(ws[i]), d \in CodesOf(ws[j]) : c.text = d.text
    OBVIOUS
  <2>1. \A c \in CodesOf(ws[i]), d \in CodesOf(ws[j]) : c.text = d.text => c = d
    BY DEF CodesByText
  <2>2. PICK x, y : x = vs[i].code /\ y = vs[j].code
    OBVIOUS
  <2>3. CodesOf(ws[i]) = Just(x) /\ CodesOf(ws[j]) = Just(y)
    BY <1>1, <2>2
  <2>4. \A c : (c \in Just(x) <=> c = x /\ x # None) /\ (c \in Just(y) <=> c = y /\ y # None)
    BY DEF Just
  <2> QED BY ONLY <2>1, <2>2, <2>3, <2>4
<1>3. /\ DuplicateCodes(vs) = {} <=>
           \A i, j \in 1..n : i < j => ~(vs[j].code # None /\ vs[i].code = vs[j].code)
      /\ DuplicateFroms(vs) = {} <=>
           \A i, j \in 1..n : i < j => ~(IsFrom(ws[i]) /\ IsFrom(ws[j])
                                         /\ ws[i].kind.fields[1] = ws[j].kind.fields[1])
  BY DuplicatesAre
<1>4. DuplicateCodes(vs) = {} <=>
        \A i, j \in 1..n : i < j => \A c \in CodesOf(ws[i]), d \in CodesOf(ws[j]) : c.text # d.text
  BY <1>2, <1>3
<1> QED BY <1>3, <1>4 DEF Distinct

-----------------------------------------------------------------------------
\* The enum as it is written.

AllAttributes == UNION {AttributesOf[i] : i \in 1..MaxVariants}
AllShapes == UNION {ShapesOf[i] : i \in 1..MaxVariants}

BagsOver(S) == [S -> {n \in Nat : n > 0}]
AttributeBags == UNION {BagsOver(S) : S \in SUBSET AllAttributes}

Writings == [attributes : AttributeBags, kind : AllShapes \cup {None}]

Sources == [header : Seq(EnumAttributes), variants : Seq(Writings)]

LEMMA MenusAre ==
  /\ \A a \in AllAttributes : IsAttribute(a)
  /\ \A kind \in AllShapes : IsShape(kind)
  /\ \A i \in 1..MaxVariants : AttributesOf[i] \subseteq AllAttributes /\ ShapesOf[i] \subseteq AllShapes
BY MenuAssumption DEF AllAttributes, AllShapes

LEMMA BagsAre ==
  ASSUME NEW B
  PROVE  B \in AttributeBags <=> IsABag(B) /\ BagToSet(B) \subseteq AllAttributes
<1>1. ASSUME B \in AttributeBags PROVE IsABag(B) /\ BagToSet(B) \subseteq AllAttributes
  <2>1. PICK S \in SUBSET AllAttributes : B \in BagsOver(S)
    BY <1>1 DEF AttributeBags
  <2>2. DOMAIN B = S /\ B \in [S -> {n \in Nat : n > 0}]
    BY <2>1 DEF BagsOver
  <2> QED BY <2>2 DEF IsABag, BagToSet
<1>2. ASSUME IsABag(B), BagToSet(B) \subseteq AllAttributes PROVE B \in AttributeBags
  <2>1. B \in BagsOver(DOMAIN B) /\ DOMAIN B \in SUBSET AllAttributes
    BY <1>2 DEF IsABag, BagToSet, BagsOver
  <2> QED BY <2>1 DEF AttributeBags
<1> QED BY <1>1, <1>2

LEMMA WritingIs ==
  ASSUME NEW w \in Writings
  PROVE  /\ IsABag(w.attributes) /\ BagToSet(w.attributes) \subseteq AllAttributes
         /\ w.attributes \in AttributeBags /\ w.kind \in AllShapes \cup {None}
         /\ w = [attributes |-> w.attributes, kind |-> w.kind]
         /\ \A a \in BagToSet(w.attributes) : IsAttribute(a)
<1>1. w.attributes \in AttributeBags
  BY DEF Writings
<1>2. PICK B : B = w.attributes
  OBVIOUS
<1>3. IsABag(B) /\ BagToSet(B) \subseteq AllAttributes
  BY <1>1, <1>2, BagsAre
<1>4. w = [attributes |-> w.attributes, kind |-> w.kind] /\ w.kind \in AllShapes \cup {None}
  BY DEF Writings
<1> QED BY <1>1, <1>2, <1>3, <1>4, MenusAre

\* The writings of two sources that differ at most in variant k.
SameBut(s, t, k) ==
  /\ t \in Sources /\ t.header = s.header /\ Len(t.variants) = Len(s.variants)
  /\ \A i \in 1..Len(s.variants) : i # k => t.variants[i] = s.variants[i]

LEMMA WrittenAt ==
  ASSUME NEW s \in Sources, NEW k \in 1..Len(s.variants), NEW w \in Writings, NEW t,
         t = [s EXCEPT !.variants = [s.variants EXCEPT ![k] = w]]
  PROVE  SameBut(s, t, k) /\ t.variants[k] = w
<1>1. s.variants \in Seq(Writings) /\ s.header \in Seq(EnumAttributes)
  BY DEF Sources
<1>2. PICK vs : vs = [s.variants EXCEPT ![k] = w]
  OBVIOUS
<1>3. /\ vs \in Seq(Writings) /\ Len(vs) = Len(s.variants) /\ vs[k] = w
      /\ \A i \in 1..Len(s.variants) : i # k => vs[i] = s.variants[i]
  BY <1>1, <1>2
<1>4. t = [s EXCEPT !.variants = vs]
  BY <1>2
<1>5. t.variants = vs /\ t.header = s.header /\ t \in Sources
  BY <1>1, <1>3, <1>4 DEF Sources
<1> QED BY <1>3, <1>5 DEF SameBut

LEMMA AttributeWritten ==
  ASSUME NEW s \in Sources, NEW k \in 1..Len(s.variants), NEW a \in AllAttributes, NEW t,
         t = [s EXCEPT !.variants[k].attributes = @ (+) SetToBag({a})]
  PROVE  SameBut(s, t, k) /\ More(s.variants[k], t.variants[k], a)
<1>1. PICK w \in Writings : w = s.variants[k]
  BY DEF Sources
<1>2. PICK B : B = w.attributes (+) SetToBag({a})
  OBVIOUS
<1>3. IsABag(B) /\ BagToSet(B) \subseteq AllAttributes
  <2>1. PICK A : A = w.attributes
    OBVIOUS
  <2>2. IsABag(A) /\ BagToSet(A) \subseteq AllAttributes
    BY <2>1, WritingIs
  <2>3. B = A (+) SetToBag({a})
    BY <1>2, <2>1
  <2>4. IsABag(B) /\ BagToSet(B) = BagToSet(A) \cup {a}
    BY ONLY <2>2, <2>3, BagMore
  <2> QED BY <2>2, <2>4
<1>4. B \in AttributeBags
  BY <1>3, BagsAre
<1>5. PICK w2 : w2 = [w EXCEPT !.attributes = B]
  OBVIOUS
<1>6. w2 \in Writings /\ w2.attributes = B
  BY <1>4, <1>5 DEF Writings
<1>7. t = [s EXCEPT !.variants = [s.variants EXCEPT ![k] = w2]]
  BY <1>1, <1>2, <1>5
<1>8. SameBut(s, t, k) /\ t.variants[k] = w2
  BY ONLY <1>6, <1>7, WrittenAt, s \in Sources, k \in 1..Len(s.variants)
<1> QED BY <1>1, <1>2, <1>6, <1>8 DEF More

LEMMA ShapeWritten ==
  ASSUME NEW s \in Sources, NEW k \in 1..Len(s.variants), NEW kind \in AllShapes, NEW t,
         t = [s EXCEPT !.variants[k].kind = kind]
  PROVE  /\ SameBut(s, t, k) /\ t.variants[k].kind = kind
         /\ t.variants[k].attributes = s.variants[k].attributes
<1>1. PICK w \in Writings : w = s.variants[k]
  BY DEF Sources
<1>2. PICK w2 : w2 = [w EXCEPT !.kind = kind]
  OBVIOUS
<1>3. w2 \in Writings /\ w2.kind = kind /\ w2.attributes = w.attributes
  BY <1>2 DEF Writings
<1>4. t = [s EXCEPT !.variants = [s.variants EXCEPT ![k] = w2]]
  BY <1>1, <1>2
<1>5. SameBut(s, t, k) /\ t.variants[k] = w2
  BY ONLY <1>3, <1>4, WrittenAt, s \in Sources, k \in 1..Len(s.variants)
<1> QED BY <1>1, <1>3, <1>5

LEMMA VariantBegun ==
  ASSUME NEW s \in Sources, NEW t,
         t = [s EXCEPT !.variants = Append(@, [attributes |-> EmptyBag, kind |-> None])]
  PROVE  /\ t \in Sources /\ t.header = s.header /\ Len(t.variants) = Len(s.variants) + 1
         /\ \A i \in 1..Len(s.variants) : t.variants[i] = s.variants[i]
         /\ t.variants[Len(s.variants) + 1].attributes = EmptyBag
<1>1. PICK w : w = [attributes |-> EmptyBag, kind |-> None]
  OBVIOUS
<1>2. IsABag(EmptyBag) /\ BagToSet(EmptyBag) = {}
  <2>1. EmptyBag = [e \in {} |-> 1]
    BY DEF EmptyBag, SetToBag
  <2> QED BY <2>1 DEF BagToSet, IsABag
<1>3. EmptyBag \in AttributeBags
  BY <1>2, BagsAre
<1>4. w \in Writings /\ w.attributes = EmptyBag
  BY <1>1, <1>3 DEF Writings
<1>5. PICK vs : vs = Append(s.variants, w)
  OBVIOUS
<1>6. s.variants \in Seq(Writings) /\ s.header \in Seq(EnumAttributes)
  BY DEF Sources
<1>7. /\ vs \in Seq(Writings) /\ Len(vs) = Len(s.variants) + 1 /\ vs[Len(s.variants) + 1] = w
      /\ \A i \in 1..Len(s.variants) : vs[i] = s.variants[i]
  BY <1>4, <1>5, <1>6
<1>8. t = [s EXCEPT !.variants = vs]
  BY <1>1, <1>5
<1>9. t \in Sources /\ t.header = s.header /\ t.variants = vs
  BY <1>6, <1>7, <1>8 DEF Sources
<1> QED BY <1>4, <1>7, <1>9

-----------------------------------------------------------------------------
\* What is known of the macro between two steps: as long as there is no complaint,
\* what has been read and validated is what was written.

Current == source.variants[Len(variants) + 1]

MacroTypeOK ==
  /\ phase \in {"enum", "variant", "expanded"}
  /\ IsMeta(meta) /\ meta.from \in BOOLEAN
  /\ variants \in Seq(Range(variants))
  /\ source \in Sources
  /\ Len(source.variants) = IF phase = "variant" THEN Len(variants) + 1 ELSE Len(variants)
  /\ phase = "variant" => Len(variants) + 1 \in 1..MaxVariants

Faithful ==
  errors = {} =>
    /\ phase = "variant" => Reading(meta, Current)
    /\ \A i \in 1..Len(variants) : Stands(variants[i], source.variants[i])

Emission ==
  phase = "expanded" => emitted = IF errors = {} THEN Codegen(variants) ELSE EmitEnum(variants)

ReadingInv == MacroTypeOK /\ Faithful /\ Emission

LEMMA RangeOf ==
  ASSUME NEW X, NEW s \in Seq(X) PROVE s \in Seq(Range(s))
<1>1. s \in [1..Len(s) -> Range(s)] /\ Len(s) \in Nat
  BY DEF Range
<1> QED BY <1>1

LEMMA ReadingInit == Init => ReadingInv
<1> SUFFICES ASSUME Init PROVE ReadingInv
  OBVIOUS
<1>1. /\ phase = "enum" /\ meta = NoMeta /\ variants = <<>>
      /\ source = [header |-> <<>>, variants |-> <<>>]
  BY DEF Init
<1>2. IsMeta(NoMeta) /\ NoMeta.from \in BOOLEAN
  BY DEF NoMeta, IsMeta
<1>3. source \in Sources /\ Len(source.variants) = 0 /\ Len(variants) = 0
  <2>1. <<>> \in Seq(EnumAttributes) /\ <<>> \in Seq(Writings)
    OBVIOUS
  <2> QED BY <1>1, <2>1 DEF Sources
<1>4. variants \in Seq(Range(variants))
  <2>1. variants \in Seq({})
    BY <1>1
  <2> QED BY <2>1, RangeOf
<1>5. MacroTypeOK
  BY <1>1, <1>2, <1>3, <1>4 DEF MacroTypeOK
<1>6. Faithful
  BY <1>1, <1>3 DEF Faithful
<1>7. Emission
  BY <1>1 DEF Emission
<1> QED BY <1>5, <1>6, <1>7 DEF ReadingInv

LEMMA ReadingOfEnum ==
  ASSUME ReadingInv, NEW a \in EnumAttributes, EnumAttribute(a)
  PROVE  ReadingInv' /\ source'.variants = source.variants
<1>1. /\ phase = "enum" /\ variants = <<>> /\ source' = [source EXCEPT !.header = Append(@, a)]
      /\ UNCHANGED <<phase, meta, variants, emitted>>
  BY DEF EnumAttribute
<1>2. source \in Sources
  BY DEF ReadingInv, MacroTypeOK
<1>3. source.header \in Seq(EnumAttributes) /\ source.variants \in Seq(Writings)
  BY <1>2 DEF Sources
<1>4. Append(source.header, a) \in Seq(EnumAttributes)
  BY <1>3
<1>5. source' \in Sources /\ source'.variants = source.variants
  BY <1>1, <1>2, <1>3, <1>4 DEF Sources
<1>6. MacroTypeOK'
  BY <1>1, <1>5 DEF ReadingInv, MacroTypeOK
<1>7. Faithful'
  BY <1>1 DEF Faithful
<1>8. Emission'
  BY <1>1 DEF Emission
<1> QED BY <1>5, <1>6, <1>7, <1>8 DEF ReadingInv

LEMMA ReadingOfBegin ==
  ASSUME ReadingInv, BeginVariant
  PROVE  /\ ReadingInv' /\ source'.header = source.header
         /\ Current'.attributes = EmptyBag
         /\ \A i \in 1..Len(variants) : source'.variants[i] = source.variants[i]
<1>1. /\ phase = "enum" /\ phase' = "variant" /\ meta' = NoMeta /\ Len(variants) < MaxVariants
      /\ source' = [source EXCEPT !.variants = Append(@, [attributes |-> EmptyBag, kind |-> None])]
      /\ UNCHANGED <<header, variants, errors, emitted>>
  BY DEF BeginVariant
<1>2. source \in Sources /\ variants \in Seq(Range(variants)) /\ Len(source.variants) = Len(variants)
  BY <1>1 DEF ReadingInv, MacroTypeOK
<1>3. /\ source' \in Sources /\ source'.header = source.header
      /\ Len(source'.variants) = Len(source.variants) + 1
      /\ \A i \in 1..Len(source.variants) : source'.variants[i] = source.variants[i]
      /\ source'.variants[Len(source.variants) + 1].attributes = EmptyBag
  <2>1. PICK s \in Sources, t \in {source'} : s = source
    BY <1>2
  <2>2. t = [s EXCEPT !.variants = Append(@, [attributes |-> EmptyBag, kind |-> None])]
    BY <1>1, <2>1
  <2>3. /\ t \in Sources /\ t.header = s.header /\ Len(t.variants) = Len(s.variants) + 1
        /\ \A i \in 1..Len(s.variants) : t.variants[i] = s.variants[i]
        /\ t.variants[Len(s.variants) + 1].attributes = EmptyBag
    BY ONLY <2>2, VariantBegun
  <2> QED BY ONLY <2>1, <2>3
<1>4. Len(variants) + 1 \in 1..MaxVariants
  BY <1>1, <1>2, MenuAssumption
<1>5. Current'.attributes = EmptyBag
  BY <1>1, <1>2, <1>3 DEF Current
<1>6. IsMeta(NoMeta) /\ NoMeta.from \in BOOLEAN /\ Reading(meta', Current')
  <2>1. PICK w : w = Current'
    OBVIOUS
  <2>2. w.attributes = EmptyBag
    BY <1>5, <2>1
  <2>3. IsMeta(NoMeta) /\ NoMeta.from \in BOOLEAN /\ Reading(NoMeta, w)
    BY ONLY <2>2, NothingRead
  <2> QED BY ONLY <1>1, <2>1, <2>3
<1>7. MacroTypeOK'
  BY <1>1, <1>2, <1>3, <1>4, <1>6 DEF MacroTypeOK
<1>8. Faithful'
  <2>1. errors = {} => \A i \in 1..Len(variants) : Stands(variants[i], source.variants[i])
    BY DEF ReadingInv, Faithful
  <2> QED BY <1>1, <1>2, <1>3, <1>6, <2>1 DEF Faithful
<1>9. Emission'
  BY <1>1 DEF Emission
<1> QED BY <1>2, <1>3, <1>5, <1>7, <1>8, <1>9 DEF ReadingInv

LEMMA ReadingOfAttribute ==
  ASSUME ReadingInv, phase = "variant", NEW a \in AttributesOf[Len(variants) + 1], VariantAttribute(a)
  PROVE  /\ ReadingInv' /\ source'.header = source.header
         /\ IsAttribute(a) /\ Current \in Writings /\ More(Current, Current', a)
         /\ \A i \in 1..Len(variants) : source'.variants[i] = source.variants[i]
<1> DEFINE n == Len(variants) + 1
           r == Interpret(meta, a)
<1>1. /\ phase' = "variant" /\ meta' = r.meta /\ errors' = errors \cup r.errors
      /\ source' = [source EXCEPT !.variants[n].attributes = @ (+) SetToBag({a})]
      /\ UNCHANGED <<header, variants, emitted>>
  BY DEF VariantAttribute
<1>2. /\ source \in Sources /\ variants \in Seq(Range(variants)) /\ Len(source.variants) = n
      /\ n \in 1..MaxVariants /\ IsMeta(meta) /\ meta.from \in BOOLEAN
  BY DEF ReadingInv, MacroTypeOK
<1>3. a \in AllAttributes /\ IsAttribute(a)
  BY <1>2, MenusAre
<1>4. n \in 1..Len(source.variants) /\ Len(variants) \in Nat
  BY <1>2
<1>5. SameBut(source, source', n) /\ More(source.variants[n], source'.variants[n], a)
  <2> HIDE DEF n
  <2>1. PICK s \in Sources, t \in {source'} : s = source
    BY <1>2
  <2>2. t = [s EXCEPT !.variants[n].attributes = @ (+) SetToBag({a})] /\ n \in 1..Len(s.variants)
    BY <1>1, <1>4, <2>1
  <2>3. SameBut(s, t, n) /\ More(s.variants[n], t.variants[n], a)
    BY ONLY <1>3, <2>2, AttributeWritten
  <2> QED BY ONLY <2>1, <2>3
<1>6. Current = source.variants[n] /\ Current' = source'.variants[n]
  BY <1>1 DEF Current
<1>7. Current \in Writings
  BY <1>2, <1>4, <1>6 DEF Sources
<1>8. \A i \in 1..Len(variants) : source'.variants[i] = source.variants[i]
  BY <1>2, <1>4, <1>5 DEF SameBut
<1>9. /\ IsMeta(meta') /\ meta'.from \in BOOLEAN
      /\ r.errors = {} => FlagsOf(meta, a, meta')
  <2> HIDE DEF r
  <2>1. PICK m : m = meta
    OBVIOUS
  <2>2. IsMeta(m) /\ m.from \in BOOLEAN
    BY <1>2, <2>1
  <2>3. LET q == Interpret(m, a)
        IN  IsMeta(q.meta) /\ q.meta.from \in BOOLEAN /\ (q.errors = {} => FlagsOf(m, a, q.meta))
    BY ONLY <1>3, <2>2, AttributeRead
  <2> QED BY <1>1, <2>1, <2>3 DEF r
<1>10. ASSUME errors' = {} PROVE Reading(meta', Current')
  <2>1. errors = {} /\ r.errors = {}
    BY <1>1, <1>10
  <2>2. Reading(meta, Current)
    BY <2>1 DEF ReadingInv, Faithful
  <2>3. PICK w \in Writings, w2 \in {Current'}, m \in {meta}, m2 \in {meta'} : w = Current
    BY <1>7
  <2>4. IsABag(w.attributes) /\ More(w, w2, a) /\ Reading(m, w) /\ FlagsOf(m, a, m2)
    BY <1>5, <1>6, <1>9, <2>1, <2>2, <2>3, WritingIs
  <2>5. Reading(m2, w2)
    BY ONLY <2>4, ReadingMore
  <2> QED BY <2>3, <2>5
<1>11. MacroTypeOK'
  BY <1>1, <1>2, <1>5, <1>9 DEF MacroTypeOK, SameBut
<1>12. Faithful'
  <2>1. errors' = {} => \A i \in 1..Len(variants) : Stands(variants[i], source.variants[i])
    BY <1>1 DEF ReadingInv, Faithful
  <2> QED BY <1>1, <1>8, <1>10, <2>1 DEF Faithful
<1>13. Emission'
  BY <1>1 DEF Emission
<1> QED BY <1>3, <1>5, <1>6, <1>7, <1>8, <1>11, <1>12, <1>13 DEF ReadingInv, SameBut

LEMMA ReadingOfEnd ==
  ASSUME ReadingInv, phase = "variant", NEW kind \in ShapesOf[Len(variants) + 1], EndVariant(kind)
  PROVE  /\ ReadingInv' /\ source'.header = source.header
         /\ IsShape(kind) /\ Current \in Writings
         /\ Len(variants') = Len(variants) + 1 /\ Len(variants) \in Nat
         /\ \A i \in 1..Len(variants) : source'.variants[i] = source.variants[i]
         /\ source'.variants[Len(variants) + 1].attributes = Current.attributes
         /\ source'.variants[Len(variants) + 1].kind = kind
<1> DEFINE n == Len(variants) + 1
           v == Variant(meta, kind)
<1>1. /\ phase' = "enum" /\ errors' = errors \cup VariantErrors(meta, kind)
      /\ variants' = Append(variants, v)
      /\ source' = [source EXCEPT !.variants[n].kind = kind]
      /\ UNCHANGED <<header, meta, emitted>>
  BY DEF EndVariant
<1>2. /\ source \in Sources /\ variants \in Seq(Range(variants)) /\ Len(source.variants) = n
      /\ n \in 1..MaxVariants /\ IsMeta(meta) /\ meta.from \in BOOLEAN
  BY DEF ReadingInv, MacroTypeOK
<1>3. kind \in AllShapes /\ IsShape(kind)
  BY <1>2, MenusAre
<1>4. n \in 1..Len(source.variants) /\ Len(variants) \in Nat
  BY <1>2
<1>5. /\ SameBut(source, source', n) /\ source'.variants[n].kind = kind
      /\ source'.variants[n].attributes = source.variants[n].attributes
  <2> HIDE DEF n
  <2>1. PICK s \in Sources, t \in {source'} : s = source
    BY <1>2
  <2>2. t = [s EXCEPT !.variants[n].kind = kind] /\ n \in 1..Len(s.variants)
    BY <1>1, <1>4, <2>1
  <2>3. /\ SameBut(s, t, n) /\ t.variants[n].kind = kind
        /\ t.variants[n].attributes = s.variants[n].attributes
    BY ONLY <1>3, <2>2, ShapeWritten
  <2> QED BY ONLY <2>1, <2>3
<1>6. Current = source.variants[n]
  BY DEF Current
<1>7. Current \in Writings
  BY <1>2, <1>4, <1>6 DEF Sources
<1>8. \A i \in 1..Len(variants) : source'.variants[i] = source.variants[i]
  BY <1>2, <1>4, <1>5 DEF SameBut
<1> HIDE DEF v
<1>9. /\ variants' \in Seq(Range(variants')) /\ Len(variants') = n /\ variants'[n] = v
      /\ \A i \in 1..Len(variants) : variants'[i] = variants[i]
  <2>1. PICK s, X : s = variants /\ X = Range(variants) \cup {v}
    OBVIOUS
  <2>2. s \in Seq(X) /\ v \in X
    BY <1>2, <2>1
  <2>3. /\ Append(s, v) \in Seq(X) /\ Len(Append(s, v)) = Len(s) + 1 /\ Append(s, v)[Len(s) + 1] = v
        /\ \A i \in 1..Len(s) : Append(s, v)[i] = s[i]
    BY ONLY <2>2
  <2>4. PICK t : t = Append(s, v)
    OBVIOUS
  <2>5. t \in Seq(Range(t))
    BY ONLY <2>3, <2>4, RangeOf
  <2> QED BY <1>1, <2>1, <2>3, <2>4, <2>5
<1>10. ASSUME errors' = {} PROVE Stands(v, source'.variants[n])
  <2>1. errors = {} /\ VariantErrors(meta, kind) = {}
    BY <1>1, <1>10
  <2>2. Reading(meta, Current)
    BY <2>1 DEF ReadingInv, Faithful
  <2>3. PICK w, w2, m : w = Current /\ w2 = source'.variants[n] /\ m = meta
    OBVIOUS
  <2>4. w.attributes = w2.attributes /\ w2.kind = kind /\ Reading(m, w) /\ VariantErrors(m, kind) = {}
    BY <1>5, <1>6, <2>1, <2>2, <2>3
  <2>5. Reading(m, w2)
    BY ONLY <2>4, OfAttributes
  <2>6. Stands(Variant(m, kind), w2)
    BY ONLY <1>3, <2>4, <2>5, VariantStands
  <2> QED BY <2>3, <2>6 DEF v
<1>11. MacroTypeOK'
  BY <1>1, <1>2, <1>5, <1>9 DEF MacroTypeOK, SameBut
<1>12. Faithful'
  <2>1. errors' = {} => \A i \in 1..Len(variants) : Stands(variants[i], source.variants[i])
    BY <1>1 DEF ReadingInv, Faithful
  <2>2. \A i \in 1..n : i \in 1..Len(variants) \/ i = n
    BY <1>4
  <2>3. ASSUME errors' = {}, NEW i \in 1..Len(variants') PROVE Stands(variants'[i], source'.variants[i])
    <3>1. i \in 1..Len(variants) \/ i = n
      BY <1>9, <2>2
    <3>2. CASE i = n
      BY <1>9, <1>10, <2>3, <3>2
    <3>3. CASE i \in 1..Len(variants)
      BY <1>8, <1>9, <2>1, <2>3, <3>3
    <3> QED BY <3>1, <3>2, <3>3
  <2> QED BY <1>1, <2>3 DEF Faithful
<1>13. Emission'
  BY <1>1 DEF Emission
<1> QED BY <1>3, <1>4, <1>5, <1>6, <1>7, <1>8, <1>9, <1>11, <1>12, <1>13 DEF ReadingInv, SameBut

LEMMA ReadingOfExpand == ReadingInv /\ Expand => ReadingInv'
<1> SUFFICES ASSUME ReadingInv, Expand PROVE ReadingInv'
  OBVIOUS
<1> DEFINE all == errors \cup DuplicateCodes(variants) \cup DuplicateFroms(variants)
<1>1. /\ phase = "enum" /\ phase' = "expanded" /\ errors' = all
      /\ emitted' = IF all = {} THEN Codegen(variants) ELSE EmitEnum(variants)
      /\ UNCHANGED <<header, meta, variants, source>>
  BY DEF Expand
<1>2. errors' = {} => errors = {}
  BY <1>1
<1> HIDE DEF all
<1>3. MacroTypeOK'
  BY <1>1 DEF ReadingInv, MacroTypeOK
<1>4. Faithful'
  BY <1>1, <1>2 DEF ReadingInv, Faithful
<1>5. Emission'
  BY <1>1 DEF Emission, Codegen, EmitEnum
<1> QED BY <1>3, <1>4, <1>5 DEF ReadingInv

LEMMA ReadingStep == ReadingInv /\ [Next]_vars => ReadingInv'
<1> SUFFICES ASSUME ReadingInv, [Next]_vars PROVE ReadingInv'
  OBVIOUS
<1>1. ASSUME NEW a \in EnumAttributes, EnumAttribute(a) PROVE ReadingInv'
  BY <1>1, ReadingOfEnum
<1>2. CASE BeginVariant
  BY <1>2, ReadingOfBegin
<1>3. ASSUME phase = "variant", NEW a \in AttributesOf[Len(variants) + 1], VariantAttribute(a) PROVE ReadingInv'
  BY <1>3, ReadingOfAttribute
<1>4. ASSUME phase = "variant", NEW kind \in ShapesOf[Len(variants) + 1], EndVariant(kind) PROVE ReadingInv'
  BY <1>4, ReadingOfEnd
<1>5. CASE Expand
  BY <1>5, ReadingOfExpand
<1>6. CASE UNCHANGED vars
  BY <1>6 DEF vars, ReadingInv, MacroTypeOK, Faithful, Current, Emission, Reading, Stands
<1> QED BY <1>1, <1>2, <1>3, <1>4, <1>5, <1>6 DEF Next

LEMMA ReadingInvariant == Spec => []ReadingInv
BY ReadingInit, ReadingStep, PTL DEF Spec

-----------------------------------------------------------------------------
\* The items of an expansion, by name.

Named(items, name) == {it \in items : it.item = name}

\* One item of the name for every variant of I; S says what it answers.
ArmsFor(name, I, vs, S) == {Item(name, i, vs[i].cfg, S[i]) : i \in I}

LEMMA ItemIs ==
  \A what, i, cfg, says :
    LET it == Item(what, i, cfg, says)
    IN  it.item = what /\ it.of = i /\ it.cfg = cfg /\ it.says = says
BY DEF Item

\* What variants without a structure of their own answer, coded or not.
NoSays(vs) == [i \in DOMAIN vs |-> Silent]
CodesSaid(vs) == [i \in DOMAIN vs |-> Codes(vs[i])]
InnerSaid(vs) == [i \in DOMAIN vs |-> Inner(SourceArm(vs[i]))]
CodeSaid(vs) == [i \in DOMAIN vs |-> [Silent EXCEPT !.code = vs[i].code]]
CategorySaid(vs) == [i \in DOMAIN vs |-> [Silent EXCEPT !.category = vs[i].category]]
AdviceSaid(vs) == [i \in DOMAIN vs |-> [Silent EXCEPT !.advice = vs[i].advice]]

CodedOf(vs) == {i \in DOMAIN vs : Coded(vs[i])}
StructsOf(vs) == {i \in DOMAIN vs : vs[i].kind.shape = "struct"}
AllIf(vs, condition) == {i \in DOMAIN vs : condition}

AccessorsOf(vs) == AllIf(vs, \A i \in DOMAIN vs : Coded(vs[i]))

LEMMA CodegenIs ==
  ASSUME NEW vs, NEW it
  PROVE  it \in Codegen(vs) <=>
           \/ it \in EmitEnum(vs) \/ it \in EmitDisplayArms(vs) \/ it \in EmitSourceArms(vs)
           \/ it \in EmitProvideArms(vs) \/ it \in EmitAccessorArms(vs)
           \/ \E i \in DOMAIN vs : it \in EmitStruct(vs, i) \/ it \in EmitFrom(vs, i) \/ it \in EmitEntry(vs, i)
<1> DEFINE A == {EmitEnum(vs), EmitDisplayArms(vs), EmitSourceArms(vs), EmitProvideArms(vs),
                 EmitAccessorArms(vs)}
           B == {EmitStruct(vs, i) \cup EmitFrom(vs, i) \cup EmitEntry(vs, i) : i \in DOMAIN vs}
<1>1. Codegen(vs) = UNION (A \cup B)
  BY DEF Codegen
<1>2. it \in UNION (A \cup B) <=> (\E X \in A : it \in X) \/ (\E X \in B : it \in X)
  <2> HIDE DEF A, B
  <2> QED OBVIOUS
<1>3. (\E X \in A : it \in X) <=>
         \/ it \in EmitEnum(vs) \/ it \in EmitDisplayArms(vs) \/ it \in EmitSourceArms(vs)
         \/ it \in EmitProvideArms(vs) \/ it \in EmitAccessorArms(vs)
  OBVIOUS
<1>4. (\E X \in B : it \in X) <=>
         \E i \in DOMAIN vs : it \in EmitStruct(vs, i) \/ it \in EmitFrom(vs, i) \/ it \in EmitEntry(vs, i)
  OBVIOUS
<1> HIDE DEF A, B
<1> QED BY <1>1, <1>2, <1>3, <1>4

\* The parts of an expansion that one item can be in.
LEMMA PartsAre ==
  ASSUME NEW vs
  PROVE  /\ EmitEnum(vs) = ArmsFor("variant", DOMAIN vs, vs, NoSays(vs))
         /\ EmitDisplayArms(vs) = ArmsFor("Display", DOMAIN vs, vs, NoSays(vs))
         /\ EmitSourceArms(vs) = ArmsFor("source", AllIf(vs, HasSource(vs)), vs, InnerSaid(vs))
         /\ EmitProvideArms(vs) =
              ArmsFor("provide", AllIf(vs, \E i \in DOMAIN vs : Coded(vs[i])), vs, CodesSaid(vs))
         /\ EmitAccessorArms(vs) = ArmsFor("code", AccessorsOf(vs), vs, CodeSaid(vs))
                                   \cup ArmsFor("category", AccessorsOf(vs), vs, CategorySaid(vs))
                                   \cup ArmsFor("advice", AccessorsOf(vs), vs, AdviceSaid(vs))
<1>1. EmitEnum(vs) = ArmsFor("variant", DOMAIN vs, vs, NoSays(vs))
  BY DEF EmitEnum, ArmsFor, NoSays
<1>2. EmitDisplayArms(vs) = ArmsFor("Display", DOMAIN vs, vs, NoSays(vs))
  BY DEF EmitDisplayArms, ArmsFor, NoSays
<1>3. EmitSourceArms(vs) = ArmsFor("source", AllIf(vs, HasSource(vs)), vs, InnerSaid(vs))
  BY DEF EmitSourceArms, ArmsFor, InnerSaid, AllIf
<1>4. EmitProvideArms(vs) =
        ArmsFor("provide", AllIf(vs, \E i \in DOMAIN vs : Coded(vs[i])), vs, CodesSaid(vs))
  BY DEF EmitProvideArms, ArmsFor, CodesSaid, AllIf
<1>5. EmitAccessorArms(vs) = ArmsFor("code", AccessorsOf(vs), vs, CodeSaid(vs))
                             \cup ArmsFor("category", AccessorsOf(vs), vs, CategorySaid(vs))
                             \cup ArmsFor("advice", AccessorsOf(vs), vs, AdviceSaid(vs))
  <2> DEFINE Of(i) == {Item("code", i, vs[i].cfg, [Silent EXCEPT !.code = vs[i].code]),
                       Item("category", i, vs[i].cfg, [Silent EXCEPT !.category = vs[i].category]),
                       Item("advice", i, vs[i].cfg, [Silent EXCEPT !.advice = vs[i].advice])}
  <2>1. CASE \A i \in DOMAIN vs : Coded(vs[i])
    <3>1. AccessorsOf(vs) = DOMAIN vs
      BY <2>1 DEF AccessorsOf, AllIf
    <3>2. EmitAccessorArms(vs) = UNION {Of(i) : i \in DOMAIN vs}
      BY <2>1 DEF EmitAccessorArms
    <3>3. \A i \in DOMAIN vs :
            Of(i) = {Item("code", i, vs[i].cfg, CodeSaid(vs)[i]),
                     Item("category", i, vs[i].cfg, CategorySaid(vs)[i]),
                     Item("advice", i, vs[i].cfg, AdviceSaid(vs)[i])}
      BY DEF CodeSaid, CategorySaid, AdviceSaid
    <3> HIDE DEF Of
    <3> QED BY <3>1, <3>2, <3>3 DEF ArmsFor
  <2>2. CASE ~(\A i \in DOMAIN vs : Coded(vs[i]))
    <3>1. AccessorsOf(vs) = {}
      BY <2>2 DEF AccessorsOf, AllIf
    <3>2. EmitAccessorArms(vs) = {}
      BY <2>2 DEF EmitAccessorArms
    <3> QED BY <3>1, <3>2 DEF ArmsFor
  <2> QED BY <2>1, <2>2
<1> QED BY <1>1, <1>2, <1>3, <1>4, <1>5

StructNames == {"struct", "structDisplay", "structSource", "structProvide", "fromStruct", "faultFromStruct"}

LEMMA VariantPartsAre ==
  ASSUME NEW vs, NEW i \in DOMAIN vs
  PROVE  /\ \A it \in EmitStruct(vs, i) \cup EmitFrom(vs, i) \cup EmitEntry(vs, i) :
              it.of = i /\ it.cfg = vs[i].cfg
         /\ \A it \in EmitStruct(vs, i) : it.item \in StructNames
         /\ Named(EmitStruct(vs, i), "struct") =
              {Item("struct", j, vs[j].cfg, NoSays(vs)[j]) : j \in {i} \cap StructsOf(vs)}
         /\ \A it \in EmitFrom(vs, i) : it.item = "fromInner"
         /\ \A it \in EmitEntry(vs, i) : it.item \in {"registration", "entry"}
         /\ \A name \in {"registration", "entry"} :
              Named(EmitEntry(vs, i), name) =
                {Item(name, j, vs[j].cfg, CodesSaid(vs)[j]) : j \in {i} \cap CodedOf(vs)}
<1>1. \A it \in EmitStruct(vs, i) :
        it.of = i /\ it.cfg = vs[i].cfg /\ it.item \in StructNames
  BY ItemIs DEF EmitStruct, StructNames
<1>2. \A it \in EmitFrom(vs, i) :
        it.of = i /\ it.cfg = vs[i].cfg /\ it.item = "fromInner"
  <2> SUFFICES ASSUME NEW it \in EmitFrom(vs, i)
               PROVE  it.of = i /\ it.cfg = vs[i].cfg /\ it.item = "fromInner"
    OBVIOUS
  <2>1. \E says : it = Item("fromInner", i, vs[i].cfg, says)
    BY DEF EmitFrom
  <2> QED BY ONLY <2>1, ItemIs
<1>3. \A it \in EmitEntry(vs, i) :
        it.of = i /\ it.cfg = vs[i].cfg /\ it.item \in {"registration", "entry"}
  BY ItemIs DEF EmitEntry
<1>4. Named(EmitStruct(vs, i), "struct") =
        {Item("struct", j, vs[j].cfg, NoSays(vs)[j]) : j \in {i} \cap StructsOf(vs)}
  <2>1. CASE vs[i].kind.shape # "struct"
    BY <2>1 DEF EmitStruct, Named, StructsOf
  <2>2. CASE vs[i].kind.shape = "struct"
    <3>1. {i} \cap StructsOf(vs) = {i}
      BY <2>2 DEF StructsOf
    <3>2. NoSays(vs)[i] = Silent
      BY DEF NoSays
    <3>3. \A it : it \in EmitStruct(vs, i) /\ it.item = "struct" <=> it = Item("struct", i, vs[i].cfg, Silent)
      BY <2>2, ItemIs DEF EmitStruct
    <3> QED BY <3>1, <3>2, <3>3 DEF Named
  <2> QED BY <2>1, <2>2
<1>5. ASSUME NEW name \in {"registration", "entry"}
      PROVE  Named(EmitEntry(vs, i), name) =
               {Item(name, j, vs[j].cfg, CodesSaid(vs)[j]) : j \in {i} \cap CodedOf(vs)}
  <2>1. CASE ~Coded(vs[i])
    BY <2>1 DEF EmitEntry, Named, CodedOf
  <2>2. CASE Coded(vs[i])
    <3>1. {i} \cap CodedOf(vs) = {i}
      BY <2>2 DEF CodedOf
    <3>2. CodesSaid(vs)[i] = Codes(vs[i])
      BY DEF CodesSaid
    <3>3. \A it : it \in EmitEntry(vs, i) /\ it.item = name <=> it = Item(name, i, vs[i].cfg, Codes(vs[i]))
      BY <2>2, ItemIs DEF EmitEntry
    <3> QED BY <3>1, <3>2, <3>3 DEF Named
  <2> QED BY <2>1, <2>2
<1> QED BY <1>1, <1>2, <1>3, <1>4, <1>5

\* What an expansion has of each name.
LEMMA NamedAre ==
  ASSUME NEW vs
  PROVE  LET e == Codegen(vs)
             V == DOMAIN vs
         IN  /\ \A it \in e : it.of \in V /\ it.cfg = vs[it.of].cfg
             /\ Named(e, "variant") = ArmsFor("variant", V, vs, NoSays(vs))
             /\ Named(e, "Display") = ArmsFor("Display", V, vs, NoSays(vs))
             /\ Named(e, "source") = ArmsFor("source", AllIf(vs, HasSource(vs)), vs, InnerSaid(vs))
             /\ Named(e, "provide") =
                  ArmsFor("provide", AllIf(vs, \E i \in V : Coded(vs[i])), vs, CodesSaid(vs))
             /\ Named(e, "code") = ArmsFor("code", AccessorsOf(vs), vs, CodeSaid(vs))
             /\ Named(e, "category") = ArmsFor("category", AccessorsOf(vs), vs, CategorySaid(vs))
             /\ Named(e, "advice") = ArmsFor("advice", AccessorsOf(vs), vs, AdviceSaid(vs))
             /\ Named(e, "struct") = ArmsFor("struct", StructsOf(vs), vs, NoSays(vs))
             /\ Named(e, "registration") = ArmsFor("registration", CodedOf(vs), vs, CodesSaid(vs))
             /\ Named(e, "entry") = ArmsFor("entry", CodedOf(vs), vs, CodesSaid(vs))
<1> DEFINE e == Codegen(vs)
           V == DOMAIN vs
           Enum == ArmsFor("variant", V, vs, NoSays(vs))
           Display == ArmsFor("Display", V, vs, NoSays(vs))
           Source == ArmsFor("source", AllIf(vs, HasSource(vs)), vs, InnerSaid(vs))
           Provide == ArmsFor("provide", AllIf(vs, \E i \in V : Coded(vs[i])), vs, CodesSaid(vs))
           Code == ArmsFor("code", AccessorsOf(vs), vs, CodeSaid(vs))
           Category == ArmsFor("category", AccessorsOf(vs), vs, CategorySaid(vs))
           Advice == ArmsFor("advice", AccessorsOf(vs), vs, AdviceSaid(vs))
           StructArms == ArmsFor("struct", StructsOf(vs), vs, NoSays(vs))
           Registration == ArmsFor("registration", CodedOf(vs), vs, CodesSaid(vs))
           EntryArms == ArmsFor("entry", CodedOf(vs), vs, CodesSaid(vs))
<1>1. /\ AllIf(vs, HasSource(vs)) \subseteq V /\ AllIf(vs, \E i \in V : Coded(vs[i])) \subseteq V
      /\ AccessorsOf(vs) \subseteq V /\ StructsOf(vs) \subseteq V /\ CodedOf(vs) \subseteq V
  BY DEF AllIf, AccessorsOf, StructsOf, CodedOf
<1>2. \A name, I, S : \A it \in ArmsFor(name, I, vs, S) :
        it.item = name /\ it.of \in I /\ it.cfg = vs[it.of].cfg
  BY ItemIs DEF ArmsFor
<1>3. \A it : it \in e <=>
        \/ it \in Enum \/ it \in Display \/ it \in Source \/ it \in Provide
        \/ it \in Code \/ it \in Category \/ it \in Advice
        \/ \E i \in V : it \in EmitStruct(vs, i) \/ it \in EmitFrom(vs, i) \/ it \in EmitEntry(vs, i)
  <2> SUFFICES ASSUME NEW it
               PROVE  it \in e <=>
                        \/ it \in Enum \/ it \in Display \/ it \in Source \/ it \in Provide
                        \/ it \in Code \/ it \in Category \/ it \in Advice
                        \/ \E i \in V : it \in EmitStruct(vs, i) \/ it \in EmitFrom(vs, i)
                                        \/ it \in EmitEntry(vs, i)
    OBVIOUS
  <2>1. /\ EmitEnum(vs) = Enum /\ EmitDisplayArms(vs) = Display /\ EmitSourceArms(vs) = Source
        /\ EmitProvideArms(vs) = Provide /\ EmitAccessorArms(vs) = Code \cup Category \cup Advice
    BY PartsAre
  <2> HIDE DEF Enum, Display, Source, Provide, Code, Category, Advice
  <2> QED BY <2>1, CodegenIs
<1>4. \A i \in V :
        /\ \A it \in EmitStruct(vs, i) \cup EmitFrom(vs, i) \cup EmitEntry(vs, i) :
             it.of = i /\ it.cfg = vs[i].cfg
        /\ \A it \in EmitStruct(vs, i) : it.item \in StructNames
        /\ \A it \in EmitFrom(vs, i) : it.item = "fromInner"
        /\ \A it \in EmitEntry(vs, i) : it.item \in {"registration", "entry"}
        /\ \A it : it \in EmitStruct(vs, i) /\ it.item = "struct"
                     <=> i \in StructsOf(vs) /\ it = Item("struct", i, vs[i].cfg, NoSays(vs)[i])
        /\ \A name \in {"registration", "entry"} :
             \A it : it \in EmitEntry(vs, i) /\ it.item = name
                       <=> i \in CodedOf(vs) /\ it = Item(name, i, vs[i].cfg, CodesSaid(vs)[i])
  <2> SUFFICES ASSUME NEW i \in V
      PROVE /\ \A it \in EmitStruct(vs, i) \cup EmitFrom(vs, i) \cup EmitEntry(vs, i) :
                 it.of = i /\ it.cfg = vs[i].cfg
            /\ \A it \in EmitStruct(vs, i) : it.item \in StructNames
            /\ \A it \in EmitFrom(vs, i) : it.item = "fromInner"
            /\ \A it \in EmitEntry(vs, i) : it.item \in {"registration", "entry"}
            /\ \A it : it \in EmitStruct(vs, i) /\ it.item = "struct"
                         <=> i \in StructsOf(vs) /\ it = Item("struct", i, vs[i].cfg, NoSays(vs)[i])
            /\ \A name \in {"registration", "entry"} :
                 \A it : it \in EmitEntry(vs, i) /\ it.item = name
                           <=> i \in CodedOf(vs) /\ it = Item(name, i, vs[i].cfg, CodesSaid(vs)[i])
    OBVIOUS
  <2>1. \A X, name : \A it : it \in Named(X, name) <=> it \in X /\ it.item = name
    BY DEF Named
  <2>2. Named(EmitStruct(vs, i), "struct") =
          {Item("struct", j, vs[j].cfg, NoSays(vs)[j]) : j \in {i} \cap StructsOf(vs)}
    BY VariantPartsAre
  <2>3. \A name \in {"registration", "entry"} :
          Named(EmitEntry(vs, i), name) =
            {Item(name, j, vs[j].cfg, CodesSaid(vs)[j]) : j \in {i} \cap CodedOf(vs)}
    BY VariantPartsAre
  <2>4. \A it : it \in EmitStruct(vs, i) /\ it.item = "struct"
                  <=> i \in StructsOf(vs) /\ it = Item("struct", i, vs[i].cfg, NoSays(vs)[i])
    BY <2>1, <2>2
  <2>5. \A name \in {"registration", "entry"} :
          \A it : it \in EmitEntry(vs, i) /\ it.item = name
                    <=> i \in CodedOf(vs) /\ it = Item(name, i, vs[i].cfg, CodesSaid(vs)[i])
    BY <2>1, <2>3
  <2> QED BY <2>4, <2>5, VariantPartsAre
<1>6. \A name, X : Named(e, name) = X <=> \A it : it \in e /\ it.item = name <=> it \in X
  BY DEF Named
<1>7. \A it : /\ it \in StructArms <=> \E i \in StructsOf(vs) : it = Item("struct", i, vs[i].cfg, NoSays(vs)[i])
              /\ it \in Registration <=>
                   \E i \in CodedOf(vs) : it = Item("registration", i, vs[i].cfg, CodesSaid(vs)[i])
              /\ it \in EntryArms <=> \E i \in CodedOf(vs) : it = Item("entry", i, vs[i].cfg, CodesSaid(vs)[i])
  BY DEF ArmsFor
<1> DEFINE Of(X, name) == \A it \in X : it.item = name /\ it.of \in V /\ it.cfg = vs[it.of].cfg
<1>5. \A name, I, S : I \subseteq V => Of(ArmsFor(name, I, vs, S), name)
  BY <1>2
<1>8. /\ Of(Enum, "variant") /\ Of(Display, "Display") /\ Of(Source, "source")
      /\ Of(Provide, "provide") /\ Of(Code, "code") /\ Of(Category, "category")
      /\ Of(Advice, "advice")
  <2> HIDE DEF Of
  <2>1. V \subseteq V
    OBVIOUS
  <2> QED BY <1>1, <1>5, <2>1
<1> HIDE DEF e, Enum, Display, Source, Provide, Code, Category, Advice, StructArms, Registration, EntryArms
<1>19. \A it \in e : it.of \in V /\ it.cfg = vs[it.of].cfg
  BY <1>3, <1>4, <1>8
<1>20. \A it : (\E i \in V : it \in EmitStruct(vs, i) \/ it \in EmitFrom(vs, i) \/ it \in EmitEntry(vs, i))
          => it.item \in StructNames \cup {"fromInner", "registration", "entry"}
  BY <1>4
<1>9. Named(e, "variant") = Enum
  BY <1>3, <1>6, <1>8, <1>20 DEF StructNames
<1>10. Named(e, "Display") = Display
  BY <1>3, <1>6, <1>8, <1>20 DEF StructNames
<1>11. Named(e, "source") = Source
  BY <1>3, <1>6, <1>8, <1>20 DEF StructNames
<1>12. Named(e, "provide") = Provide
  BY <1>3, <1>6, <1>8, <1>20 DEF StructNames
<1>13. Named(e, "code") = Code
  BY <1>3, <1>6, <1>8, <1>20 DEF StructNames
<1>14. Named(e, "category") = Category
  BY <1>3, <1>6, <1>8, <1>20 DEF StructNames
<1>15. Named(e, "advice") = Advice
  BY <1>3, <1>6, <1>8, <1>20 DEF StructNames
<1>16. Named(e, "struct") = StructArms
  BY <1>1, <1>3, <1>4, <1>6, <1>7, <1>8 DEF StructNames
<1>17. Named(e, "registration") = Registration
  BY <1>1, <1>3, <1>4, <1>6, <1>7, <1>8, SMTT(30) DEF StructNames
<1>18. Named(e, "entry") = EntryArms
  BY <1>1, <1>3, <1>4, <1>6, <1>7, <1>8 DEF StructNames
<1> USE DEF e, Enum, Display, Source, Provide, Code, Category, Advice, StructArms, Registration, EntryArms
<1> QED BY <1>19, <1>9, <1>10, <1>11, <1>12, <1>13, <1>14, <1>15, <1>16, <1>17, <1>18

\* The arms of one name that exist under F: for which variants, and what they answer.
OfArms(F, name) == {it.of : it \in Arms(F, name)}
SaidOf(F, name, i) == {it.says : it \in {x \in Arms(F, name) : x.of = i}}
Occurs(name) == name \in {it.item : it \in emitted}

Have(F, name, I, vs, S) ==
  /\ OfArms(F, name) = {i \in I : vs[i].cfg \subseteq F}
  /\ \A i : SaidOf(F, name, i) = IF i \in I /\ vs[i].cfg \subseteq F THEN {S[i]} ELSE {}
  /\ Occurs(name) => I # {}

LEMMA ArmsAre ==
  ASSUME NEW F, NEW name, NEW I, NEW vs, NEW S, Named(emitted, name) = ArmsFor(name, I, vs, S)
  PROVE  Have(F, name, I, vs, S)
<1>1. Arms(F, name) = {it \in ArmsFor(name, I, vs, S) : it.cfg \subseteq F}
  BY DEF Arms, Compiled, Named
<1>2. \A it : it \in ArmsFor(name, I, vs, S) <=> \E i \in I : it = Item(name, i, vs[i].cfg, S[i])
  BY DEF ArmsFor
<1>3. \A i : LET it == Item(name, i, vs[i].cfg, S[i])
             IN  it.item = name /\ it.of = i /\ it.cfg = vs[i].cfg /\ it.says = S[i]
  BY ItemIs
<1>4. \A i : i \in OfArms(F, name) <=> i \in I /\ vs[i].cfg \subseteq F
  <2> SUFFICES ASSUME NEW i
               PROVE  i \in OfArms(F, name) <=> i \in I /\ vs[i].cfg \subseteq F
    OBVIOUS
  <2>1. ASSUME i \in I, vs[i].cfg \subseteq F PROVE i \in OfArms(F, name)
    <3>1. PICK it : it = Item(name, i, vs[i].cfg, S[i])
      OBVIOUS
    <3>2. it \in Arms(F, name) /\ it.of = i
      BY <1>1, <1>2, <1>3, <2>1, <3>1
    <3> QED BY <3>2 DEF OfArms
  <2>2. ASSUME NEW it \in Arms(F, name), i = it.of PROVE i \in I /\ vs[i].cfg \subseteq F
    BY <1>1, <1>2, <1>3, <2>2
  <2> QED BY <2>1, <2>2 DEF OfArms
<1>5. ASSUME NEW i PROVE SaidOf(F, name, i) = IF i \in I /\ vs[i].cfg \subseteq F THEN {S[i]} ELSE {}
  <2>1. CASE i \in I /\ vs[i].cfg \subseteq F
    <3>1. {x \in Arms(F, name) : x.of = i} = {Item(name, i, vs[i].cfg, S[i])}
      BY <1>1, <1>2, <1>3, <2>1
    <3>2. SaidOf(F, name, i) = {S[i]}
      BY <1>3, <3>1 DEF SaidOf
    <3> QED BY <2>1, <3>2
  <2>2. CASE ~(i \in I /\ vs[i].cfg \subseteq F)
    <3>1. {x \in Arms(F, name) : x.of = i} = {}
      BY <1>4, <2>2 DEF OfArms
    <3>2. SaidOf(F, name, i) = {}
      BY <3>1 DEF SaidOf
    <3> QED BY <2>2, <3>2
  <2> QED BY <2>1, <2>2
<1>6. ASSUME Occurs(name) PROVE I # {}
  <2>1. PICK it \in emitted : it.item = name
    BY <1>6 DEF Occurs
  <2>2. it \in ArmsFor(name, I, vs, S)
    BY <2>1 DEF Named
  <2> QED BY <1>2, <2>2
<1> QED BY <1>4, <1>5, <1>6 DEF Have

\* The answers of the items.
LEMMA AnswersAre ==
  ASSUME NEW v
  PROVE  /\ Coded(v) => Codes(v) # Silent
         /\ v.code = None /\ v.category = None => Codes(v) = Silent
         /\ [Silent EXCEPT !.code = v.code].code = v.code
         /\ [Silent EXCEPT !.category = v.category].category = v.category
         /\ [[Silent EXCEPT !.code = v.code] EXCEPT !.category = v.category] = Codes(v)
         /\ \A b : Inner(b).inner = b
<1>1. PICK f : Silent = [inner |-> f, code |-> None, category |-> None, advice |-> None]
  BY DEF Silent
<1>2. PICK x, y : x = v.code /\ y = v.category
  OBVIOUS
<1>a. [Silent EXCEPT !.code = x] = [inner |-> f, code |-> x, category |-> None, advice |-> None]
  BY ONLY <1>1
<1>b. [Silent EXCEPT !.category = y] = [inner |-> f, code |-> None, category |-> y, advice |-> None]
  BY ONLY <1>1
<1>c. [[Silent EXCEPT !.code = x] EXCEPT !.category = y] =
        [inner |-> f, code |-> x, category |-> y, advice |-> None]
  <2>1. PICK r : r = [inner |-> f, code |-> x, category |-> None, advice |-> None]
    OBVIOUS
  <2>2. [r EXCEPT !.category = y] = [inner |-> f, code |-> x, category |-> y, advice |-> None]
    BY ONLY <2>1
  <2> QED BY ONLY <1>a, <2>1, <2>2
<1>d. [Silent EXCEPT !.code = x, !.category = y] = [[Silent EXCEPT !.code = x] EXCEPT !.category = y]
  BY ONLY TRUE
<1>e. Codes(v) = [Silent EXCEPT !.code = x, !.category = y]
  BY <1>2 DEF Codes
<1>3. \A b : Inner(b).inner = b
  BY DEF Inner, Silent
<1>4. [Silent EXCEPT !.code = v.code].code = v.code
  BY <1>2, <1>a
<1>5. [Silent EXCEPT !.category = v.category].category = v.category
  BY <1>2, <1>b
<1>6. [[Silent EXCEPT !.code = v.code] EXCEPT !.category = v.category] = Codes(v)
  BY <1>2, <1>d, <1>e
<1>f. Codes(v) = [inner |-> f, code |-> x, category |-> y, advice |-> None]
  BY ONLY <1>c, <1>d, <1>e
<1>7. Coded(v) => Codes(v) # Silent
  <2>1. Codes(v).code = v.code /\ Silent.code = None
    BY ONLY <1>1, <1>2, <1>f
  <2> QED BY <2>1 DEF Coded
<1>8. v.code = None /\ v.category = None => Codes(v) = Silent
  BY ONLY <1>1, <1>2, <1>f
<1> QED BY <1>3, <1>4, <1>5, <1>6, <1>7, <1>8

LEMMA Coherent ==
  ASSUME NEW vs, emitted = Codegen(vs), \A i \in DOMAIN vs : vs[i].code = None <=> vs[i].category = None,
         NEW F
  PROVE  /\ \A it \in Compiled(F) : it.of \in OfArms(F, "variant")
         /\ \A name \in Matches : Occurs(name) => OfArms(F, name) = OfArms(F, "variant")
         /\ OfArms(F, "struct") = {i \in OfArms(F, "variant") : vs[i].kind.shape = "struct"}
         /\ \A i \in OfArms(F, "variant") :
              /\ i \in DOMAIN vs
              /\ SaidOf(F, "registration", i) = SaidOf(F, "entry", i)
              /\ SaidOf(F, "provide", i) \ {Silent} = SaidOf(F, "registration", i)
              /\ Cardinality(SaidOf(F, "registration", i)) = IF Coded(vs[i]) THEN 1 ELSE 0
              /\ \A c \in SaidOf(F, "code", i), k \in SaidOf(F, "category", i) :
                   /\ SaidOf(F, "registration", i) = {[c EXCEPT !.category = k.category]}
                   /\ k.category # None
<1> DEFINE V == DOMAIN vs
           provided == AllIf(vs, \E i \in V : Coded(vs[i]))
           sourced == AllIf(vs, HasSource(vs))
<1>1. /\ \A it \in emitted : it.of \in V /\ it.cfg = vs[it.of].cfg
      /\ Named(emitted, "variant") = ArmsFor("variant", V, vs, NoSays(vs))
      /\ Named(emitted, "Display") = ArmsFor("Display", V, vs, NoSays(vs))
      /\ Named(emitted, "source") = ArmsFor("source", sourced, vs, InnerSaid(vs))
      /\ Named(emitted, "provide") = ArmsFor("provide", provided, vs, CodesSaid(vs))
      /\ Named(emitted, "code") = ArmsFor("code", AccessorsOf(vs), vs, CodeSaid(vs))
      /\ Named(emitted, "category") = ArmsFor("category", AccessorsOf(vs), vs, CategorySaid(vs))
      /\ Named(emitted, "advice") = ArmsFor("advice", AccessorsOf(vs), vs, AdviceSaid(vs))
      /\ Named(emitted, "struct") = ArmsFor("struct", StructsOf(vs), vs, NoSays(vs))
      /\ Named(emitted, "registration") = ArmsFor("registration", CodedOf(vs), vs, CodesSaid(vs))
      /\ Named(emitted, "entry") = ArmsFor("entry", CodedOf(vs), vs, CodesSaid(vs))
  BY NamedAre
<1>2. /\ sourced # {} => sourced = V
      /\ provided # {} => provided = V
      /\ AccessorsOf(vs) # {} => AccessorsOf(vs) = V
      /\ \A i \in V : Coded(vs[i]) => provided = V
      /\ \A i \in AccessorsOf(vs) : Coded(vs[i])
  BY DEF AllIf, AccessorsOf
<1> HIDE DEF provided, sourced
<1>3. Have(F, "variant", V, vs, NoSays(vs)) /\ Have(F, "Display", V, vs, NoSays(vs))
  BY <1>1, ArmsAre
<1>4. Have(F, "source", sourced, vs, InnerSaid(vs)) /\ Have(F, "provide", provided, vs, CodesSaid(vs))
  BY <1>1, ArmsAre
<1>5. /\ Have(F, "code", AccessorsOf(vs), vs, CodeSaid(vs))
      /\ Have(F, "category", AccessorsOf(vs), vs, CategorySaid(vs))
      /\ Have(F, "advice", AccessorsOf(vs), vs, AdviceSaid(vs))
  BY <1>1, ArmsAre
<1>6. /\ Have(F, "struct", StructsOf(vs), vs, NoSays(vs))
      /\ Have(F, "registration", CodedOf(vs), vs, CodesSaid(vs))
      /\ Have(F, "entry", CodedOf(vs), vs, CodesSaid(vs))
  BY <1>1, ArmsAre
<1>7. OfArms(F, "variant") = {i \in V : vs[i].cfg \subseteq F}
  BY <1>3 DEF Have
<1>8. \A it \in Compiled(F) : it.of \in OfArms(F, "variant")
  BY <1>1, <1>7 DEF Compiled
<1>9. \A name \in Matches : Occurs(name) => OfArms(F, name) = OfArms(F, "variant")
  <2>1. OfArms(F, "Display") = OfArms(F, "variant")
    BY <1>3 DEF Have
  <2>2. Occurs("source") => OfArms(F, "source") = OfArms(F, "variant")
    BY <1>2, <1>4, <1>7 DEF Have
  <2>3. Occurs("provide") => OfArms(F, "provide") = OfArms(F, "variant")
    BY <1>2, <1>4, <1>7 DEF Have
  <2>4. /\ Occurs("code") => OfArms(F, "code") = OfArms(F, "variant")
        /\ Occurs("category") => OfArms(F, "category") = OfArms(F, "variant")
        /\ Occurs("advice") => OfArms(F, "advice") = OfArms(F, "variant")
    BY <1>2, <1>5, <1>7 DEF Have
  <2> QED BY <2>1, <2>2, <2>3, <2>4 DEF Matches
<1>10. OfArms(F, "struct") = {i \in OfArms(F, "variant") : vs[i].kind.shape = "struct"}
  BY <1>6, <1>7 DEF Have, StructsOf
<1>11. ASSUME NEW i \in OfArms(F, "variant")
       PROVE  /\ i \in DOMAIN vs
              /\ SaidOf(F, "registration", i) = SaidOf(F, "entry", i)
              /\ SaidOf(F, "provide", i) \ {Silent} = SaidOf(F, "registration", i)
              /\ Cardinality(SaidOf(F, "registration", i)) = IF Coded(vs[i]) THEN 1 ELSE 0
              /\ \A c \in SaidOf(F, "code", i), k \in SaidOf(F, "category", i) :
                   /\ SaidOf(F, "registration", i) = {[c EXCEPT !.category = k.category]}
                   /\ k.category # None
  <2>1. i \in V /\ vs[i].cfg \subseteq F
    BY <1>7
  <2>2. /\ CodesSaid(vs)[i] = Codes(vs[i])
        /\ CodeSaid(vs)[i] = [Silent EXCEPT !.code = vs[i].code]
        /\ CategorySaid(vs)[i] = [Silent EXCEPT !.category = vs[i].category]
    BY <2>1 DEF CodesSaid, CodeSaid, CategorySaid
  <2>3. /\ SaidOf(F, "registration", i) = IF Coded(vs[i]) THEN {Codes(vs[i])} ELSE {}
        /\ SaidOf(F, "entry", i) = IF Coded(vs[i]) THEN {Codes(vs[i])} ELSE {}
    BY <1>6, <2>1, <2>2 DEF Have, CodedOf
  <2>4. SaidOf(F, "provide", i) = IF i \in provided THEN {Codes(vs[i])} ELSE {}
    BY <1>4, <2>1, <2>2 DEF Have
  <2>5. SaidOf(F, "provide", i) \ {Silent} = IF Coded(vs[i]) THEN {Codes(vs[i])} ELSE {}
    <3>1. CASE Coded(vs[i])
      <4>1. i \in provided
        BY <1>2, <2>1, <3>1
      <4>2. Codes(vs[i]) # Silent
        BY <3>1, AnswersAre
      <4> QED BY <2>4, <3>1, <4>1, <4>2
    <3>2. CASE ~Coded(vs[i])
      <4>1. Codes(vs[i]) = Silent
        BY <2>1, <3>2, AnswersAre DEF Coded
      <4> QED BY <2>4, <3>2, <4>1
    <3> QED BY <3>1, <3>2
  <2>6. Cardinality(SaidOf(F, "registration", i)) = IF Coded(vs[i]) THEN 1 ELSE 0
    BY <2>3, FS_EmptySet, FS_Singleton
  <2>7. /\ \A c \in SaidOf(F, "code", i) : i \in AccessorsOf(vs) /\ c = [Silent EXCEPT !.code = vs[i].code]
        /\ \A k \in SaidOf(F, "category", i) : k = [Silent EXCEPT !.category = vs[i].category]
    BY <1>5, <2>2 DEF Have
  <2>8. ASSUME NEW c \in SaidOf(F, "code", i), NEW k \in SaidOf(F, "category", i)
        PROVE  /\ SaidOf(F, "registration", i) = {[c EXCEPT !.category = k.category]}
               /\ k.category # None
    <3>1. Coded(vs[i]) /\ vs[i].category # None
      BY <1>2, <2>1, <2>7 DEF Coded
    <3>2. c = [Silent EXCEPT !.code = vs[i].code] /\ k.category = vs[i].category
      BY <2>7, AnswersAre
    <3>3. [c EXCEPT !.category = k.category] = Codes(vs[i])
      <4>1. [[Silent EXCEPT !.code = vs[i].code] EXCEPT !.category = vs[i].category] = Codes(vs[i])
        BY AnswersAre
      <4> QED BY <3>2, <4>1
    <3> QED BY <2>3, <3>1, <3>2, <3>3
  <2> QED BY <2>1, <2>3, <2>5, <2>6, <2>8
<1> QED BY <1>8, <1>9, <1>10, <1>11

LEMMA EveryConfiguration ==
  ASSUME emitted = Codegen(variants),
         \A i \in DOMAIN variants : variants[i].code = None <=> variants[i].category = None
  PROVE  CoherentUnderCfg
<1> SUFFICES ASSUME NEW F \in Configurations
    PROVE  /\ \A it \in Compiled(F) : it.of \in Present(F)
           /\ \A name \in Matches :
                name \in {it.item : it \in emitted} => {it.of : it \in Arms(F, name)} = Present(F)
           /\ {it.of : it \in Arms(F, "struct")} = {i \in Present(F) : variants[i].kind.shape = "struct"}
           /\ \A i \in Present(F) :
                LET Says(name) == {it.says : it \in {x \in Arms(F, name) : x.of = i}}
                IN  /\ Says("registration") = Says("entry")
                    /\ Says("provide") \ {Silent} = Says("registration")
                    /\ Cardinality(Says("registration")) = IF Coded(variants[i]) THEN 1 ELSE 0
                    /\ \A c \in Says("code"), k \in Says("category") :
                         Says("registration") = {[c EXCEPT !.category = k.category]} /\ k.category # None
  BY DEF CoherentUnderCfg
<1>1. Present(F) = OfArms(F, "variant")
  BY DEF Present, OfArms, Arms
<1>2. PICK vs : vs = variants
  OBVIOUS
<1>3. /\ \A it \in Compiled(F) : it.of \in OfArms(F, "variant")
      /\ \A name \in Matches : Occurs(name) => OfArms(F, name) = OfArms(F, "variant")
      /\ OfArms(F, "struct") = {i \in OfArms(F, "variant") : vs[i].kind.shape = "struct"}
      /\ \A i \in OfArms(F, "variant") :
           /\ SaidOf(F, "registration", i) = SaidOf(F, "entry", i)
           /\ SaidOf(F, "provide", i) \ {Silent} = SaidOf(F, "registration", i)
           /\ Cardinality(SaidOf(F, "registration", i)) = IF Coded(vs[i]) THEN 1 ELSE 0
           /\ \A c \in SaidOf(F, "code", i), k \in SaidOf(F, "category", i) :
                /\ SaidOf(F, "registration", i) = {[c EXCEPT !.category = k.category]}
                /\ k.category # None
  BY <1>2, Coherent
<1> QED BY ONLY <1>1, <1>2, <1>3 DEF OfArms, SaidOf, Occurs

LEMMA ReachedIs ==
  ASSUME NEW vs, emitted = Codegen(vs), NEW i \in DOMAIN vs
  PROVE  Reached(i) <=> HasSource(vs) /\ SourceArm(vs[i])
<1> DEFINE sourced == AllIf(vs, HasSource(vs))
<1>1. Named(emitted, "source") = ArmsFor("source", sourced, vs, InnerSaid(vs))
  BY NamedAre
<1>2. i \in sourced <=> HasSource(vs)
  BY DEF AllIf
<1> HIDE DEF sourced
<1>3. \A it : it \in emitted /\ it.item = "source"
                <=> \E j \in sourced : it = Item("source", j, vs[j].cfg, InnerSaid(vs)[j])
  BY <1>1 DEF Named, ArmsFor
<1>4. \A j : LET it == Item("source", j, vs[j].cfg, InnerSaid(vs)[j])
             IN  it.item = "source" /\ it.of = j /\ it.says = InnerSaid(vs)[j]
  BY ItemIs
<1>5. \A it : it \in emitted /\ it.item = "source" /\ it.of = i
                <=> i \in sourced /\ it = Item("source", i, vs[i].cfg, InnerSaid(vs)[i])
  BY <1>3, <1>4
<1>6. InnerSaid(vs)[i].inner = SourceArm(vs[i])
  <2>1. InnerSaid(vs)[i] = Inner(SourceArm(vs[i]))
    BY DEF InnerSaid
  <2>2. PICK b : b = SourceArm(vs[i])
    OBVIOUS
  <2>3. Inner(b).inner = b
    BY AnswersAre
  <2> QED BY ONLY <2>1, <2>2, <2>3
<1>7. Reached(i) <=> \E it \in emitted : it.item = "source" /\ it.of = i /\ it.says.inner
  BY DEF Reached
<1>8. ASSUME HasSource(vs), SourceArm(vs[i]) PROVE Reached(i)
  <2>1. PICK it : it = Item("source", i, vs[i].cfg, InnerSaid(vs)[i])
    OBVIOUS
  <2>2. it \in emitted /\ it.item = "source" /\ it.of = i
    BY <1>2, <1>5, <1>8, <2>1
  <2>3. it.says = InnerSaid(vs)[i]
    BY <1>4, <2>1
  <2> QED BY <1>6, <1>7, <1>8, <2>2, <2>3
<1>9. ASSUME Reached(i) PROVE HasSource(vs) /\ SourceArm(vs[i])
  <2>1. PICK it \in emitted : it.item = "source" /\ it.of = i /\ it.says.inner
    BY <1>7, <1>9
  <2>2. i \in sourced /\ it = Item("source", i, vs[i].cfg, InnerSaid(vs)[i])
    BY <1>5, <2>1
  <2>3. it.says = InnerSaid(vs)[i]
    BY <1>4, <2>2
  <2> QED BY <1>2, <1>6, <2>1, <2>2, <2>3
<1> QED BY <1>8, <1>9

\* What a validated variant answers as its source.
LEMMA SourceArmIs ==
  ASSUME NEW v, NEW w, Stands(v, w), ~(IsTransparent(w) /\ w.kind.shape = "tuple")
  PROVE  LET cause == \/ IsFrom(w)
                      \/ w.kind.shape = "struct" /\ (\/ \E j \in DOMAIN w.kind.fields : w.kind.fields[j] = "source"
                                                     \/ IsTransparent(w))
         IN  /\ SourceArm(v) <=> cause
             /\ cause => v.source # 0 \/ v.from
<1>1. /\ v.kind = w.kind
      /\ v.from <=> IsFrom(w)
      /\ v.from => v.kind.shape = "tuple" /\ Len(v.kind.fields) = 1
      /\ v.tpl = "transparent" => Len(v.kind.fields) = 1
      /\ v.source # 0 <=> \/ Marked(v.kind) # {}
                          \/ v.kind.shape = "struct" /\ v.tpl = "transparent" /\ Len(v.kind.fields) = 1
  BY DEF Stands
<1>2. IsTransparent(w) <=> v.tpl = "transparent"
  <2>1. IsTransparent(w) <=> "transparent" \in TplsOf(w)
    BY DEF IsTransparent, TplsOf
  <2>2. "transparent" \in Just(v.tpl) <=> v.tpl = "transparent"
    BY MenuAssumption DEF Just
  <2>3. TplsOf(w) = Just(v.tpl)
    BY DEF Stands
  <2> QED BY <2>1, <2>2, <2>3
<1>3. v.kind.shape = "struct" =>
        (Marked(v.kind) # {} <=> \E j \in DOMAIN w.kind.fields : w.kind.fields[j] = "source")
  BY <1>1 DEF Marked
<1>4. v.kind.shape # "struct" => Marked(v.kind) = {}
  BY DEF Marked
<1>5. SourceArm(v) <=> \/ v.kind.shape = "struct" /\ v.source # 0
                       \/ v.kind.shape = "tuple" /\ v.from /\ Len(v.kind.fields) = 1
                       \/ v.kind.shape = "tuple" /\ v.tpl = "transparent"
  BY DEF SourceArm
<1> QED BY <1>1, <1>2, <1>3, <1>4, <1>5

LEMMA CausesReached ==
  ASSUME emitted = Codegen(variants), DOMAIN source.variants = DOMAIN variants,
         \A i \in DOMAIN variants : Stands(variants[i], source.variants[i])
  PROVE  SourcesReached
<1> SUFFICES ASSUME NEW i \in DOMAIN source.variants,
                    ~(IsTransparent(source.variants[i]) /\ source.variants[i].kind.shape = "tuple")
             PROVE  Reached(i) <=>
                      \/ IsFrom(source.variants[i])
                      \/ /\ source.variants[i].kind.shape = "struct"
                         /\ \/ \E j \in DOMAIN source.variants[i].kind.fields :
                                 source.variants[i].kind.fields[j] = "source"
                            \/ IsTransparent(source.variants[i])
  BY DEF SourcesReached
<1>1. PICK vs : vs = variants
  OBVIOUS
<1>2. PICK w : w = source.variants[i]
  OBVIOUS
<1>3. i \in DOMAIN vs /\ emitted = Codegen(vs)
  BY <1>1
<1>4. PICK v : v = vs[i]
  OBVIOUS
<1>5. Stands(v, w)
  BY <1>1, <1>2, <1>3, <1>4
<1>6. Reached(i) <=> HasSource(vs) /\ SourceArm(v)
  BY <1>3, <1>4, ReachedIs
<1> DEFINE cause == \/ IsFrom(w)
                    \/ w.kind.shape = "struct" /\ (\/ \E j \in DOMAIN w.kind.fields : w.kind.fields[j] = "source"
                                                   \/ IsTransparent(w))
<1>7. (SourceArm(v) <=> cause) /\ (cause => v.source # 0 \/ v.from)
  BY <1>2, <1>5, SourceArmIs
<1>8. v.source # 0 \/ v.from => HasSource(vs)
  BY <1>3, <1>4 DEF HasSource
<1>9. Reached(i) <=> cause
  <2> HIDE DEF cause
  <2> QED BY ONLY <1>6, <1>7, <1>8
<1> QED BY <1>2, <1>9

\* What error! { enum .. } expands to, when it has no complaint, is true of the enum in every
\* configuration of its cfgs: the matches have an arm for exactly the variants that are there,
\* codes and categories agree between accessors, providers and registrations, and source()
\* answers the field written as the cause (error_macro.rs:105-113, 460-497, 551-890).
THEOREM AcceptedExpansionIsTrue == Spec => []ExpansionTrue
<1>1. ReadingInv => ExpansionTrue
  <2> SUFFICES ASSUME ReadingInv, Accepted PROVE ExpansionTrue
    BY DEF ExpansionTrue, CoherentUnderCfg, SourcesReached
  <2>1. phase = "expanded" /\ errors = {}
    BY DEF Accepted
  <2>2. emitted = Codegen(variants)
    BY <2>1 DEF ReadingInv, Emission
  <2>3. /\ DOMAIN variants = 1..Len(variants) /\ DOMAIN source.variants = 1..Len(source.variants)
        /\ Len(source.variants) = Len(variants)
    <3>1. variants \in Seq(Range(variants)) /\ source.variants \in Seq(Writings)
      BY DEF ReadingInv, MacroTypeOK, Sources
    <3> QED BY <2>1, <3>1 DEF ReadingInv, MacroTypeOK
  <2>4. \A i \in DOMAIN variants : Stands(variants[i], source.variants[i])
    BY <2>1, <2>3 DEF ReadingInv, Faithful
  <2>5. \A i \in DOMAIN variants : variants[i].code = None <=> variants[i].category = None
    BY <2>4 DEF Stands
  <2>6. CoherentUnderCfg
    BY <2>2, <2>5, EveryConfiguration
  <2>7. SourcesReached
    BY <2>2, <2>3, <2>4, CausesReached
  <2> QED BY <2>6, <2>7 DEF ExpansionTrue
<1> QED BY <1>1, ReadingInvariant, PTL

-----------------------------------------------------------------------------
\* The macro as a judge: the complaints against the contract. Two things that the parser lets
\* pass are excluded of the enums that are read: a comma followed by a token that is no key,
\* behind which the rest of the list is not read, and one code spelled in two ways.

BlanksEndLists ==
  \A i \in 1..MaxVariants : \A a \in AttributesOf[i] : a.is = "code" => BlankIsLast(a.tail)

Formed(c) == c.raw \/ CapitalsThenDigits(c.text)

CodesAreTexts ==
  \A i, j \in 1..MaxVariants : \A a \in AttributesOf[i], b \in AttributesOf[j] :
    /\ a.is = "code" /\ a.value # None /\ Formed(a.value)
    /\ b.is = "code" /\ b.value # None /\ Formed(b.value)
    /\ a.value.text = b.value.text
    => a.value = b.value

CategoriesOf(h) == {i \in DOMAIN h : h[i].is = "category"}
Defaulted == CategoriesOf(source.header) # {}

EnumFine(h) ==
  /\ \A i \in DOMAIN h : h[i].is \in {"category", "max_size"} => h[i].value # None
  /\ \A i, j \in CategoriesOf(h) : i = j

VariantsFine == \A i \in 1..Len(variants) : FineVariant(source.variants[i], Defaulted)

\* The contract, with every template quoted.
Contract == WellFormed /\ \A i \in DOMAIN source.variants : Quoted(source.variants[i])

MeetsContract ==
  /\ ~header.generic /\ EnumFine(source.header) /\ VariantsFine
  /\ phase = "variant" => Tidy(Current)

Judged ==
  /\ header = [category |-> header.category, generic |-> header.generic]
  /\ header.generic \in BOOLEAN
  /\ phase # "expanded" =>
       /\ errors = {} <=> MeetsContract
       /\ errors = {} => (header.category # None <=> Defaulted)
       /\ errors = {} /\ phase = "variant" => Exactly(meta, Current)
  /\ phase = "expanded" => (errors = {} <=> Contract)

LEMMA HeaderMore ==
  ASSUME NEW X, NEW h \in Seq(X), NEW a \in X
  PROVE  LET k == Append(h, a)
         IN  /\ CategoriesOf(k) # {} <=> CategoriesOf(h) # {} \/ a.is = "category"
             /\ EnumFine(k) <=> /\ EnumFine(h)
                                /\ a.is \in {"category", "max_size"} => a.value # None
                                /\ a.is = "category" => CategoriesOf(h) = {}
<1>1. PICK k, n : k = Append(h, a) /\ n = Len(h) + 1
  OBVIOUS
<1>2. /\ DOMAIN h = 1..(n - 1) /\ DOMAIN k = 1..n /\ n \in Nat \ {0} /\ k[n] = a
      /\ \A i \in 1..(n - 1) : k[i] = h[i]
  BY <1>1
<1>3. \A i : i \in 1..n <=> i \in 1..(n - 1) \/ i = n
  BY <1>2
<1>4. n \notin 1..(n - 1)
  BY <1>2
<1>5. \A i : i \in CategoriesOf(k) <=> i \in CategoriesOf(h) \/ (i = n /\ a.is = "category")
  BY <1>2, <1>3, <1>4 DEF CategoriesOf
<1>6. n \notin CategoriesOf(h)
  BY <1>2, <1>4 DEF CategoriesOf
<1>7. (\A i \in DOMAIN k : k[i].is \in {"category", "max_size"} => k[i].value # None) <=>
        /\ \A i \in DOMAIN h : h[i].is \in {"category", "max_size"} => h[i].value # None
        /\ a.is \in {"category", "max_size"} => a.value # None
  BY <1>2, <1>3
<1>8. (\A i, j \in CategoriesOf(k) : i = j) <=>
        /\ \A i, j \in CategoriesOf(h) : i = j
        /\ a.is = "category" => CategoriesOf(h) = {}
  BY <1>5, <1>6
<1> QED BY <1>1, <1>5, <1>7, <1>8 DEF EnumFine

LEMMA JudgedInit == Init => Judged
<1> SUFFICES ASSUME Init PROVE Judged
  OBVIOUS
<1>1. /\ phase = "enum" /\ variants = <<>> /\ source = [header |-> <<>>, variants |-> <<>>]
      /\ header \in [category : {None}, generic : BOOLEAN]
      /\ errors = IF header.generic THEN {<<"generic", "enum">>} ELSE {}
  BY DEF Init
<1>2. /\ header = [category |-> header.category, generic |-> header.generic]
      /\ header.generic \in BOOLEAN /\ header.category = None
  BY <1>1
<1>3. errors = {} <=> ~header.generic
  BY <1>1
<1>4. CategoriesOf(source.header) = {} /\ EnumFine(source.header)
  BY <1>1 DEF CategoriesOf, EnumFine
<1>5. VariantsFine
  BY <1>1 DEF VariantsFine
<1> QED BY <1>1, <1>2, <1>3, <1>4, <1>5 DEF Judged, MeetsContract, Defaulted

LEMMA JudgedOfEnum ==
  ASSUME ReadingInv, Judged, NEW a \in EnumAttributes, EnumAttribute(a)
  PROVE  Judged'
<1>1. /\ phase = "enum" /\ variants = <<>> /\ source' = [source EXCEPT !.header = Append(@, a)]
      /\ UNCHANGED <<phase, meta, variants, emitted>>
      /\ CASE a.is = "category" /\ a.value # None ->
                /\ header' = [header EXCEPT !.category = a.value]
                /\ errors' = errors \cup IF header.category = None THEN {}
                                         ELSE {<<"duplicate", "enum category">>}
           [] a.is \in {"category", "max_size"} /\ a.value = None ->
                /\ errors' = errors \cup {<<"malformed", a.is>>}
                /\ UNCHANGED header
           [] OTHER -> UNCHANGED <<header, errors>>
  BY DEF EnumAttribute
<1>2. source.header \in Seq(EnumAttributes) /\ source'.header = Append(source.header, a)
  BY <1>1 DEF ReadingInv, MacroTypeOK, Sources
<1>3. /\ CategoriesOf(source'.header) # {} <=> CategoriesOf(source.header) # {} \/ a.is = "category"
      /\ EnumFine(source'.header) <=> /\ EnumFine(source.header)
                                      /\ a.is \in {"category", "max_size"} => a.value # None
                                      /\ a.is = "category" => CategoriesOf(source.header) = {}
  BY <1>2, HeaderMore
<1>4. /\ header'.generic = header.generic
      /\ header' = [category |-> header'.category, generic |-> header'.generic]
  BY <1>1 DEF Judged
<1>5. VariantsFine /\ VariantsFine'
  <2>1. Len(<<>>) = 0 /\ 1..0 = {}
    OBVIOUS
  <2>2. 1..Len(variants) = {} /\ variants' = variants
    BY <1>1, <2>1
  <2> QED BY <2>2 DEF VariantsFine
<1>6. /\ errors = {} <=> ~header.generic /\ EnumFine(source.header)
      /\ errors = {} => (header.category # None <=> Defaulted)
  BY <1>1, <1>5 DEF Judged, MeetsContract
<1>7. errors' = {} <=> ~header.generic /\ EnumFine(source'.header)
  BY <1>1, <1>3, <1>6 DEF Defaulted
<1>8. errors' = {} => (header'.category # None <=> Defaulted')
  BY <1>1, <1>3, <1>4, <1>6 DEF Defaulted, Judged
<1> QED BY <1>1, <1>4, <1>5, <1>7, <1>8 DEF Judged, MeetsContract

LEMMA SameVariantsFine ==
  ASSUME source'.header = source.header, variants' = variants,
         \A i \in 1..Len(variants) : source'.variants[i] = source.variants[i]
  PROVE  (VariantsFine' <=> VariantsFine) /\ (Defaulted' <=> Defaulted)
<1>1. Defaulted' <=> Defaulted
  BY DEF Defaulted
<1>2. VariantsFine' <=> \A i \in 1..Len(variants) : FineVariant(source'.variants[i], Defaulted')
  BY DEF VariantsFine
<1>3. PICK d \in BOOLEAN : d = Defaulted
  BY DEF Defaulted
<1>4. d = Defaulted'
  BY <1>1, <1>3
<1>5. VariantsFine' <=> \A i \in 1..Len(variants) : FineVariant(source'.variants[i], d)
  BY <1>2, <1>4
<1>6. VariantsFine <=> \A i \in 1..Len(variants) : FineVariant(source.variants[i], d)
  BY <1>3 DEF VariantsFine
<1> QED BY <1>1, <1>5, <1>6

LEMMA JudgedOfBegin == ReadingInv /\ Judged /\ BeginVariant => Judged'
<1> SUFFICES ASSUME ReadingInv, Judged, BeginVariant PROVE Judged'
  OBVIOUS
<1>1. /\ phase = "enum" /\ phase' = "variant" /\ meta' = NoMeta
      /\ UNCHANGED <<header, variants, errors, emitted>>
  BY DEF BeginVariant
<1>2. /\ source'.header = source.header /\ Current'.attributes = EmptyBag
      /\ \A i \in 1..Len(variants) : source'.variants[i] = source.variants[i]
  BY ReadingOfBegin
<1>3. Exactly(meta', Current') /\ Tidy(Current')
  <2>1. PICK w : w = Current'
    OBVIOUS
  <2>2. w.attributes = EmptyBag
    BY <1>2, <2>1
  <2>3. Exactly(NoMeta, w) /\ Tidy(w)
    BY ONLY <2>2, NothingRead
  <2> QED BY ONLY <1>1, <2>1, <2>3
<1>4. (VariantsFine' <=> VariantsFine) /\ (Defaulted' <=> Defaulted)
  BY <1>1, <1>2, SameVariantsFine
<1>5. MeetsContract' <=> MeetsContract
  BY <1>1, <1>2, <1>3, <1>4 DEF MeetsContract
<1> QED BY <1>1, <1>3, <1>4, <1>5 DEF Judged

LEMMA JudgedOfAttribute ==
  ASSUME BlanksEndLists, ReadingInv, Judged, phase = "variant",
         NEW a \in AttributesOf[Len(variants) + 1], VariantAttribute(a)
  PROVE  Judged'
<1>1. /\ phase' = "variant" /\ meta' = Interpret(meta, a).meta
      /\ errors' = errors \cup Interpret(meta, a).errors
      /\ UNCHANGED <<header, variants, emitted>>
  BY DEF VariantAttribute
<1>2. /\ source'.header = source.header
      /\ IsAttribute(a) /\ Current \in Writings /\ More(Current, Current', a)
      /\ \A i \in 1..Len(variants) : source'.variants[i] = source.variants[i]
  BY ReadingOfAttribute
<1>3. /\ IsMeta(meta) /\ meta.from \in BOOLEAN /\ Len(variants) + 1 \in 1..MaxVariants
  BY DEF ReadingInv, MacroTypeOK
<1>4. a.is = "code" => BlankIsLast(a.tail)
  BY <1>3 DEF BlanksEndLists
<1>5. PICK m, m2, e : m = meta /\ m2 = meta' /\ e = Interpret(meta, a).errors
  OBVIOUS
<1>6. (e = {} <=> Accepts(m, a)) /\ (e = {} => SlotsOf(m, a, m2))
  <2>1. IsMeta(m) /\ m.from \in BOOLEAN
    BY <1>3, <1>5
  <2>2. LET r == Interpret(m, a)
        IN  (r.errors = {} <=> Accepts(m, a)) /\ (r.errors = {} => SlotsOf(m, a, r.meta))
    BY ONLY <1>2, <1>4, <2>1, AttributeRead
  <2> QED BY <1>1, <1>5, <2>2
<1>7. PICK w \in Writings, w2 \in {Current'} : w = Current
  BY <1>2
<1>8. /\ Tidy(w2) => Tidy(w)
      /\ Tidy(w) /\ Exactly(m, w) => (Tidy(w2) <=> Accepts(m, a))
      /\ Exactly(m, w) /\ SlotsOf(m, a, m2) => Exactly(m2, w2)
  <2>1. IsABag(w.attributes) /\ More(w, w2, a)
    BY <1>2, <1>7, WritingIs
  <2> QED BY ONLY <2>1, TidyMore
<1>9. (VariantsFine' <=> VariantsFine) /\ (Defaulted' <=> Defaulted)
  BY <1>1, <1>2, SameVariantsFine
<1>10. /\ errors = {} <=> MeetsContract
       /\ errors = {} => (header.category # None <=> Defaulted)
       /\ errors = {} => Exactly(m, w)
  BY <1>5, <1>7 DEF Judged
<1>11. /\ MeetsContract <=> ~header.generic /\ EnumFine(source.header) /\ VariantsFine /\ Tidy(w)
       /\ MeetsContract' <=> ~header.generic /\ EnumFine(source.header) /\ VariantsFine /\ Tidy(w2)
  BY <1>1, <1>2, <1>7, <1>9 DEF MeetsContract
<1>12. errors' = {} <=> errors = {} /\ e = {}
  BY <1>1, <1>5
<1>13. errors' = {} <=> MeetsContract'
  BY ONLY <1>6, <1>8, <1>10, <1>11, <1>12
<1>14. errors' = {} => Exactly(meta', Current')
  BY <1>5, <1>6, <1>7, <1>8, <1>10, <1>12
<1> QED BY <1>1, <1>9, <1>10, <1>12, <1>13, <1>14 DEF Judged

LEMMA JudgedOfEnd ==
  ASSUME ReadingInv, Judged, phase = "variant",
         NEW kind \in ShapesOf[Len(variants) + 1], EndVariant(kind)
  PROVE  Judged'
<1> DEFINE n == Len(variants) + 1
<1>1. /\ phase' = "enum" /\ errors' = errors \cup VariantErrors(meta, kind)
      /\ variants' = Append(variants, Variant(meta, kind))
      /\ UNCHANGED <<header, meta, emitted>>
  BY DEF EndVariant
<1>2. /\ source'.header = source.header
      /\ IsShape(kind) /\ Current \in Writings
      /\ Len(variants') = n /\ Len(variants) \in Nat
      /\ \A i \in 1..Len(variants) : source'.variants[i] = source.variants[i]
      /\ source'.variants[n].attributes = Current.attributes
      /\ source'.variants[n].kind = kind
  BY ReadingOfEnd
<1>3. PICK w \in Writings, w2 \in {source'.variants[n]} : w = Current
  BY <1>2
<1>4. PICK d \in BOOLEAN : d = Defaulted
  BY DEF Defaulted
<1>5. PICK m, e : m = meta /\ e = VariantErrors(meta, kind)
  OBVIOUS
<1>6. /\ w.attributes = w2.attributes /\ w2.kind = kind
      /\ \A a \in BagToSet(w2.attributes) : IsAttribute(a)
  BY <1>2, <1>3, WritingIs
<1>7. /\ Reading(m, w) <=> Reading(m, w2)
      /\ Exactly(m, w) <=> Exactly(m, w2)
      /\ Tidy(w) <=> Tidy(w2)
  BY ONLY <1>6, OfAttributes
<1>8. /\ errors = {} <=> MeetsContract
      /\ errors = {} => (header.category # None <=> Defaulted)
      /\ errors = {} => Exactly(m, w) /\ Reading(m, w)
  BY <1>3, <1>5 DEF Judged, ReadingInv, Faithful
<1>9. MeetsContract <=> ~header.generic /\ EnumFine(source.header) /\ VariantsFine /\ Tidy(w)
  BY <1>3 DEF MeetsContract
<1>10. ASSUME errors = {} PROVE e = {} <=> FineVariant(w2, d)
  <2>1. Tidy(w2) /\ Exactly(m, w2) /\ Reading(m, w2)
    BY <1>7, <1>8, <1>9, <1>10
  <2>2. header.category # None <=> d
    BY <1>4, <1>8, <1>10
  <2>3. VariantErrors(m, kind) = {} <=> FineVariant(w2, d)
    BY ONLY <1>2, <1>6, <2>1, <2>2, VariantAccepted
  <2> QED BY <1>5, <2>3
<1>11. FineVariant(w2, d) => Tidy(w)
  <2>1. FineVariant(w2, d) => Tidy(w2)
    BY DEF FineVariant, WellFormedVariant, Tidy, Taken, Quoted
  <2> QED BY <1>7, <2>1
<1>12. Defaulted' = d
  BY <1>2, <1>4 DEF Defaulted
<1>13. VariantsFine' <=> VariantsFine /\ FineVariant(w2, d)
  <2>1. VariantsFine' <=> \A i \in 1..n : FineVariant(source'.variants[i], d)
    BY <1>2, <1>12 DEF VariantsFine
  <2>2. VariantsFine <=> \A i \in 1..Len(variants) : FineVariant(source.variants[i], d)
    BY <1>4 DEF VariantsFine
  <2>3. \A i : i \in 1..n <=> i \in 1..Len(variants) \/ i = n
    BY <1>2
  <2> QED BY <1>2, <1>3, <2>1, <2>2, <2>3
<1>14. MeetsContract' <=> ~header.generic /\ EnumFine(source.header) /\ VariantsFine'
  BY <1>1, <1>2 DEF MeetsContract
<1>15. errors' = {} <=> errors = {} /\ e = {}
  BY <1>1, <1>5
<1>16. errors' = {} <=> MeetsContract'
  BY ONLY <1>8, <1>9, <1>10, <1>11, <1>13, <1>14, <1>15
<1> QED BY <1>1, <1>4, <1>8, <1>12, <1>15, <1>16 DEF Judged

LEMMA JudgedOfExpand == CodesAreTexts /\ ReadingInv /\ Judged /\ Expand => Judged'
<1> SUFFICES ASSUME CodesAreTexts, ReadingInv, Judged, Expand PROVE Judged'
  OBVIOUS
<1> DEFINE all == errors \cup DuplicateCodes(variants) \cup DuplicateFroms(variants)
<1>1. /\ phase = "enum" /\ phase' = "expanded" /\ errors' = all
      /\ UNCHANGED <<header, meta, variants, source>>
  BY DEF Expand
<1>2. errors' = {} <=> errors = {} /\ DuplicateCodes(variants) = {} /\ DuplicateFroms(variants) = {}
  BY <1>1
<1> HIDE DEF all
<1>3. /\ variants \in Seq(Range(variants)) /\ source.variants \in Seq(Writings)
      /\ Len(source.variants) = Len(variants)
  BY <1>1 DEF ReadingInv, MacroTypeOK, Sources
<1>4. PICK n \in Nat : n = Len(variants)
  BY <1>3
<1>5. DOMAIN variants = 1..n /\ DOMAIN source.variants = 1..n
  BY <1>3, <1>4
<1>6. errors = {} <=> ~header.generic /\ EnumFine(source.header) /\ VariantsFine
  BY <1>1 DEF Judged, MeetsContract
<1>7. Contract <=> /\ ~header.generic /\ EnumFine(source.header) /\ VariantsFine
                     /\ Distinct(source.variants)
  BY <1>4, <1>5 DEF Contract, WellFormed, FineVariant, EnumFine, CategoriesOf, VariantsFine, Defaulted, Distinct
<1>8. ASSUME errors = {}
      PROVE  DuplicateCodes(variants) = {} /\ DuplicateFroms(variants) = {} <=> Distinct(source.variants)
  <2>1. PICK ws \in Seq(Writings) : ws = source.variants
    BY <1>3
  <2>2. PICK vs : vs = variants
    OBVIOUS
  <2>3. DOMAIN vs = 1..n /\ DOMAIN ws = 1..n
    BY <1>5, <2>1, <2>2
  <2>4. \A i \in 1..n : Stands(vs[i], ws[i])
    BY <1>4, <1>8, <2>1, <2>2 DEF ReadingInv, Faithful
  <2>5. \A i \in 1..n : \A c \in CodesOf(ws[i]) :
          c # None /\ Formed(c) /\ \E a \in AllAttributes : a.is = "code" /\ a.value = c
    <3> SUFFICES ASSUME NEW i \in 1..n, NEW c \in CodesOf(ws[i])
                 PROVE  c # None /\ Formed(c)
                          /\ \E a \in AllAttributes : a.is = "code" /\ a.value = c
      OBVIOUS
    <3>1. CodesOf(ws[i]) = Just(vs[i].code)
      BY <2>4 DEF Stands
    <3>2. c # None
      BY <3>1 DEF Just
    <3>3. PICK w \in Writings : w = ws[i]
      BY <2>3
    <3>4. BagToSet(w.attributes) \subseteq AllAttributes
      BY WritingIs
    <3>5. PICK a \in BagToSet(w.attributes) : a.is = "code" /\ a.value = c
      BY <3>3 DEF CodesOf
    <3>6. FineVariant(ws[i], Defaulted)
      BY <1>4, <1>6, <1>8, <2>1 DEF VariantsFine
    <3>7. Formed(c)
      BY <3>6 DEF FineVariant, WellFormedVariant, Formed
    <3> QED BY <3>2, <3>3, <3>4, <3>5, <3>7
  <2>6. CodesByText(ws)
    <3>1. \A a, b \in AllAttributes :
            /\ a.is = "code" /\ a.value # None /\ Formed(a.value)
            /\ b.is = "code" /\ b.value # None /\ Formed(b.value)
            /\ a.value.text = b.value.text
            => a.value = b.value
      BY DEF CodesAreTexts, AllAttributes
    <3> QED BY <2>3, <2>5, <3>1 DEF CodesByText
  <2>7. DuplicateCodes(vs) = {} /\ DuplicateFroms(vs) = {} <=> Distinct(ws)
    BY ONLY <2>3, <2>4, <2>6, DistinctIs
  <2> QED BY <2>1, <2>2, <2>7
<1>9. errors' = {} <=> Contract
  BY ONLY <1>2, <1>6, <1>7, <1>8
<1>10. Contract' <=> Contract
  BY <1>1 DEF Contract, Quoted, WellFormed, WellFormedVariant, IsGiven, GivenTwice, CodesOf, IsFrom, IsTransparent
<1> QED BY <1>1, <1>9, <1>10 DEF Judged

LEMMA JudgedStep ==
  BlanksEndLists /\ CodesAreTexts => (ReadingInv /\ Judged /\ [Next]_vars => Judged')
<1> SUFFICES ASSUME BlanksEndLists, CodesAreTexts, ReadingInv, Judged, [Next]_vars PROVE Judged'
  OBVIOUS
<1>1. ASSUME NEW a \in EnumAttributes, EnumAttribute(a) PROVE Judged'
  BY <1>1, JudgedOfEnum
<1>2. CASE BeginVariant
  BY <1>2, JudgedOfBegin
<1>3. ASSUME phase = "variant", NEW a \in AttributesOf[Len(variants) + 1], VariantAttribute(a) PROVE Judged'
  BY <1>3, JudgedOfAttribute
<1>4. ASSUME phase = "variant", NEW kind \in ShapesOf[Len(variants) + 1], EndVariant(kind) PROVE Judged'
  BY <1>4, JudgedOfEnd
<1>5. CASE Expand
  BY <1>5, JudgedOfExpand
<1>6. CASE UNCHANGED vars
  <2>1. /\ Contract' <=> Contract
        /\ MeetsContract' <=> MeetsContract
        /\ Defaulted' <=> Defaulted
        /\ Exactly(meta, Current)' <=> Exactly(meta, Current)
    BY <1>6 DEF vars, MeetsContract, VariantsFine, Defaulted, Current, Exactly, Tidy, Taken,
                Contract, WellFormed, Quoted, FineVariant, WellFormedVariant, IsGiven, GivenTwice, CodesOf, IsFrom, IsTransparent
  <2> QED BY <1>6, <2>1 DEF vars, Judged
<1> QED BY <1>1, <1>2, <1>3, <1>4, <1>5, <1>6 DEF Next

\* Exactly the enums that meet the documented contract of error! expand, of those whose templates
\* are literals, the bare #[error(transparent)] being refused; of every other one the enum is
\* emitted alone and there is a complaint (error_macro.rs:3-5, 264-274 and 1010-1017). Of enums
\* whose code lists have no token in the place of a key and no code spelled in two ways.
THEOREM ExactlyTheContractExpands ==
  BlanksEndLists /\ CodesAreTexts => (Spec => []AcceptsContract)
<1> SUFFICES ASSUME BlanksEndLists, CodesAreTexts PROVE Spec => []AcceptsContract
  OBVIOUS
<1>1. Init => ReadingInv /\ Judged
  BY ReadingInit, JudgedInit
<1>2. ReadingInv /\ Judged /\ [Next]_vars => (ReadingInv /\ Judged)'
  BY ReadingStep, JudgedStep
<1>3. ReadingInv /\ Judged => AcceptsContract
  <2> SUFFICES ASSUME ReadingInv, Judged, phase = "expanded"
               PROVE  /\ errors = {} <=> Contract
                      /\ errors # {} => {it.item : it \in emitted} \subseteq {"variant"}
    BY DEF AcceptsContract, Contract
  <2>1. errors = {} <=> Contract
    BY DEF Judged
  <2>2. errors # {} => emitted = EmitEnum(variants)
    BY DEF ReadingInv, Emission
  <2>3. \A it \in EmitEnum(variants) : it.item = "variant"
    BY ItemIs DEF EmitEnum
  <2> QED BY <2>1, <2>2, <2>3
<1> QED BY <1>1, <1>2, <1>3, PTL DEF Spec
=============================================================================
