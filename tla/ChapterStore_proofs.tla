------------------------- MODULE ChapterStore_proofs -------------------------
(***************************************************************************)
(* Proofs about ChapterStore for any book, drafts, number of revisions and *)
(* number of requests at the same time, as long as no session uses the     *)
(* connection between the first rows of another and its commit.            *)
(***************************************************************************)
EXTENDS ChapterStore, FiniteSetTheorems, SequenceTheorems, TLAPS

-----------------------------------------------------------------------------
(* Counting.                                                               *)

(* f numbers the members of S from 0 to n - 1.                             *)
Numbers(f, S, n) == /\ f \in [S -> 0..(n - 1)]
                    /\ \A v, w \in S : f[v] = f[w] => v = w
                    /\ \A k \in 0..(n - 1) : \E v \in S : f[v] = k

(* A set that can be numbered is finite, and has as many members.          *)
LEMMA Counted ==
    ASSUME NEW S, NEW n \in Nat, NEW f, Numbers(f, S, n)
    PROVE  IsFiniteSet(S) /\ Cardinality(S) = n
  <1>. DEFINE g == [k \in 1..n |-> CHOOSE v \in S : f[v] = k - 1]
  <1>1. \A k \in 1..n : g[k] \in S /\ f[g[k]] = k - 1
    <2>1. ASSUME NEW k \in 1..n PROVE \E v \in S : f[v] = k - 1
      BY k - 1 \in 0..(n - 1) DEF Numbers
    <2>. QED
      BY <2>1
  <1>2. g \in [1..n -> S]
    BY <1>1
  <1>3. \A j, k \in 1..n : g[j] = g[k] => j = k
    BY <1>1
  <1>4. \A v \in S : \E k \in 1..n : g[k] = v
    <2>1. ASSUME NEW v \in S PROVE g[f[v] + 1] = v /\ f[v] + 1 \in 1..n
      BY <1>1 DEF Numbers
    <2>. QED
      BY <2>1
  <1>5. ExistsBijection(1..n, S)
    <2>. HIDE DEF g
    <2>1. g \in Bijection(1..n, S)
      BY <1>2, <1>3, <1>4 DEF Bijection, Injection, Surjection, IsInjective
    <2>. QED
      BY <2>1 DEF ExistsBijection
  <1>. QED
    BY <1>5, FS_CountingElements, FS_NatBijection

(* The rank of a member of such a set is its number.                       *)
LEMMA Ranked ==
    ASSUME NEW S, NEW n \in Nat, NEW f, Numbers(f, S, n), NEW k \in 0..n
    PROVE  /\ IsFiniteSet({w \in S : f[w] < k})
           /\ Cardinality({w \in S : f[w] < k}) = k
  <1>. DEFINE T == {w \in S : f[w] < k}
              g == [w \in T |-> f[w]]
  <1>1. Numbers(g, T, k) /\ k \in Nat
    BY DEF Numbers
  <1>. HIDE DEF T, g
  <1>2. IsFiniteSet(T) /\ Cardinality(T) = k
    BY <1>1, Counted
  <1>. QED
    BY <1>2 DEF T

(* A finite set of integers that is not empty has a least member.          *)
LEMMA MinIs ==
    ASSUME NEW S \in SUBSET Int, S # {}, IsFiniteSet(S)
    PROVE  Min(S) \in S /\ \A k \in S : Min(S) <= k
  <1>. DEFINE Upto(m) == {x \in S : x <= m}
              C == {Upto(m) : m \in S}
  <1>1. IsWellFoundedOn(StrictSubsetOrdering(S), FiniteSubsetsOf(S))
    BY FS_StrictSubsetOrderingWellFounded
  <1>2. C \subseteq FiniteSubsetsOf(S) /\ C # {}
    <2>1. C \subseteq SUBSET S /\ C # {}
      OBVIOUS
    <2>. HIDE DEF C
    <2>. QED
      BY <2>1, FS_FiniteSubsetsOfFinite
  <1>3. PICK T \in C : \A U \in C : ~(<<U, T>> \in StrictSubsetOrdering(S))
    <2>. HIDE DEF C
    <2>. QED
      BY <1>1, <1>2, WFMin
  <1>4. PICK m \in S : T = Upto(m)
    BY <1>3
  <1>5. ASSUME NEW k \in S PROVE m <= k
    <2>. SUFFICES ASSUME k < m PROVE FALSE
      OBVIOUS
    <2>2. Upto(k) \subseteq Upto(m) /\ m \in Upto(m) /\ m \notin Upto(k)
      <3>1. m \in Int /\ k \in Int /\ k < m /\ \A x \in S : x \in Int
        OBVIOUS
      <3>2. m \in Upto(m)
        BY <3>1
      <3>3. m \notin Upto(k)
        BY <3>1
      <3>4. \A x \in Upto(k) : x \in Upto(m)
        BY <3>1
      <3>. HIDE DEF Upto
      <3>. QED
        BY <3>2, <3>3, <3>4
    <2>3. <<Upto(k), T>> \in StrictSubsetOrdering(S)
      BY <2>2, <1>4 DEF StrictSubsetOrdering
    <2>. QED
      BY <2>3, <1>3
  <1>. QED
    BY <1>4, <1>5 DEF Min

(* Of some natural numbers one is the least.                               *)
LEMMA Least ==
    ASSUME NEW T \in SUBSET Nat, T # {}
    PROVE  \E m \in T : \A k \in T : m <= k
  <1>1. PICK n \in T : TRUE
    OBVIOUS
  <1>. DEFINE U == T \cap (0..n)
  <1>2. U \in SUBSET Int /\ U # {}
    OBVIOUS
  <1>3. IsFiniteSet(U)
    <2>1. IsFiniteSet(0..n)
      BY FS_Interval
    <2>. QED
      BY <2>1, FS_Subset
  <1>. HIDE DEF U
  <1>4. Min(U) \in U /\ \A k \in U : Min(U) <= k
    BY <1>2, <1>3, MinIs
  <1>5. \A k \in T : Min(U) <= k
    <2>1. ASSUME NEW k \in T, k > n PROVE Min(U) <= k
      BY <1>4, <2>1 DEF U
    <2>. QED
      BY <2>1, <1>4 DEF U
  <1>. QED
    BY <1>4, <1>5 DEF U

(* A sequence of sequences, one behind the other.                          *)
Joins(f, ss, n) == \A i \in 1..n : f[i] = IF i = 1 THEN ss[i] ELSE f[i - 1] \o ss[i]

LEMMA Joined ==
    ASSUME NEW S, NEW ss \in Seq(Seq(S)), Len(ss) # 0
    PROVE  \E f \in [1..Len(ss) -> Seq(S)] : /\ Joins(f, ss, Len(ss))
                                            /\ FlattenSeq(ss) = f[Len(ss)]
  <1>. DEFINE n == Len(ss)
  <1>1. n \in Nat \ {0} /\ \A i \in 1..n : ss[i] \in Seq(S)
    OBVIOUS
  <1>. DEFINE Bad == {m \in 1..n : ~\E f \in [1..m -> Seq(S)] : Joins(f, ss, m)}
  <1>2. Bad = {}
    <2>. SUFFICES ASSUME Bad # {} PROVE FALSE
      OBVIOUS
    <2>1. PICK m \in Bad : \A k \in Bad : m <= k
      <3>1. Bad \in SUBSET Nat
        BY <1>1
      <3>. HIDE DEF Bad
      <3>. QED
        BY <3>1, Least
    <2>2. m \in 1..n
      OBVIOUS
    <2>3. CASE m = 1
      <3>. DEFINE f == [i \in 1..1 |-> ss[1]]
      <3>1. f \in [1..m -> Seq(S)]
        BY <2>2, <2>3, <1>1
      <3>2. Joins(f, ss, m)
        BY <2>3 DEF Joins
      <3>. QED
        BY <3>1, <3>2
    <2>4. CASE m > 1
      <3>1. m - 1 \in 1..n /\ m - 1 \notin Bad
        <4>1. m - 1 \in 1..n /\ ~(m <= m - 1)
          BY <2>2, <2>4, <1>1
        <4>. HIDE DEF Bad
        <4>. QED
          BY <4>1, <2>1
      <3>2. PICK f \in [1..(m - 1) -> Seq(S)] : Joins(f, ss, m - 1)
        BY <3>1
      <3>. DEFINE g == [i \in 1..m |-> IF i = m THEN f[m - 1] \o ss[m] ELSE f[i]]
      <3>3. f[m - 1] \o ss[m] \in Seq(S)
        <4>1. f[m - 1] \in Seq(S) /\ ss[m] \in Seq(S)
          BY <2>2, <2>4, <1>1
        <4>. QED
          BY <4>1
      <3>4. g \in [1..m -> Seq(S)]
        BY <2>2, <2>4, <3>3
      <3>5. Joins(g, ss, m)
        <4>1. ASSUME NEW i \in 1..m PROVE g[i] = IF i = 1 THEN ss[i] ELSE g[i - 1] \o ss[i]
          <5>1. CASE i = m
            <6>1. m - 1 \in 1..m /\ m - 1 # m /\ i # 1
              BY <2>2, <2>4, <5>1
            <6>. QED
              BY <5>1, <6>1
          <5>2. CASE i # m
            <6>1. i \in 1..(m - 1) /\ (i # 1 => i - 1 \in 1..m /\ i - 1 # m)
              BY <2>2, <5>2
            <6>2. f[i] = IF i = 1 THEN ss[i] ELSE f[i - 1] \o ss[i]
              BY <3>2, <6>1 DEF Joins
            <6>. QED
              BY <6>1, <6>2, <5>2
          <5>. QED
            BY <5>1, <5>2
        <4>. QED
          BY <4>1 DEF Joins
      <3>. QED
        BY <3>4, <3>5
    <2>. QED
      BY <2>2, <2>3, <2>4
  <1>3. PICK f \in [1..n -> Seq(S)] : Joins(f, ss, n)
    BY <1>1, <1>2
  <1>. DEFINE F == CHOOSE h : h = [i \in 1..n |-> IF i = 1 THEN ss[i] ELSE h[i - 1] \o ss[i]]
  <1>4. F = [i \in 1..n |-> IF i = 1 THEN ss[i] ELSE F[i - 1] \o ss[i]]
    <2>1. f = [i \in 1..n |-> IF i = 1 THEN ss[i] ELSE f[i - 1] \o ss[i]]
      BY <1>3 DEF Joins
    <2>. QED
      BY <2>1
  <1>5. FlattenSeq(ss) = F[n]
    BY <1>1 DEF FlattenSeq
  <1>. HIDE DEF F
  <1>6. Joins(F, ss, n)
    BY <1>4 DEF Joins
  <1>. DEFINE Odd == {i \in 1..n : F[i] \notin Seq(S)}
  <1>7. Odd = {}
    <2>. SUFFICES ASSUME Odd # {} PROVE FALSE
      OBVIOUS
    <2>1. PICK m \in Odd : \A k \in Odd : m <= k
      <3>1. Odd \in SUBSET Nat
        BY <1>1
      <3>. HIDE DEF Odd
      <3>. QED
        BY <3>1, Least
    <2>2. m \in 1..n /\ F[m] \notin Seq(S)
      OBVIOUS
    <2>3. CASE m = 1
      BY <2>2, <2>3, <1>1, <1>6 DEF Joins
    <2>4. CASE m > 1
      <3>1. m - 1 \in 1..n /\ F[m - 1] \in Seq(S)
        BY <2>1, <2>2, <2>4, <1>1
      <3>2. F[m] = F[m - 1] \o ss[m] /\ ss[m] \in Seq(S)
        BY <2>2, <2>4, <1>1, <1>6 DEF Joins
      <3>. QED
        BY <2>2, <3>1, <3>2
    <2>. QED
      BY <2>2, <2>3, <2>4
  <1>8. F \in [1..n -> Seq(S)]
    BY <1>4, <1>7
  <1>. QED
    BY <1>5, <1>6, <1>8

LEMMA Flattened ==
    ASSUME NEW S, NEW ss \in Seq(Seq(S))
    PROVE  FlattenSeq(ss) \in Seq(S)
  <1>1. CASE Len(ss) = 0
    <2>1. FlattenSeq(ss) = ss
      BY <1>1 DEF FlattenSeq
    <2>. QED
      BY <2>1, <1>1, EmptySeq
  <1>2. CASE Len(ss) # 0
    <2>1. PICK f \in [1..Len(ss) -> Seq(S)] : FlattenSeq(ss) = f[Len(ss)]
      BY <1>2, Joined
    <2>. QED
      BY <2>1, <1>2
  <1>. QED
    BY <1>1, <1>2

(* A function on 1..n is a sequence.                                       *)
LEMMA FunctionSeq ==
    ASSUME NEW S, NEW n \in Nat, NEW f \in [1..n -> S]
    PROVE  f \in Seq(S) /\ Len(f) = n
  OBVIOUS

(* What comes behind a text that is already there.                         *)
Continues(g, m, P, t, h, k, S) ==
    /\ P \in Seq(S) /\ k \in Nat /\ m \in Nat /\ Joins(h, t, k)
    /\ \A j \in 1..k : t[j] \in Seq(S) /\ h[j] \in Seq(S)
    /\ \A j \in 1..k : g[m + j] = (IF j = 1 THEN P ELSE g[m + j - 1]) \o t[j]

Associates(S) == \A x, y, z \in Seq(S) : (x \o y) \o z = x \o (y \o z)

LEMMA Associative == ASSUME NEW S PROVE Associates(S)
  BY ConcatAssociative DEF Associates

Follows(g, m, P, h, k) == \A j \in 1..k : g[m + j] = P \o h[j]

LEMMA Behind ==
    ASSUME NEW S, NEW P, NEW k, NEW m, NEW t, NEW h, NEW g, Continues(g, m, P, t, h, k, S)
    PROVE  Follows(g, m, P, h, k)
  <1>0. /\ P \in Seq(S) /\ k \in Nat /\ m \in Nat /\ Joins(h, t, k)
        /\ \A j \in 1..k : t[j] \in Seq(S) /\ h[j] \in Seq(S)
        /\ \A j \in 1..k : g[m + j] = (IF j = 1 THEN P ELSE g[m + j - 1]) \o t[j]
    BY DEF Continues
  <1>a. Associates(S)
    BY Associative
  <1>. DEFINE Bad == {j \in 1..k : g[m + j] # P \o h[j]}
  <1>. SUFFICES ASSUME Bad # {} PROVE FALSE
    BY DEF Follows
  <1>1. PICK j \in Bad : \A i \in Bad : j <= i
    <2>1. Bad \in SUBSET Nat
      OBVIOUS
    <2>. HIDE DEF Bad
    <2>. QED
      BY <2>1, Least
  <1>2. j \in 1..k /\ g[m + j] # P \o h[j]
    OBVIOUS
  <1>3. CASE j = 1
    <2>1. h[j] = t[j] /\ g[m + j] = P \o t[j]
      BY <1>0, <1>2, <1>3 DEF Joins
    <2>. QED
      BY <2>1, <1>2
  <1>4. CASE j # 1
    <2>1. PICK i \in 1..k : i = j - 1
      BY <1>0, <1>2, <1>4
    <2>2. i \notin Bad
      <3>1. ~(j <= i)
        BY <2>1, <1>0
      <3>. HIDE DEF Bad
      <3>. QED
        BY <3>1, <1>1
    <2>3. g[m + i] = P \o h[i]
      BY <2>2
    <2>4. h[j] = h[i] \o t[j] /\ g[m + j] = g[m + i] \o t[j]
      <3>1. m + j - 1 = m + i
        BY <2>1, <1>0, <1>2
      <3>2. g[m + j] = g[m + j - 1] \o t[j]
        BY <1>0, <1>2, <1>4
      <3>3. h[j] = h[j - 1] \o t[j]
        BY <1>0, <1>2, <1>4 DEF Joins
      <3>. QED
        BY <3>1, <3>2, <3>3, <2>1
    <2>5. P \in Seq(S) /\ h[i] \in Seq(S) /\ t[j] \in Seq(S)
      BY <1>0, <1>2
    <2>6. (P \o h[i]) \o t[j] = P \o (h[i] \o t[j])
      <3>. HIDE DEF Bad
      <3>. QED
        BY <2>5, <1>a, Zenon DEF Associates
    <2>. QED
      BY <1>2, <2>3, <2>4, <2>6
  <1>. QED
    BY <1>3, <1>4

(* Two books in one volume.                                                *)
LEMMA Glued ==
    ASSUME NEW S, NEW s \in Seq(Seq(S)), NEW t \in Seq(Seq(S))
    PROVE  FlattenSeq(s \o t) = FlattenSeq(s) \o FlattenSeq(t)
  <1>1. CASE Len(s) = 0
    <2>1. s = <<>> /\ FlattenSeq(s) = <<>>
      <3>1. s = <<>>
        BY <1>1, EmptySeq
      <3>. QED
        BY <3>1, <1>1 DEF FlattenSeq
    <2>2. FlattenSeq(t) \in Seq(S)
      BY Flattened
    <2>. QED
      BY <2>1, <2>2, ConcatEmptySeq
  <1>2. CASE Len(t) = 0
    <2>1. t = <<>> /\ FlattenSeq(t) = <<>>
      <3>1. t = <<>>
        BY <1>2, EmptySeq
      <3>. QED
        BY <3>1, <1>2 DEF FlattenSeq
    <2>2. FlattenSeq(s) \in Seq(S)
      BY Flattened
    <2>. QED
      BY <2>1, <2>2, ConcatEmptySeq
  <1>3. CASE Len(s) # 0 /\ Len(t) # 0
    <2>. DEFINE m == Len(s)
                k == Len(t)
                st == s \o t
    <2>1. /\ m \in Nat \ {0} /\ k \in Nat \ {0} /\ st \in Seq(Seq(S)) /\ Len(st) = m + k
          /\ \A i \in 1..m : s[i] \in Seq(S) /\ st[i] = s[i]
          /\ \A j \in 1..k : t[j] \in Seq(S) /\ st[m + j] = t[j]
      BY <1>3
    <2>2. PICK f \in [1..m -> Seq(S)] : Joins(f, s, m) /\ FlattenSeq(s) = f[m]
      BY <1>3, Joined
    <2>3. PICK h \in [1..k -> Seq(S)] : Joins(h, t, k) /\ FlattenSeq(t) = h[k]
      BY <1>3, Joined
    <2>. HIDE DEF m, k, st
    <2>4. PICK g \in [1..(m + k) -> Seq(S)] : Joins(g, st, m + k) /\ FlattenSeq(st) = g[m + k]
      <3>1. Len(st) # 0
        BY <2>1
      <3>. QED
        <4>1. \E g \in [1..Len(st) -> Seq(S)] : /\ Joins(g, st, Len(st))
                                               /\ FlattenSeq(st) = g[Len(st)]
          BY <3>1, <2>1, Joined
        <4>. QED
          BY <4>1, <2>1
    <2>5. <<>> \in Seq(S)
      OBVIOUS
    <2>6. \A i \in 1..m : g[0 + i] = <<>> \o f[i]
      <3>1. ASSUME NEW i \in 1..m PROVE g[0 + i] = (IF i = 1 THEN <<>> ELSE g[0 + i - 1]) \o s[i]
        <4>1. i \in 1..(m + k) /\ 0 + i = i /\ 0 + i - 1 = i - 1
          BY <2>1
        <4>2. g[i] = IF i = 1 THEN st[i] ELSE g[i - 1] \o st[i]
          BY <2>4, <4>1 DEF Joins
        <4>3. st[i] = s[i] /\ s[i] \in Seq(S)
          BY <2>1
        <4>4. <<>> \o s[i] = s[i]
          BY <4>3, ConcatEmptySeq
        <4>. QED
          BY <4>1, <4>2, <4>3, <4>4
      <3>2. \A i \in 1..m : s[i] \in Seq(S) /\ f[i] \in Seq(S)
        BY <2>1, <2>2
      <3>3. m \in Nat /\ 0 \in Nat
        BY <2>1
      <3>4. Continues(g, 0, <<>>, s, f, m, S)
        BY <3>1, <3>2, <3>3, <2>2, <2>5 DEF Continues
      <3>5. Follows(g, 0, <<>>, f, m)
        BY <3>4, Behind
      <3>. QED
        BY <3>5 DEF Follows
    <2>7. g[m] = f[m] /\ f[m] \in Seq(S)
      <3>1. m \in 1..m /\ 0 + m = m
        BY <2>1
      <3>2. f[m] \in Seq(S)
        BY <3>1, <2>2
      <3>3. <<>> \o f[m] = f[m]
        BY <3>2, ConcatEmptySeq
      <3>4. g[0 + m] = <<>> \o f[m]
        BY <3>1, <2>6
      <3>. QED
        BY <3>1, <3>2, <3>3, <3>4
    <2>8. \A j \in 1..k : g[m + j] = f[m] \o h[j]
      <3>1. ASSUME NEW j \in 1..k
            PROVE  g[m + j] = (IF j = 1 THEN f[m] ELSE g[m + j - 1]) \o t[j]
        <4>1. m + j \in 1..(m + k) /\ m + j # 1 /\ (j = 1 => m + j - 1 = m)
          BY <2>1
        <4>2. g[m + j] = g[m + j - 1] \o st[m + j]
          <5>1. PICK i \in 1..(m + k) : i = m + j
            BY <4>1
          <5>2. g[i] = g[i - 1] \o st[i]
            BY <5>1, <4>1, <2>4 DEF Joins
          <5>3. i - 1 = m + j - 1
            BY <5>1, <2>1
          <5>. QED
            BY <5>1, <5>2, <5>3, Zenon
        <4>3. st[m + j] = t[j]
          BY <2>1
        <4>. QED
          BY <4>1, <4>2, <4>3, <2>7
      <3>2. \A j \in 1..k : t[j] \in Seq(S) /\ h[j] \in Seq(S)
        BY <2>1, <2>3
      <3>3. m \in Nat /\ k \in Nat
        BY <2>1
      <3>4. Continues(g, m, f[m], t, h, k, S)
        BY <3>1, <3>2, <3>3, <2>3, <2>7 DEF Continues
      <3>5. Follows(g, m, f[m], h, k)
        BY <3>4, Behind
      <3>. QED
        BY <3>5 DEF Follows
    <2>9. k \in 1..k
      BY <2>1
    <2>10. g[m + k] = f[m] \o h[k]
      BY <2>8, <2>9
    <2>. QED
      BY <2>2, <2>3, <2>4, <2>10 DEF st
  <1>. QED
    BY <1>1, <1>2, <1>3

(* In q the member k of p is cut in two.                                   *)
CutAt(p, q, k) ==
    /\ k \in 1..Len(p) /\ Len(q) = Len(p) + 1
    /\ \A i \in 1..(k - 1) : q[i] = p[i]
    /\ p[k] = q[k] \o q[k + 1]
    /\ \A i \in (k + 1)..Len(p) : q[i + 1] = p[i]

LEMMA CutText ==
    ASSUME NEW S, NEW p \in Seq(Seq(S)), NEW q \in Seq(Seq(S)), NEW k, CutAt(p, q, k)
    PROVE  FlattenSeq(q) = FlattenSeq(p)
  <1>. DEFINE n == Len(p)
  <1>1. /\ n \in Nat \ {0} /\ k \in 1..n /\ Len(q) = n + 1
        /\ \A i \in 1..n : p[i] \in Seq(S)
        /\ \A i \in 1..(n + 1) : q[i] \in Seq(S)
    BY DEF CutAt
  <1>2. PICK f \in [1..n -> Seq(S)] : Joins(f, p, n) /\ FlattenSeq(p) = f[n]
    BY <1>1, Joined
  <1>3. PICK g \in [1..(n + 1) -> Seq(S)] : Joins(g, q, n + 1) /\ FlattenSeq(q) = g[n + 1]
    <2>1. Len(q) # 0
      BY <1>1
    <2>. QED
      BY <2>1, <1>1, Joined
  <1>4. /\ \A i \in 1..n : i < k => q[i] = p[i]
        /\ p[k] = q[k] \o q[k + 1]
        /\ \A i \in 1..n : i > k => q[i + 1] = p[i]
    <2>1. \A i \in 1..n : (i < k => i \in 1..(k - 1)) /\ (i > k => i \in (k + 1)..n)
      BY <1>1
    <2>. QED
      BY <2>1 DEF CutAt
  <1>. HIDE DEF n
  <1>5. \A i \in 2..n : f[i] = f[i - 1] \o p[i]
    <2>1. \A i \in 2..n : i \in 1..n /\ i # 1
      BY <1>1
    <2>. QED
      BY <2>1, <1>2 DEF Joins
  <1>6. \A i \in 2..(n + 1) : g[i] = g[i - 1] \o q[i]
    <2>1. \A i \in 2..(n + 1) : i \in 1..(n + 1) /\ i # 1
      BY <1>1
    <2>. QED
      BY <2>1, <1>3 DEF Joins
  <1>7. f[1] = p[1] /\ g[1] = q[1]
    <2>1. 1 \in 1..n /\ 1 \in 1..(n + 1)
      BY <1>1
    <2>. QED
      BY <2>1, <1>2, <1>3 DEF Joins
  <1>a. Associates(S)
    BY Associative
  <1>. DEFINE Bad == {i \in 1..n : g[IF i < k THEN i ELSE i + 1] # f[i]}
  <1>8. Bad = {}
    <2>. SUFFICES ASSUME Bad # {} PROVE FALSE
      OBVIOUS
    <2>1. PICK j \in Bad : \A i \in Bad : j <= i
      <3>1. Bad \in SUBSET Nat
        BY <1>1
      <3>. HIDE DEF Bad
      <3>. QED
        BY <3>1, Least
    <2>2. j \in 1..n /\ g[IF j < k THEN j ELSE j + 1] # f[j]
      OBVIOUS
    <2>3. CASE j = 1 /\ j < k
      BY <2>2, <2>3, <1>4, <1>7
    <2>4. CASE j = 1 /\ j = k
      <3>1. g[2] = g[1] \o q[2]
        <4>1. 2 \in 2..(n + 1) /\ 2 - 1 = 1
          BY <1>1
        <4>. QED
          BY <4>1, <1>6
      <3>2. f[1] = q[1] \o q[2]
        <4>1. k + 1 = 2 /\ k = 1
          BY <2>4
        <4>. QED
          BY <4>1, <1>4, <1>7
      <3>3. (IF j < k THEN j ELSE j + 1) = 2
        BY <2>4
      <3>. QED
        BY <3>1, <3>2, <3>3, <1>7, <2>2, <2>4
    <2>5. ASSUME j > 1 PROVE FALSE
      <3>1. PICK i \in 1..n : i = j - 1
        BY <2>2, <2>5, <1>1
      <3>2. g[IF i < k THEN i ELSE i + 1] = f[i]
        <4>1. ~(j <= i)
          BY <3>1, <2>2
        <4>2. i \notin Bad
          <5>. HIDE DEF Bad
          <5>. QED
            BY <4>1, <2>1
        <4>. QED
          BY <4>2
      <3>3. f[j] = f[i] \o p[j]
        <4>1. j \in 2..n
          BY <2>2, <2>5
        <4>. QED
          BY <4>1, <3>1, <1>5
      <3>4. CASE j < k
        <4>1. i < k /\ j \in 2..(n + 1)
          BY <3>1, <3>4, <2>2, <2>5, <1>1
        <4>2. g[j] = g[i] \o q[j]
          BY <4>1, <3>1, <1>6
        <4>3. g[i] = f[i] /\ q[j] = p[j] /\ g[j] # f[j]
          BY <4>1, <3>2, <3>4, <1>4, <2>2
        <4>. QED
          BY <4>2, <4>3, <3>3
      <3>5. CASE j = k
        <4>1. i < k /\ j \in 2..(n + 1) /\ ~(j < k)
          BY <3>1, <3>5, <2>2, <2>5, <1>1
        <4>2. g[j] = g[i] \o q[j]
          BY <4>1, <3>1, <1>6
        <4>3. g[j + 1] = g[j] \o q[j + 1]
          <5>1. PICK l \in 2..(n + 1) : l = j + 1
            BY <2>2, <1>1
          <5>2. l - 1 = j
            BY <5>1, <2>2
          <5>. QED
            BY <5>1, <5>2, <1>6
        <4>4. g[i] = f[i] /\ p[j] = q[j] \o q[j + 1] /\ g[j + 1] # f[j]
          BY <4>1, <3>2, <3>5, <1>4, <2>2
        <4>5. f[i] \in Seq(S) /\ q[j] \in Seq(S) /\ q[j + 1] \in Seq(S)
          <5>1. j \in 1..(n + 1) /\ j + 1 \in 1..(n + 1)
            BY <2>2, <1>1
          <5>. QED
            BY <5>1, <1>1, <1>2
        <4>6. (f[i] \o q[j]) \o q[j + 1] = f[i] \o (q[j] \o q[j + 1])
          <5>. HIDE DEF Bad
          <5>. QED
            BY <4>5, <1>a, Zenon DEF Associates
        <4>. QED
          BY <4>2, <4>3, <4>4, <4>6, <3>3
      <3>6. CASE j > k
        <4>1. ~(i < k) /\ ~(j < k)
          BY <3>1, <3>6, <2>2, <1>1
        <4>2. g[j + 1] = g[i + 1] \o q[j + 1]
          <5>1. PICK l \in 2..(n + 1) : l = j + 1
            BY <2>2, <1>1
          <5>2. l - 1 = i + 1
            BY <5>1, <3>1, <2>2
          <5>. QED
            BY <5>1, <5>2, <1>6
        <4>3. g[i + 1] = f[i] /\ q[j + 1] = p[j] /\ g[j + 1] # f[j]
          BY <4>1, <3>2, <3>6, <1>4, <2>2
        <4>. QED
          BY <4>2, <4>3, <3>3
      <3>. QED
        BY <3>4, <3>5, <3>6, <2>2, <1>1
    <2>. QED
      BY <2>2, <2>3, <2>4, <2>5, <1>1
  <1>9. g[n + 1] = f[n]
    <2>1. n \in 1..n /\ ~(n < k)
      BY <1>1
    <2>2. n \notin Bad
      BY <1>8
    <2>. QED
      BY <2>1, <2>2
  <1>. QED
    BY <1>2, <1>3, <1>9

(* A sequence is the function on its positions.                            *)
LEMMA SeqIs ==
    ASSUME NEW S, NEW n \in Nat, NEW s \in Seq(S), Len(s) = n
    PROVE  s = [i \in 1..n |-> s[i]] /\ \A i \in 1..n : s[i] \in S
  OBVIOUS

(* One sequence behind another, and the two parts of one that is cut.      *)
Chained(r, s, t, m, n, S) == /\ r \in Seq(S) /\ Len(r) = m + n
                             /\ \A i \in 1..m : r[i] = s[i]
                             /\ \A j \in 1..n : r[m + j] = t[j]

LEMMA ConcatIs ==
    ASSUME NEW S, NEW s \in Seq(S), NEW t \in Seq(S), NEW m \in Nat, NEW n \in Nat,
           Len(s) = m, Len(t) = n
    PROVE  Chained(s \o t, s, t, m, n, S)
  <1>1. s \o t \in Seq(S) /\ Len(s \o t) = m + n
    OBVIOUS
  <1>2. (\A i \in 1..m : (s \o t)[i] = s[i]) /\ \A j \in 1..n : (s \o t)[m + j] = t[j]
    OBVIOUS
  <1>. QED
    BY <1>1, <1>2 DEF Chained

LEMMA Pieces ==
    ASSUME NEW S, NEW s \in Seq(S), NEW cut \in 0..Len(s)
    PROVE  /\ SubSeq(s, 1, cut) \in Seq(S) /\ Len(SubSeq(s, 1, cut)) = cut
           /\ \A i \in 1..cut : SubSeq(s, 1, cut)[i] = s[i]
           /\ SubSeq(s, cut + 1, Len(s)) \in Seq(S)
           /\ Len(SubSeq(s, cut + 1, Len(s))) = Len(s) - cut
           /\ \A i \in 1..(Len(s) - cut) : SubSeq(s, cut + 1, Len(s))[i] = s[cut + i]
  <1>. DEFINE n == Len(s)
  <1>1. n \in Nat /\ cut \in Nat /\ cut <= n /\ \A i \in 1..n : s[i] \in S
    OBVIOUS
  <1>. HIDE DEF n
  <1>2. /\ SubSeq(s, 1, cut) \in Seq(S)
        /\ Len(SubSeq(s, 1, cut)) = IF 1 <= cut THEN cut - 1 + 1 ELSE 0
        /\ \A i \in 1..(cut - 1 + 1) : SubSeq(s, 1, cut)[i] = s[1 + i - 1]
    <2>1. (\A i \in 1..cut : s[i] \in S) /\ 1 \in Int /\ cut \in Int
      BY <1>1
    <2>. QED
      BY <2>1, SubSeqProperties
  <1>3. /\ SubSeq(s, cut + 1, n) \in Seq(S)
        /\ Len(SubSeq(s, cut + 1, n)) = IF cut + 1 <= n THEN n - (cut + 1) + 1 ELSE 0
        /\ \A i \in 1..(n - (cut + 1) + 1) : SubSeq(s, cut + 1, n)[i] = s[cut + 1 + i - 1]
    <2>1. (\A i \in (cut + 1)..n : s[i] \in S) /\ cut + 1 \in Int /\ n \in Int
      BY <1>1
    <2>. QED
      BY <2>1, SubSeqProperties
  <1>4. Len(SubSeq(s, 1, cut)) = cut /\ \A i \in 1..cut : SubSeq(s, 1, cut)[i] = s[i]
    <2>1. ASSUME NEW i \in 1..cut PROVE SubSeq(s, 1, cut)[i] = s[i]
      <3>1. i \in 1..(cut - 1 + 1) /\ 1 + i - 1 = i
        BY <1>1
      <3>. QED
        BY <1>2, <3>1
    <2>. QED
      BY <1>1, <1>2, <2>1
  <1>5. /\ Len(SubSeq(s, cut + 1, n)) = n - cut
        /\ \A i \in 1..(n - cut) : SubSeq(s, cut + 1, n)[i] = s[cut + i]
    <2>1. ASSUME NEW i \in 1..(n - cut) PROVE SubSeq(s, cut + 1, n)[i] = s[cut + i]
      <3>1. i \in 1..(n - (cut + 1) + 1) /\ cut + 1 + i - 1 = cut + i
        BY <1>1
      <3>. QED
        BY <1>3, <3>1
    <2>. QED
      BY <1>1, <1>3, <2>1
  <1>. QED
    BY <1>2, <1>3, <1>4, <1>5 DEF n

(* The two parts of a sequence put together again.                         *)
LEMMA Rejoined ==
    ASSUME NEW S, NEW s \in Seq(S), NEW cut \in 0..Len(s)
    PROVE  s = SubSeq(s, 1, cut) \o SubSeq(s, cut + 1, Len(s))
  <1>. DEFINE n == Len(s)
              t == SubSeq(s, 1, cut)
              u == SubSeq(s, cut + 1, Len(s))
              q == t \o u
  <1>1. /\ t \in Seq(S) /\ Len(t) = cut /\ \A i \in 1..cut : t[i] = s[i]
        /\ u \in Seq(S) /\ Len(u) = n - cut /\ \A i \in 1..(n - cut) : u[i] = s[cut + i]
    BY Pieces
  <1>2. n \in Nat /\ cut \in Nat /\ cut <= n
    OBVIOUS
  <1>3. s = [i \in 1..n |-> s[i]]
    BY <1>2, SeqIs
  <1>. HIDE DEF n, t, u
  <1>4. /\ q \in Seq(S) /\ Len(q) = n
        /\ \A i \in 1..cut : q[i] = t[i]
        /\ \A i \in 1..(n - cut) : q[cut + i] = u[i]
    <2>1. n - cut \in Nat /\ cut + (n - cut) = n
      BY <1>2
    <2>2. Chained(q, t, u, cut, n - cut, S)
      BY <1>1, <1>2, <2>1, ConcatIs
    <2>. HIDE DEF q
    <2>. QED
      BY <2>1, <2>2 DEF Chained
  <1>. HIDE DEF q
  <1>5. q = [i \in 1..n |-> q[i]]
    BY <1>2, <1>4, SeqIs
  <1>6. ASSUME NEW i \in 1..n PROVE q[i] = s[i]
    <2>1. CASE i <= cut
      <3>1. i \in 1..cut
        BY <2>1, <1>2
      <3>. QED
        BY <3>1, <1>1, <1>4
    <2>2. CASE i > cut
      <3>1. PICK j \in 1..(n - cut) : cut + j = i
        <4>1. i - cut \in 1..(n - cut) /\ cut + (i - cut) = i
          BY <2>2, <1>2
        <4>. QED
          BY <4>1
      <3>2. q[cut + j] = u[j] /\ u[j] = s[cut + j]
        BY <1>1, <1>4
      <3>. QED
        BY <3>1, <3>2
    <2>3. i \in Int /\ cut \in Int
      BY <1>2
    <2>. QED
      BY <2>1, <2>2, <2>3
  <1>7. q = s
    BY <1>3, <1>5, <1>6
  <1>. QED
    BY <1>7 DEF q, n, t, u

(* New identifiers are none that is used, and as many as were asked for.   *)
LEMMA FreshIs ==
    ASSUME NEW used \in SUBSET Nat, IsFiniteSet(used), NEW S, IsFiniteSet(S)
    PROVE  /\ Fresh(used, S) \in [S -> Nat \ used]
           /\ \A x, y \in S : Fresh(used, S)[x] = Fresh(used, S)[y] => x = y
  <1>. DEFINE m == Cardinality(used)
              n == Cardinality(S)
              free == (1..m + n) \ used
  <1>1. m \in Nat /\ n \in Nat
    BY FS_CardinalityType
  <1>. HIDE DEF m, n
  <1>2. IsFiniteSet(1..m + n) /\ Cardinality(1..m + n) = m + n
    BY <1>1, FS_Interval
  <1>3. IsFiniteSet(used \cap (1..m + n)) /\ Cardinality(used \cap (1..m + n)) \in 0..m
    BY <1>1, FS_Subset, FS_CardinalityType DEF m
  <1>4. IsFiniteSet(free) /\ Cardinality(free) \in Nat /\ Cardinality(free) >= n
    <2>1. free \cap (used \cap (1..m + n)) = {} /\ free \cup (used \cap (1..m + n)) = 1..m + n
      OBVIOUS
    <2>2. IsFiniteSet(free) /\ Cardinality(free) \in Nat
      BY <1>2, FS_Subset, FS_CardinalityType
    <2>. HIDE DEF free
    <2>3. m + n = Cardinality(free) + Cardinality(used \cap (1..m + n)) - Cardinality({})
      BY <2>1, <2>2, <1>2, <1>3, FS_Union
    <2>. QED
      BY <2>2, <2>3, <1>1, <1>3, FS_EmptySet
  <1>5. PICK g \in Bijection(1..n, S) : TRUE
    BY FS_CardinalityType DEF n, ExistsBijection
  <1>6. PICK h \in Bijection(1..Cardinality(free), free) : TRUE
    BY <1>4, FS_CardinalityType DEF ExistsBijection
  <1>. DEFINE id == [x \in S |-> h[CHOOSE k \in 1..n : g[k] = x]]
  <1>7. \A x \in S : (CHOOSE k \in 1..n : g[k] = x) \in 1..n /\ g[CHOOSE k \in 1..n : g[k] = x] = x
    BY <1>5 DEF Bijection, Surjection
  <1>8. id \in Injection(S, free)
    <2>. HIDE DEF free
    <2>1. ASSUME NEW x \in S PROVE id[x] \in free
      BY <1>1, <1>4, <1>6, <1>7 DEF Bijection, Injection
    <2>2. ASSUME NEW x \in S, NEW y \in S, id[x] = id[y] PROVE x = y
      BY <2>2, <1>1, <1>4, <1>6, <1>7 DEF Bijection, Injection, IsInjective
    <2>3. id \in [S -> free]
      BY <2>1
    <2>. HIDE DEF id
    <2>. QED
      BY <2>2, <2>3 DEF Injection, IsInjective
  <1>9. Fresh(used, S) \in Injection(S, free)
    BY <1>8 DEF Fresh, m, n
  <1>. QED
    BY <1>9, <1>1 DEF Injection, IsInjective

-----------------------------------------------------------------------------
(* The tree.                                                               *)

Row == [id : Nat, chapter : Nat, ordinal : Nat, text : Seq(Nat), from : Nat,
        to : Nat \cup {Now}]
Order == UNION {[D -> Int] : D \in SUBSET Nat}
Database == [rev : Nat, revisions : SUBSET Nat, chapters : Order, versions : SUBSET Row]

LiveIn(chapters) == {c \in DOMAIN chapters : chapters[c] >= 0}
In(rows, c) == {v \in rows : v.chapter = c}

(* The blocks of a chapter, and the chapters of the book, have the numbers *)
(* from 0 to n - 1.                                                        *)
Numbered(rows, n) == /\ \A v \in rows : v.ordinal \in 0..(n - 1)
                     /\ \A v, w \in rows : v.ordinal = w.ordinal => v = w
                     /\ \A k \in 0..(n - 1) : \E v \in rows : v.ordinal = k
Seated(chapters, n) == /\ \A c \in LiveIn(chapters) : chapters[c] \in 0..(n - 1)
                       /\ \A b, c \in LiveIn(chapters) : chapters[b] = chapters[c] => b = c
                       /\ \A k \in 0..(n - 1) : \E c \in LiveIn(chapters) : chapters[c] = k

(* The current blocks of a book, and where its chapters are.               *)
Tree(rows, chapters) ==
    /\ \A v \in rows : v.chapter \in LiveIn(chapters)
    /\ \A v, w \in rows : v.id = w.id => v = w
    /\ \E n \in Nat : Seated(chapters, n)
    /\ \A c \in LiveIn(chapters) : \E n \in Nat : Numbered(In(rows, c), n)

LEMMA OrderIs ==
    ASSUME NEW f \in Order
    PROVE  /\ DOMAIN f \subseteq Nat /\ \A c \in DOMAIN f : f[c] \in Int
           /\ f = [c \in DOMAIN f |-> f[c]]
  BY DEF Order

(* One order written over another.                                         *)
LEMMA WrittenOver ==
    ASSUME NEW f \in Order, NEW g \in Order
    PROVE  /\ Over(g, f) \in Order
           /\ DOMAIN Over(g, f) = DOMAIN g \cup DOMAIN f
           /\ \A c \in DOMAIN g : Over(g, f)[c] = g[c]
           /\ \A c \in DOMAIN f \ DOMAIN g : Over(g, f)[c] = f[c]
  <1>1. Over(g, f) = [c \in DOMAIN g \cup DOMAIN f |-> IF c \in DOMAIN g THEN g[c] ELSE f[c]]
    BY DEF Over
  <1>2. Over(g, f) \in [DOMAIN g \cup DOMAIN f -> Int]
    BY <1>1, OrderIs
  <1>3. DOMAIN g \cup DOMAIN f \in SUBSET Nat
    BY OrderIs
  <1>4. Over(g, f) \in Order
    BY <1>2, <1>3 DEF Order
  <1>. QED
    BY <1>1, <1>4

(* The blocks of a chapter are read in the order of their ordinals.        *)
LEMMA BlocksOf ==
    ASSUME NEW d, NEW c, NEW n \in Nat, Numbered(Current(d, c), n)
    PROVE  /\ CurrentBlocks(d, c) \in [1..n -> Current(d, c)]
           /\ Len(CurrentBlocks(d, c)) = n
           /\ \A i \in 1..n : CurrentBlocks(d, c)[i].ordinal = i - 1
           /\ \A v \in Current(d, c) : CurrentBlocks(d, c)[v.ordinal + 1] = v
  <1>. DEFINE S == Current(d, c)
              f == [v \in S |-> v.ordinal]
              rank(v) == Cardinality({w \in S : w.ordinal < v.ordinal})
  <1>1. Numbers(f, S, n)
    BY DEF Numbered, Numbers
  <1>2. Cardinality(S) = n
    BY <1>1, Counted
  <1>3. ASSUME NEW v \in S PROVE rank(v) = v.ordinal /\ v.ordinal \in 0..(n - 1)
    <2>1. v.ordinal \in 0..(n - 1) /\ v.ordinal \in 0..n
      BY DEF Numbered
    <2>2. \A k \in 0..n : Cardinality({w \in S : f[w] < k}) = k
      <3>. HIDE DEF S, f
      <3>. QED
        BY <1>1, Ranked
    <2>3. {w \in S : f[w] < v.ordinal} = {w \in S : w.ordinal < v.ordinal}
      OBVIOUS
    <2>. HIDE DEF f, S
    <2>. QED
      BY <2>1, <2>2, <2>3
  <1>4. CurrentBlocks(d, c) = [i \in 1..n |-> CHOOSE v \in S : rank(v) = i - 1]
    BY <1>2 DEF CurrentBlocks
  <1>5. ASSUME NEW i \in 1..n
        PROVE  CurrentBlocks(d, c)[i] \in S /\ CurrentBlocks(d, c)[i].ordinal = i - 1
    <2>1. PICK v \in S : v.ordinal = i - 1
      BY i - 1 \in 0..(n - 1) DEF Numbered
    <2>2. rank(v) = i - 1
      BY <1>3, <2>1
    <2>3. CurrentBlocks(d, c)[i] \in S /\ rank(CurrentBlocks(d, c)[i]) = i - 1
      <3>. HIDE DEF S, rank
      <3>. QED
        BY <1>4, <2>2
    <2>. QED
      BY <2>3, <1>3
  <1>6. CurrentBlocks(d, c) \in [1..n -> S]
    <2>. HIDE DEF S, rank
    <2>. QED
      BY <1>4, <1>5
  <1>7. ASSUME NEW v \in S PROVE CurrentBlocks(d, c)[v.ordinal + 1] = v
    <2>1. v.ordinal \in 0..(n - 1) /\ v.ordinal + 1 \in 1..n
      <3>1. v.ordinal \in 0..(n - 1)
        BY <1>3
      <3>. QED
        BY <3>1
    <2>2. /\ CurrentBlocks(d, c)[v.ordinal + 1] \in S
          /\ CurrentBlocks(d, c)[v.ordinal + 1].ordinal = v.ordinal
      BY <2>1, <1>5
    <2>. QED
      BY <2>2 DEF Numbered
  <1>8. Len(CurrentBlocks(d, c)) = n
    BY <1>6
  <1>. QED
    BY <1>5, <1>6, <1>7, <1>8
-----------------------------------------------------------------------------
(* Where the chapters are.                                                 *)

(* Without chapter b the later ones move down by one.                      *)
LEMMA RemovedSeats ==
    ASSUME NEW f \in Order, NEW n \in Nat, Seated(f, n), NEW b \in LiveIn(f),
           NEW T \in Int, T < 0, NEW g,
           g = [k \in {l \in LiveIn(f) : f[l] >= f[b]} |-> IF k = b THEN T ELSE f[k] - 1]
    PROVE  /\ g \in Order /\ Over(g, f) \in Order
           /\ LiveIn(Over(g, f)) = LiveIn(f) \ {b}
           /\ \A c \in LiveIn(f) \ {b} :
                Over(g, f)[c] = IF f[c] > f[b] THEN f[c] - 1 ELSE f[c]
           /\ n - 1 \in Nat /\ Seated(Over(g, f), n - 1)
  <1>. DEFINE h == Over(g, f)
  <1>1. DOMAIN f \subseteq Nat /\ \A c \in DOMAIN f : f[c] \in Int
    BY OrderIs
  <1>2. b \in DOMAIN f /\ f[b] \in 0..(n - 1) /\ n - 1 \in Nat
    BY DEF LiveIn, Seated
  <1>3. g \in [{l \in LiveIn(f) : f[l] >= f[b]} -> Int]
    BY <1>1 DEF LiveIn
  <1>4. g \in Order
    BY <1>1, <1>3 DEF Order, LiveIn
  <1>5. DOMAIN g = {l \in LiveIn(f) : f[l] >= f[b]}
    OBVIOUS
  <1>w. /\ DOMAIN h = DOMAIN g \cup DOMAIN f
        /\ \A k \in DOMAIN g : h[k] = g[k]
        /\ \A k \in DOMAIN f \ DOMAIN g : h[k] = f[k]
    BY <1>4, WrittenOver
  <1>g. \A k \in DOMAIN g : g[k] = IF k = b THEN T ELSE f[k] - 1
    OBVIOUS
  <1>. HIDE DEF h
  <1>6. DOMAIN h = DOMAIN f
    BY <1>w, <1>5 DEF LiveIn
  <1>7. h[b] = T
    BY <1>2, <1>w, <1>g, <1>5
  <1>8. ASSUME NEW c \in LiveIn(f), c # b
        PROVE  h[c] = IF f[c] > f[b] THEN f[c] - 1 ELSE f[c]
    <2>1. c \in DOMAIN f /\ f[c] \in Int /\ f[c] # f[b]
      BY <1>1, <1>8 DEF LiveIn, Seated
    <2>2. CASE f[c] > f[b]
      <3>1. c \in DOMAIN g
        BY <2>1, <2>2, <1>2, <1>5
      <3>. QED
        BY <3>1, <2>2, <1>8, <1>w, <1>g
    <2>3. CASE f[c] < f[b]
      <3>1. c \in DOMAIN f \ DOMAIN g
        BY <2>1, <2>3, <1>2, <1>5
      <3>. QED
        BY <3>1, <2>1, <2>3, <1>2, <1>w
    <2>. QED
      BY <2>1, <2>2, <2>3, <1>2
  <1>9. ASSUME NEW c \in DOMAIN f \ LiveIn(f) PROVE h[c] < 0
    BY <1>1, <1>w, <1>5 DEF LiveIn
  <1>10. LiveIn(h) = LiveIn(f) \ {b}
    <2>1. ASSUME NEW c \in LiveIn(h) PROVE c \in LiveIn(f) \ {b}
      <3>1. c \in DOMAIN f /\ h[c] >= 0
        BY <1>6 DEF LiveIn
      <3>2. c # b
        BY <3>1, <1>7
      <3>3. c \in LiveIn(f)
        <4>. SUFFICES ASSUME c \notin LiveIn(f) PROVE FALSE
          OBVIOUS
        <4>1. f[c] \in Int /\ h[c] < 0 /\ h[c] = f[c]
          BY <1>1, <1>w, <1>5, <1>9, <3>1 DEF LiveIn
        <4>. QED
          BY <4>1, <3>1
      <3>. QED
        BY <3>2, <3>3
    <2>2. ASSUME NEW c \in LiveIn(f) \ {b} PROVE c \in LiveIn(h)
      <3>1. c \in DOMAIN f /\ f[c] \in Int /\ f[c] >= 0
        BY <1>1 DEF LiveIn
      <3>2. h[c] >= 0
        BY <3>1, <1>2, <1>8
      <3>. QED
        BY <3>1, <3>2, <1>6 DEF LiveIn
    <2>. QED
      BY <2>1, <2>2
  <1>11. Seated(h, n - 1)
    <2>1. \A c \in LiveIn(f) : f[c] \in 0..(n - 1) /\ f[c] \in Int
      BY DEF Seated
    <2>2. ASSUME NEW c \in LiveIn(f) \ {b} PROVE h[c] \in 0..(n - 1 - 1)
      BY <2>1, <1>2, <1>8 DEF Seated
    <2>3. ASSUME NEW a \in LiveIn(f) \ {b}, NEW c \in LiveIn(f) \ {b}, h[a] = h[c]
          PROVE  a = c
      <3>1. f[a] # f[b] /\ f[c] # f[b]
        BY DEF Seated
      <3>2. f[a] = f[c]
        BY <2>1, <2>3, <3>1, <1>2, <1>8
      <3>. QED
        BY <3>2 DEF Seated
    <2>4. ASSUME NEW k \in 0..(n - 1 - 1) PROVE \E c \in LiveIn(f) \ {b} : h[c] = k
      <3>1. CASE k < f[b]
        <4>1. PICK c \in LiveIn(f) : f[c] = k
          BY k \in 0..(n - 1) DEF Seated
        <4>. QED
          BY <4>1, <3>1, <1>2, <1>8
      <3>2. CASE k >= f[b]
        <4>1. PICK c \in LiveIn(f) : f[c] = k + 1
          BY k + 1 \in 0..(n - 1) DEF Seated
        <4>. QED
          BY <4>1, <3>2, <1>2, <1>8
      <3>. QED
        BY <3>1, <3>2, <1>2
    <2>. QED
      BY <2>2, <2>3, <2>4, <1>10 DEF Seated
  <1>. QED
    BY <1>2, <1>4, <1>8, <1>10, <1>11, WrittenOver DEF h

(* A new chapter behind c: the later ones move up by one.                  *)
LEMMA ShiftedSeats ==
    ASSUME NEW f \in Order, NEW n \in Nat, Seated(f, n), NEW c \in LiveIn(f),
           NEW new \in Nat \ DOMAIN f, NEW g,
           g = [k \in {new} \cup {l \in LiveIn(f) : f[l] > f[c]} |->
                  IF k = new THEN f[c] + 1 ELSE f[k] + 1]
    PROVE  /\ g \in Order /\ Over(g, f) \in Order
           /\ LiveIn(Over(g, f)) = LiveIn(f) \cup {new}
           /\ Over(g, f)[new] = f[c] + 1
           /\ \A l \in LiveIn(f) : Over(g, f)[l] = IF f[l] > f[c] THEN f[l] + 1 ELSE f[l]
           /\ Seated(Over(g, f), n + 1)
  <1>. DEFINE h == Over(g, f)
  <1>1. DOMAIN f \subseteq Nat /\ (\A l \in DOMAIN f : f[l] \in Int) /\ new \notin DOMAIN f
    BY OrderIs
  <1>2. c \in DOMAIN f /\ f[c] \in 0..(n - 1) /\ n - 1 \in Nat
    BY DEF LiveIn, Seated
  <1>3. DOMAIN g = {new} \cup {l \in LiveIn(f) : f[l] > f[c]}
    OBVIOUS
  <1>4. g \in Order
    <2>1. g \in [{new} \cup {l \in LiveIn(f) : f[l] > f[c]} -> Int]
      BY <1>1, <1>2 DEF LiveIn
    <2>. QED
      BY <2>1, <1>1 DEF Order, LiveIn
  <1>w. /\ DOMAIN h = DOMAIN g \cup DOMAIN f
        /\ \A k \in DOMAIN g : h[k] = g[k]
        /\ \A k \in DOMAIN f \ DOMAIN g : h[k] = f[k]
    BY <1>4, WrittenOver
  <1>g. \A k \in DOMAIN g : g[k] = IF k = new THEN f[c] + 1 ELSE f[k] + 1
    OBVIOUS
  <1>. HIDE DEF h
  <1>5. DOMAIN h = DOMAIN f \cup {new}
    BY <1>3, <1>w DEF LiveIn
  <1>6. h[new] = f[c] + 1
    BY <1>3, <1>w, <1>g
  <1>7. ASSUME NEW l \in LiveIn(f)
        PROVE  h[l] = IF f[l] > f[c] THEN f[l] + 1 ELSE f[l]
    <2>1. l \in DOMAIN f /\ f[l] \in Int /\ l # new
      BY <1>1 DEF LiveIn
    <2>2. CASE f[l] > f[c]
      BY <2>1, <2>2, <1>3, <1>w, <1>g
    <2>3. CASE ~(f[l] > f[c])
      <3>1. l \in DOMAIN f \ DOMAIN g
        BY <2>1, <2>3, <1>3
      <3>. QED
        BY <3>1, <2>3, <1>w
    <2>. QED
      BY <2>2, <2>3
  <1>8. ASSUME NEW l \in DOMAIN f \ LiveIn(f) PROVE h[l] = f[l] /\ f[l] < 0
    BY <1>1, <1>3, <1>w DEF LiveIn
  <1>9. LiveIn(h) = LiveIn(f) \cup {new}
    <2>1. ASSUME NEW l \in LiveIn(h) PROVE l \in LiveIn(f) \cup {new}
      <3>1. l \in DOMAIN f \cup {new} /\ h[l] >= 0
        BY <1>5 DEF LiveIn
      <3>. QED
        BY <3>1, <1>1, <1>8
    <2>2. ASSUME NEW l \in LiveIn(f) \cup {new} PROVE l \in LiveIn(h)
      <3>1. CASE l = new
        BY <3>1, <1>2, <1>5, <1>6 DEF LiveIn
      <3>2. CASE l \in LiveIn(f)
        <4>1. l \in DOMAIN f /\ f[l] \in Int /\ f[l] >= 0
          BY <3>2, <1>1 DEF LiveIn
        <4>2. h[l] >= 0
          BY <3>2, <4>1, <1>7
        <4>. QED
          BY <4>1, <4>2, <1>5 DEF LiveIn
      <3>. QED
        BY <3>1, <3>2
    <2>. QED
      BY <2>1, <2>2
  <1>10. Seated(h, n + 1)
    <2>1. \A l \in LiveIn(f) : f[l] \in 0..(n - 1) /\ f[l] \in Int
      BY DEF Seated
    <2>2. ASSUME NEW l \in LiveIn(h) PROVE h[l] \in 0..(n + 1 - 1)
      <3>1. CASE l = new
        BY <3>1, <1>2, <1>6
      <3>2. CASE l \in LiveIn(f)
        BY <3>2, <2>1, <1>2, <1>7
      <3>. QED
        BY <3>1, <3>2, <1>9
    <2>3. ASSUME NEW a \in LiveIn(h), NEW l \in LiveIn(h), h[a] = h[l] PROVE a = l
      <3>1. CASE a \in LiveIn(f) /\ l \in LiveIn(f)
        <4>1. f[a] = f[l]
          BY <2>1, <2>3, <3>1, <1>2, <1>7
        <4>. QED
          BY <4>1, <3>1 DEF Seated
      <3>2. CASE a = new /\ l \in LiveIn(f)
        BY <2>1, <2>3, <3>2, <1>2, <1>6, <1>7
      <3>3. CASE l = new /\ a \in LiveIn(f)
        BY <2>1, <2>3, <3>3, <1>2, <1>6, <1>7
      <3>. QED
        BY <3>1, <3>2, <3>3, <1>9
    <2>4. ASSUME NEW k \in 0..(n + 1 - 1) PROVE \E l \in LiveIn(h) : h[l] = k
      <3>1. CASE k = f[c] + 1
        BY <3>1, <1>6, <1>9
      <3>2. CASE k <= f[c]
        <4>1. PICK l \in LiveIn(f) : f[l] = k
          <5>1. k \in 0..(n - 1)
            BY <3>2, <1>2
          <5>. QED
            BY <5>1 DEF Seated
        <4>. QED
          BY <4>1, <3>2, <1>2, <1>7, <1>9
      <3>3. CASE k > f[c] + 1
        <4>1. PICK l \in LiveIn(f) : f[l] = k - 1
          <5>1. k - 1 \in 0..(n - 1)
            BY <3>3, <1>2
          <5>. QED
            BY <5>1 DEF Seated
        <4>. QED
          BY <4>1, <3>3, <1>2, <1>7, <1>9
      <3>. QED
        BY <3>1, <3>2, <3>3, <1>2
    <2>. QED
      BY <2>2, <2>3, <2>4 DEF Seated
  <1>. QED
    BY <1>4, <1>6, <1>7, <1>9, <1>10, WrittenOver DEF h
-----------------------------------------------------------------------------
(* Where the blocks are.                                                   *)

(* The rows I are the blocks of M in chapter c, k places on.               *)
Carried(I, M, c, k) ==
    /\ \A w \in I : w.chapter = c /\ \E v \in M : /\ w.id = v.id /\ w.text = v.text
                                                 /\ w.ordinal = v.ordinal + k
    /\ \A v \in M : \E w \in I : w.id = v.id /\ w.ordinal = v.ordinal + k
    /\ \A w, x \in I : w.id = x.id => w = x

(* The blocks of one chapter behind those of another.                      *)
LEMMA MergedRows ==
    ASSUME NEW A, NEW B, NEW I, NEW a, NEW m \in Nat, NEW n \in Nat,
           Numbered(A, m), Numbered(B, n), Carried(I, B, a, m),
           \A v, w \in B : v.id = w.id => v = w
    PROVE  Numbered(A \cup I, m + n)
  <1>1. \A v \in A : v.ordinal \in 0..(m - 1)
    BY DEF Numbered
  <1>2. \A v \in B : v.ordinal \in 0..(n - 1)
    BY DEF Numbered
  <1>3. ASSUME NEW w \in I
        PROVE  \E v \in B : w.id = v.id /\ w.ordinal = v.ordinal + m /\ v.ordinal \in 0..(n - 1)
    BY <1>2 DEF Carried
  <1>4. ASSUME NEW v \in A \cup I PROVE v.ordinal \in 0..(m + n - 1)
    <2>1. CASE v \in A
      BY <2>1, <1>1
    <2>2. CASE v \in I
      BY <2>2, <1>3
    <2>. QED
      BY <2>1, <2>2
  <1>5. ASSUME NEW v \in A \cup I, NEW w \in A \cup I, v.ordinal = w.ordinal PROVE v = w
    <2>1. CASE v \in A /\ w \in A
      BY <2>1, <1>5 DEF Numbered
    <2>2. CASE v \in A /\ w \in I
      BY <2>2, <1>1, <1>3, <1>5
    <2>3. CASE v \in I /\ w \in A
      BY <2>3, <1>1, <1>3, <1>5
    <2>4. CASE v \in I /\ w \in I
      <3>1. PICK x \in B : v.id = x.id /\ v.ordinal = x.ordinal + m /\ x.ordinal \in 0..(n - 1)
        BY <2>4, <1>3
      <3>2. PICK y \in B : w.id = y.id /\ w.ordinal = y.ordinal + m /\ y.ordinal \in 0..(n - 1)
        BY <2>4, <1>3
      <3>3. x.ordinal = y.ordinal
        BY <3>1, <3>2, <1>5
      <3>4. x = y
        BY <3>3 DEF Numbered
      <3>. QED
        BY <3>1, <3>2, <3>4, <2>4 DEF Carried
    <2>. QED
      BY <2>1, <2>2, <2>3, <2>4
  <1>6. ASSUME NEW k \in 0..(m + n - 1) PROVE \E v \in A \cup I : v.ordinal = k
    <2>1. CASE k < m
      <3>1. k \in 0..(m - 1)
        BY <2>1
      <3>. QED
        BY <3>1 DEF Numbered
    <2>2. CASE k >= m
      <3>1. k - m \in 0..(n - 1)
        BY <2>2
      <3>2. PICK v \in B : v.ordinal = k - m
        BY <3>1 DEF Numbered
      <3>3. PICK w \in I : w.ordinal = v.ordinal + m
        BY DEF Carried
      <3>. QED
        BY <3>2, <3>3
    <2>. QED
      BY <2>1, <2>2
  <1>. QED
    BY <1>4, <1>5, <1>6 DEF Numbered

(* The tree after a merge.                                                 *)
LEMMA MergedTree ==
    ASSUME NEW R, NEW f \in Order, NEW h \in Order, Tree(R, f),
           NEW a \in LiveIn(f), NEW b \in LiveIn(f), a # b,
           NEW m \in Nat, Numbered(In(R, a), m),
           LiveIn(h) = LiveIn(f) \ {b}, \E n \in Nat : Seated(h, n),
           NEW I, Carried(I, In(R, b), a, m)
    PROVE  Tree((R \ In(R, b)) \cup I, h)
  <1>. DEFINE Q == (R \ In(R, b)) \cup I
  <1>1. ASSUME NEW v \in Q PROVE v.chapter \in LiveIn(h)
    BY DEF Tree, In, Carried
  <1>2. ASSUME NEW v \in Q, NEW w \in Q, v.id = w.id PROVE v = w
    <2>1. \A x \in I : \E y \in In(R, b) : x.id = y.id
      BY DEF Carried
    <2>2. CASE v \in I /\ w \in I
      BY <2>2, <1>2 DEF Carried
    <2>3. CASE v \in R \ In(R, b) /\ w \in R \ In(R, b)
      BY <2>3, <1>2 DEF Tree
    <2>4. CASE v \in R \ In(R, b) /\ w \in I
      BY <2>1, <2>4, <1>2 DEF Tree, In
    <2>5. CASE v \in I /\ w \in R \ In(R, b)
      BY <2>1, <2>5, <1>2 DEF Tree, In
    <2>. QED
      BY <2>2, <2>3, <2>4, <2>5
  <1>3. ASSUME NEW c \in LiveIn(h) PROVE \E n \in Nat : Numbered(In(Q, c), n)
    <2>1. CASE c = a
      <3>1. PICK n \in Nat : Numbered(In(R, b), n)
        BY DEF Tree
      <3>2. \A v, w \in In(R, b) : v.id = w.id => v = w
        BY DEF Tree, In
      <3>3. Numbered(In(R, a) \cup I, m + n)
        BY <3>1, <3>2, MergedRows
      <3>4. In(Q, a) = In(R, a) \cup I
        BY DEF In, Carried
      <3>. QED
        BY <2>1, <3>3, <3>4
    <2>2. CASE c # a
      <3>1. In(Q, c) = In(R, c)
        BY <2>2 DEF In, Carried
      <3>. QED
        BY <3>1 DEF Tree
    <2>. QED
      BY <2>1, <2>2
  <1>. QED
    BY <1>1, <1>2, <1>3 DEF Tree

(* The blocks from a cut on, behind k others.                              *)
LEMMA SplitRows ==
    ASSUME NEW A, NEW n \in Nat, Numbered(A, n), NEW cut \in 0..n,
           NEW M, M = {v \in A : v.ordinal >= cut},
           NEW k \in Nat, NEW H, Numbered(H, k),
           NEW I, NEW new, Carried(I, M, new, k - cut),
           \A v, w \in A : v.id = w.id => v = w
    PROVE  Numbered(A \ M, cut) /\ Numbered(H \cup I, k + (n - cut))
  <1>1. \A v \in A : v.ordinal \in 0..(n - 1)
    BY DEF Numbered
  <1>2. \A v \in H : v.ordinal \in 0..(k - 1)
    BY DEF Numbered
  <1>3. ASSUME NEW w \in I
        PROVE  \E v \in M : /\ w.id = v.id /\ w.ordinal = v.ordinal + (k - cut)
                            /\ v.ordinal \in cut..(n - 1)
    BY <1>1 DEF Carried
  <1>4. Numbered(A \ M, cut)
    <2>1. \A v \in A \ M : v.ordinal \in 0..(cut - 1)
      BY <1>1
    <2>2. ASSUME NEW j \in 0..(cut - 1) PROVE \E v \in A \ M : v.ordinal = j
      <3>1. j \in 0..(n - 1) /\ ~(j >= cut)
        OBVIOUS
      <3>2. PICK v \in A : v.ordinal = j
        BY <3>1 DEF Numbered
      <3>. QED
        BY <3>1, <3>2
    <2>. QED
      BY <2>1, <2>2 DEF Numbered
  <1>5. ASSUME NEW v \in H \cup I PROVE v.ordinal \in 0..(k + (n - cut) - 1)
    <2>1. CASE v \in H
      BY <2>1, <1>2
    <2>2. CASE v \in I
      BY <2>2, <1>3
    <2>. QED
      BY <2>1, <2>2
  <1>6. ASSUME NEW v \in H \cup I, NEW w \in H \cup I, v.ordinal = w.ordinal PROVE v = w
    <2>1. CASE v \in H /\ w \in H
      BY <2>1, <1>6 DEF Numbered
    <2>2. CASE v \in H /\ w \in I
      BY <2>2, <1>2, <1>3, <1>6
    <2>3. CASE v \in I /\ w \in H
      BY <2>3, <1>2, <1>3, <1>6
    <2>4. CASE v \in I /\ w \in I
      <3>1. PICK x \in M : v.id = x.id /\ v.ordinal = x.ordinal + (k - cut) /\ x.ordinal \in cut..(n - 1)
        BY <2>4, <1>3
      <3>2. PICK y \in M : w.id = y.id /\ w.ordinal = y.ordinal + (k - cut) /\ y.ordinal \in cut..(n - 1)
        BY <2>4, <1>3
      <3>3. x.ordinal = y.ordinal /\ x \in A /\ y \in A
        BY <3>1, <3>2, <1>6
      <3>4. x = y
        BY <3>3 DEF Numbered
      <3>. QED
        BY <3>1, <3>2, <3>4, <2>4 DEF Carried
    <2>. QED
      BY <2>1, <2>2, <2>3, <2>4
  <1>7. ASSUME NEW j \in 0..(k + (n - cut) - 1) PROVE \E v \in H \cup I : v.ordinal = j
    <2>1. CASE j < k
      <3>1. j \in 0..(k - 1)
        BY <2>1
      <3>. QED
        BY <3>1 DEF Numbered
    <2>2. CASE j >= k
      <3>1. j - k + cut \in 0..(n - 1) /\ j - k + cut >= cut
        BY <2>2
      <3>2. PICK v \in M : v.ordinal = j - k + cut
        BY <3>1 DEF Numbered
      <3>3. PICK w \in I : w.ordinal = v.ordinal + (k - cut)
        BY DEF Carried
      <3>. QED
        BY <3>2, <3>3
    <2>. QED
      BY <2>1, <2>2
  <1>. QED
    BY <1>4, <1>5, <1>6, <1>7 DEF Numbered

(* The tree after a split; H is what the cut left of a block, if anything. *)
LEMMA SplitTree ==
    ASSUME NEW R, NEW f \in Order, NEW h \in Order, Tree(R, f),
           NEW c \in LiveIn(f), NEW n \in Nat, Numbered(In(R, c), n), NEW cut \in 0..n,
           NEW new, new \notin LiveIn(f),
           LiveIn(h) = LiveIn(f) \cup {new}, \E j \in Nat : Seated(h, j),
           NEW M, M = {v \in In(R, c) : v.ordinal >= cut},
           NEW k \in Nat, NEW H, Numbered(H, k), \A v \in H : v.chapter = new,
           \A v, w \in H : v.id = w.id => v = w,
           \A v \in H, w \in R : v.id # w.id,
           NEW I, Carried(I, M, new, k - cut)
    PROVE  Tree((R \ M) \cup H \cup I, h)
  <1>. DEFINE Q == (R \ M) \cup H \cup I
  <1>0. /\ \A x \in M : x \in R /\ x.chapter = c
        /\ \A x \in I : x.chapter = new /\ \E y \in M : x.id = y.id
        /\ \A x \in R : x.chapter # new /\ x.chapter \in LiveIn(f)
        /\ c # new
    BY DEF In, Carried, Tree
  <1>1. ASSUME NEW v \in Q PROVE v.chapter \in LiveIn(h)
    BY <1>0
  <1>2. ASSUME NEW v \in Q, NEW w \in Q, v.id = w.id PROVE v = w
    <2>2. CASE v \in I /\ w \in I
      BY <2>2, <1>2 DEF Carried
    <2>3. CASE v \in R \ M /\ w \in R \ M
      BY <2>3, <1>2 DEF Tree
    <2>4. CASE v \in R \ M /\ w \in I
      BY <1>0, <2>4, <1>2 DEF Tree
    <2>5. CASE v \in I /\ w \in R \ M
      BY <1>0, <2>5, <1>2 DEF Tree
    <2>6. CASE v \in H \/ w \in H
      BY <1>0, <2>6, <1>2
    <2>. QED
      BY <2>2, <2>3, <2>4, <2>5, <2>6
  <1>3. \A v, w \in In(R, c) : v.id = w.id => v = w
    BY DEF Tree, In
  <1>4. Numbered(In(R, c) \ M, cut) /\ Numbered(H \cup I, k + (n - cut))
    <2>. DEFINE A == In(R, c)
    <2>. HIDE DEF A
    <2>1. Numbered(A, n) /\ M = {v \in A : v.ordinal >= cut} /\ \A v, w \in A : v.id = w.id => v = w
      BY <1>3 DEF A
    <2>2. Numbered(A \ M, cut) /\ Numbered(H \cup I, k + (n - cut))
      BY <2>1, SplitRows
    <2>. QED
      BY <2>2 DEF A
  <1>5. ASSUME NEW b \in LiveIn(h) PROVE \E j \in Nat : Numbered(In(Q, b), j)
    <2>1. CASE b = c
      <3>1. In(Q, c) = In(R, c) \ M
        BY <1>0 DEF In
      <3>. HIDE DEF Q
      <3>. QED
        BY <2>1, <3>1, <1>4, cut \in Nat
    <2>2. CASE b = new
      <3>1. In(Q, new) = H \cup I
        BY <1>0 DEF In
      <3>2. k + (n - cut) \in Nat
        OBVIOUS
      <3>. QED
        BY <2>2, <3>1, <3>2, <1>4
    <2>3. CASE b # c /\ b # new
      <3>1. In(Q, b) = In(R, b)
        BY <2>3, <1>0 DEF In
      <3>2. b \in LiveIn(f)
        BY <2>3
      <3>. HIDE DEF Q
      <3>. QED
        BY <3>1, <3>2 DEF Tree
    <2>. QED
      BY <2>1, <2>2, <2>3
  <1>. QED
    BY <1>1, <1>2, <1>5 DEF Tree

(* The rows P are the blocks of E in other words.                          *)
SamePlaces(P, E) ==
    /\ \A w \in P : \E v \in E : w.id = v.id /\ w.chapter = v.chapter /\ w.ordinal = v.ordinal
    /\ \A v \in E : \E w \in P : w.id = v.id /\ w.chapter = v.chapter /\ w.ordinal = v.ordinal
    /\ \A w, x \in P : w.id = x.id => w = x

(* The tree after a replacement of texts.                                  *)
LEMMA ReplacedTree ==
    ASSUME NEW R, NEW f, Tree(R, f), NEW E \in SUBSET R, NEW P, SamePlaces(P, E)
    PROVE  /\ Tree((R \ E) \cup P, f)
           /\ \A c, n : Numbered(In(R, c), n) => Numbered(In((R \ E) \cup P, c), n)
  <1>. DEFINE Q == (R \ E) \cup P
  <1>0. /\ \A w \in Q : \E v \in R : /\ w.id = v.id /\ w.chapter = v.chapter
                                     /\ w.ordinal = v.ordinal
        /\ \A v \in R : \E w \in Q : /\ w.id = v.id /\ w.chapter = v.chapter
                                     /\ w.ordinal = v.ordinal
    BY DEF SamePlaces
  <1>1. ASSUME NEW v \in Q, NEW w \in Q, v.id = w.id PROVE v = w
    BY <1>1 DEF SamePlaces, Tree
  <1>. HIDE DEF Q
  <1>2. ASSUME NEW v \in Q PROVE v.chapter \in LiveIn(f)
    BY <1>0 DEF Tree
  <1>3. ASSUME NEW c, NEW n, Numbered(In(R, c), n) PROVE Numbered(In(Q, c), n)
    <2>1. ASSUME NEW w \in In(Q, c) PROVE w.ordinal \in 0..(n - 1)
      <3>1. PICK v \in R : w.id = v.id /\ w.chapter = v.chapter /\ w.ordinal = v.ordinal
        BY <1>0 DEF In
      <3>. QED
        BY <3>1, <1>3 DEF Numbered, In
    <2>2. ASSUME NEW w \in In(Q, c), NEW x \in In(Q, c), w.ordinal = x.ordinal PROVE w = x
      <3>1. PICK v \in R : w.id = v.id /\ w.chapter = v.chapter /\ w.ordinal = v.ordinal
        BY <1>0 DEF In
      <3>2. PICK u \in R : x.id = u.id /\ x.chapter = u.chapter /\ x.ordinal = u.ordinal
        BY <1>0 DEF In
      <3>3. v \in In(R, c) /\ u \in In(R, c) /\ v.ordinal = u.ordinal
        BY <3>1, <3>2, <2>2 DEF In
      <3>4. v = u
        BY <3>3, <1>3 DEF Numbered
      <3>. QED
        BY <3>1, <3>2, <3>4, <1>1 DEF In
    <2>3. ASSUME NEW k \in 0..(n - 1) PROVE \E w \in In(Q, c) : w.ordinal = k
      <3>1. PICK v \in In(R, c) : v.ordinal = k
        BY <1>3 DEF Numbered
      <3>. QED
        BY <3>1, <1>0 DEF In
    <2>. QED
      BY <2>1, <2>2, <2>3 DEF Numbered
  <1>4. Tree(Q, f)
    BY <1>1, <1>2, <1>3 DEF Tree
  <1>. QED
    BY <1>3, <1>4 DEF Q

(* The tree after a new text of a chapter.                                 *)
LEMMA RewrittenTree ==
    ASSUME NEW R, NEW f, Tree(R, f), NEW c \in LiveIn(f),
           NEW P, NEW m \in Nat, Numbered(P, m), \A v \in P : v.chapter = c,
           \A v, w \in P : v.id = w.id => v = w,
           \A v \in P, w \in R \ In(R, c) : v.id # w.id
    PROVE  Tree((R \ In(R, c)) \cup P, f)
  <1>. DEFINE Q == (R \ In(R, c)) \cup P
  <1>1. ASSUME NEW v \in Q PROVE v.chapter \in LiveIn(f)
    BY DEF Tree
  <1>2. ASSUME NEW v \in Q, NEW w \in Q, v.id = w.id PROVE v = w
    BY <1>2 DEF Tree
  <1>3. ASSUME NEW b \in LiveIn(f) PROVE \E n \in Nat : Numbered(In(Q, b), n)
    <2>1. CASE b = c
      <3>1. In(Q, c) = P
        BY DEF In
      <3>. QED
        BY <2>1, <3>1
    <2>2. CASE b # c
      <3>1. In(Q, b) = In(R, b)
        BY <2>2 DEF In
      <3>. QED
        BY <3>1 DEF Tree
    <2>. QED
      BY <2>1, <2>2
  <1>. QED
    BY <1>1, <1>2, <1>3 DEF Tree

(* The tree after another order of the chapters.                           *)
LEMMA ReorderedTree ==
    ASSUME NEW R, NEW f \in Order, Tree(R, f), IsFiniteSet(LiveIn(f)),
           NEW n \in Nat, Seated(f, n),
           NEW g \in [LiveIn(f) -> 0..(n - 1)],
           \A a, b \in LiveIn(f) : a # b => g[a] # g[b],
           \A k \in 0..(n - 1) : \E c \in LiveIn(f) : g[c] = k
    PROVE  g \in Order /\ Over(g, f) \in Order /\ Tree(R, Over(g, f))
  <1>. DEFINE h == Over(g, f)
  <1>1. g \in Order
    <2>1. LiveIn(f) \subseteq Nat
      BY OrderIs DEF LiveIn
    <2>2. g \in [LiveIn(f) -> Int]
      OBVIOUS
    <2>. QED
      BY <2>1, <2>2 DEF Order
  <1>2. /\ DOMAIN h = LiveIn(f) \cup DOMAIN f
        /\ \A c \in LiveIn(f) : h[c] = g[c]
        /\ \A c \in DOMAIN f \ LiveIn(f) : h[c] = f[c]
        /\ h \in Order
    <2>1. DOMAIN g = LiveIn(f)
      OBVIOUS
    <2>2. /\ DOMAIN h = DOMAIN g \cup DOMAIN f
          /\ \A c \in DOMAIN g : h[c] = g[c]
          /\ \A c \in DOMAIN f \ DOMAIN g : h[c] = f[c]
          /\ h \in Order
      BY <1>1, WrittenOver
    <2>. HIDE DEF h
    <2>. QED
      BY <2>1, <2>2
  <1>. HIDE DEF h
  <1>3. LiveIn(h) = LiveIn(f)
    <2>1. ASSUME NEW c \in LiveIn(h) PROVE c \in LiveIn(f)
      BY <1>2, OrderIs DEF LiveIn
    <2>2. ASSUME NEW c \in LiveIn(f) PROVE c \in LiveIn(h)
      BY <1>2 DEF LiveIn
    <2>. QED
      BY <2>1, <2>2
  <1>4. Seated(h, n)
    BY <1>2, <1>3 DEF Seated
  <1>. QED
    BY <1>1, <1>2, <1>3, <1>4 DEF Tree, h
-----------------------------------------------------------------------------
(* What a book says.                                                       *)

(* The blocks say the texts s, and the chapters say the texts p.           *)
Reads(rows, s) == /\ s \in Seq(Seq(Nat)) /\ Numbered(rows, Len(s))
                  /\ \A v \in rows : s[v.ordinal + 1] = v.text
Tells(R, f, p) ==
    /\ p \in Seq(Seq(Nat)) /\ Seated(f, Len(p))
    /\ \A c \in LiveIn(f) : \E s \in Seq(Seq(Nat)) : /\ Reads(In(R, c), s)
                                                    /\ p[f[c] + 1] = FlattenSeq(s)

LEMMA NumberedOnce ==
    ASSUME NEW rows, NEW m \in Nat, NEW n \in Nat, Numbered(rows, m), Numbered(rows, n)
    PROVE  m = n
  <1>. DEFINE f == [v \in rows |-> v.ordinal]
  <1>1. Numbers(f, rows, m) /\ Numbers(f, rows, n)
    BY DEF Numbered, Numbers
  <1>. HIDE DEF f
  <1>2. Cardinality(rows) = m
    BY <1>1, Counted
  <1>3. Cardinality(rows) = n
    BY <1>1, Counted
  <1>. QED
    BY <1>2, <1>3

LEMMA ReadOnce ==
    ASSUME NEW rows, NEW s, NEW t, Reads(rows, s), Reads(rows, t)
    PROVE  s = t
  <1>. DEFINE n == Len(s)
  <1>1. /\ s \in Seq(Seq(Nat)) /\ t \in Seq(Seq(Nat)) /\ n \in Nat /\ Len(t) \in Nat
        /\ Numbered(rows, n) /\ Numbered(rows, Len(t))
    BY DEF Reads
  <1>2. Len(t) = n
    BY <1>1, NumberedOnce
  <1>. HIDE DEF n
  <1>3. ASSUME NEW i \in 1..n PROVE s[i] = t[i]
    <2>1. i - 1 \in 0..(n - 1)
      BY <1>1
    <2>2. PICK v \in rows : v.ordinal = i - 1
      BY <1>1, <2>1 DEF Numbered
    <2>3. v.ordinal + 1 = i
      BY <2>2
    <2>. QED
      BY <2>3 DEF Reads
  <1>4. s = [i \in 1..n |-> s[i]]
    BY <1>1, SeqIs DEF n
  <1>5. t = [i \in 1..n |-> t[i]]
    BY <1>1, <1>2, SeqIs
  <1>. QED
    BY <1>3, <1>4, <1>5

LEMMA SomeReading ==
    ASSUME NEW rows \in SUBSET Row, NEW n \in Nat, Numbered(rows, n)
    PROVE  \E s \in Seq(Seq(Nat)) : Reads(rows, s) /\ Len(s) = n
  <1>. DEFINE block(i) == CHOOSE v \in rows : v.ordinal = i - 1
  <1>1. ASSUME NEW i \in 1..n
        PROVE  block(i) \in rows /\ block(i).ordinal = i - 1 /\ block(i).text \in Seq(Nat)
    <2>1. \E v \in rows : v.ordinal = i - 1
      BY i - 1 \in 0..(n - 1) DEF Numbered
    <2>2. block(i) \in rows /\ block(i).ordinal = i - 1
      BY <2>1
    <2>. HIDE DEF block
    <2>. QED
      BY <2>2 DEF Row
  <1>. HIDE DEF block
  <1>. DEFINE s == [i \in 1..n |-> block(i).text]
  <1>2. s \in [1..n -> Seq(Nat)]
    BY <1>1
  <1>3. s \in Seq(Seq(Nat)) /\ Len(s) = n
    <2>. HIDE DEF s
    <2>. QED
      BY <1>2, FunctionSeq
  <1>4. ASSUME NEW v \in rows PROVE s[v.ordinal + 1] = v.text
    <2>1. v.ordinal \in 0..(n - 1)
      BY DEF Numbered
    <2>2. PICK i \in 1..n : i = v.ordinal + 1 /\ i - 1 = v.ordinal
      BY <2>1
    <2>3. block(i) = v
      BY <1>1, <2>2 DEF Numbered
    <2>. QED
      BY <2>2, <2>3
  <1>. HIDE DEF s
  <1>5. Reads(rows, s)
    BY <1>3, <1>4 DEF Reads
  <1>. QED
    BY <1>3, <1>5

LEMMA TextsAre ==
    ASSUME NEW d, NEW c, NEW s, Reads(Current(d, c), s)
    PROVE  Texts(CurrentBlocks(d, c)) = s
  <1>. DEFINE n == Len(s)
              B == CurrentBlocks(d, c)
  <1>1. s \in Seq(Seq(Nat)) /\ n \in Nat /\ Numbered(Current(d, c), n)
    BY DEF Reads
  <1>2. /\ B \in [1..n -> Current(d, c)]
        /\ \A i \in 1..n : B[i].ordinal = i - 1
    BY <1>1, BlocksOf
  <1>3. s = [i \in 1..n |-> s[i]]
    BY <1>1, SeqIs
  <1>. HIDE DEF B, n
  <1>4. Texts(B) = [i \in 1..n |-> B[i].text]
    BY <1>2 DEF Texts
  <1>5. ASSUME NEW i \in 1..n PROVE B[i].text = s[i]
    <2>1. B[i] \in Current(d, c) /\ B[i].ordinal = i - 1
      BY <1>2
    <2>2. B[i].ordinal + 1 = i
      BY <2>1
    <2>. QED
      BY <2>1, <2>2 DEF Reads
  <1>. QED
    BY <1>3, <1>4, <1>5 DEF B

Ranks(f, S, n) == \A k \in 0..n : Cardinality({w \in S : f[w] < k}) = k

LEMMA RankedAll ==
    ASSUME NEW S, NEW n \in Nat, NEW f, Numbers(f, S, n)
    PROVE  Ranks(f, S, n)
  BY Ranked DEF Ranks

(* The chapters are read in the order of their ordinals.                   *)
LEMMA SeatsOf ==
    ASSUME NEW d, NEW n \in Nat, Seated(d.chapters, n)
    PROVE  /\ ActiveChapters(d) \in [1..n -> LiveIn(d.chapters)]
           /\ \A i \in 1..n : d.chapters[ActiveChapters(d)[i]] = i - 1
  <1>. DEFINE S == LiveIn(d.chapters)
              f == [c \in S |-> d.chapters[c]]
              rank(c) == Cardinality({w \in S : d.chapters[w] < d.chapters[c]})
  <1>0. Live(d) = S
    BY DEF Live, LiveIn
  <1>1. Numbers(f, S, n)
    BY DEF Seated, Numbers
  <1>2. Cardinality(S) = n
    BY <1>1, Counted
  <1>3. ASSUME NEW c \in S PROVE rank(c) = d.chapters[c]
    <2>1. d.chapters[c] \in 0..n
      BY DEF Seated
    <2>2. \A k \in 0..n : Cardinality({w \in S : f[w] < k}) = k
      <3>. HIDE DEF S, f, rank
      <3>. QED
        BY <1>1, RankedAll DEF Ranks
    <2>3. {w \in S : f[w] < d.chapters[c]} = {w \in S : d.chapters[w] < d.chapters[c]}
      OBVIOUS
    <2>. HIDE DEF f, S
    <2>. QED
      BY <2>1, <2>2, <2>3
  <1>4. ActiveChapters(d) = [i \in 1..n |-> CHOOSE c \in S : rank(c) = i - 1]
    BY <1>0, <1>2 DEF ActiveChapters
  <1>5. ASSUME NEW i \in 1..n
        PROVE  ActiveChapters(d)[i] \in S /\ d.chapters[ActiveChapters(d)[i]] = i - 1
    <2>1. PICK c \in S : d.chapters[c] = i - 1
      BY i - 1 \in 0..(n - 1) DEF Seated
    <2>2. rank(c) = i - 1
      BY <1>3, <2>1
    <2>3. ActiveChapters(d)[i] \in S /\ rank(ActiveChapters(d)[i]) = i - 1
      <3>. HIDE DEF S, rank
      <3>. QED
        BY <1>4, <2>2
    <2>. QED
      BY <2>3, <1>3
  <1>6. ActiveChapters(d) \in [1..n -> S]
    <2>. HIDE DEF S, rank
    <2>. QED
      BY <1>4, <1>5
  <1>. QED
    BY <1>5, <1>6


LEMMA SomeTelling ==
    ASSUME NEW R \in SUBSET Row, NEW f, Tree(R, f)
    PROVE  \E p \in Seq(Seq(Nat)) : Tells(R, f, p)
  <1>1. PICK n \in Nat : Seated(f, n)
    BY DEF Tree
  <1>. DEFINE at(i) == CHOOSE c \in LiveIn(f) : f[c] = i - 1
              said(c) == CHOOSE s \in Seq(Seq(Nat)) : Reads(In(R, c), s)
  <1>2. ASSUME NEW i \in 1..n PROVE at(i) \in LiveIn(f) /\ f[at(i)] = i - 1
    <2>1. \E c \in LiveIn(f) : f[c] = i - 1
      BY <1>1, i - 1 \in 0..(n - 1) DEF Seated
    <2>. QED
      BY <2>1
  <1>3. ASSUME NEW c \in LiveIn(f)
        PROVE  said(c) \in Seq(Seq(Nat)) /\ Reads(In(R, c), said(c)) /\ FlattenSeq(said(c)) \in Seq(Nat)
    <2>1. PICK m \in Nat : Numbered(In(R, c), m)
      BY DEF Tree
    <2>2. In(R, c) \in SUBSET Row
      BY DEF In
    <2>3. \E s \in Seq(Seq(Nat)) : Reads(In(R, c), s)
      BY <2>1, <2>2, SomeReading
    <2>4. said(c) \in Seq(Seq(Nat)) /\ Reads(In(R, c), said(c))
      BY <2>3
    <2>. HIDE DEF said
    <2>. QED
      BY <2>4, Flattened
  <1>. HIDE DEF at, said
  <1>. DEFINE p == [i \in 1..n |-> FlattenSeq(said(at(i)))]
  <1>4. p \in [1..n -> Seq(Nat)]
    BY <1>2, <1>3
  <1>5. p \in Seq(Seq(Nat)) /\ Len(p) = n
    <2>. HIDE DEF p
    <2>. QED
      BY <1>4, FunctionSeq
  <1>6. ASSUME NEW c \in LiveIn(f)
        PROVE  \E s \in Seq(Seq(Nat)) : Reads(In(R, c), s) /\ p[f[c] + 1] = FlattenSeq(s)
    <2>1. f[c] \in 0..(n - 1)
      BY <1>1 DEF Seated
    <2>2. PICK i \in 1..n : i = f[c] + 1 /\ i - 1 = f[c]
      BY <2>1
    <2>3. at(i) = c
      BY <1>1, <1>2, <2>2 DEF Seated
    <2>4. p[i] = FlattenSeq(said(c))
      BY <2>3
    <2>. HIDE DEF p
    <2>. QED
      BY <2>2, <2>4, <1>3
  <1>. HIDE DEF p
  <1>7. Tells(R, f, p)
    BY <1>1, <1>5, <1>6 DEF Tells
  <1>. QED
    BY <1>5, <1>7

(* The book R, f is the book Q, g with chapters a and b in one.            *)
Divides(R, f, Q, g, a, b) ==
    /\ a \in LiveIn(f) /\ b \notin LiveIn(f) /\ LiveIn(g) = LiveIn(f) \cup {b}
    /\ g[a] = f[a] /\ g[b] = f[a] + 1
    /\ \A l \in LiveIn(f) \ {a} : /\ g[l] = IF f[l] > f[a] THEN f[l] + 1 ELSE f[l]
                                  /\ In(Q, l) = In(R, l)
    /\ \E s, t, u \in Seq(Seq(Nat)) :
         /\ Reads(In(R, a), s) /\ Reads(In(Q, a), t) /\ Reads(In(Q, b), u)
         /\ FlattenSeq(s) = FlattenSeq(t) \o FlattenSeq(u)

LEMMA SameStory ==
    ASSUME NEW R, NEW f, NEW Q, NEW g, NEW a, NEW b, Divides(R, f, Q, g, a, b),
           NEW p, NEW q, Tells(R, f, p), Tells(Q, g, q)
    PROVE  FlattenSeq(p) = FlattenSeq(q)
  <1>. DEFINE n == Len(p)
              m == Len(q)
              k == f[a] + 1
  <1>1. /\ p \in Seq(Seq(Nat)) /\ q \in Seq(Seq(Nat)) /\ n \in Nat /\ m \in Nat
        /\ Seated(f, n) /\ Seated(g, m)
    BY DEF Tells
  <1>2. /\ a \in LiveIn(f) /\ b \notin LiveIn(f) /\ LiveIn(g) = LiveIn(f) \cup {b}
        /\ g[a] = f[a] /\ g[b] = f[a] + 1
        /\ \A l \in LiveIn(f) \ {a} : g[l] = IF f[l] > f[a] THEN f[l] + 1 ELSE f[l]
        /\ \A l \in LiveIn(f) \ {a} : In(Q, l) = In(R, l)
    BY DEF Divides
  <1>. HIDE DEF n, m
  <1>3. /\ \A c \in LiveIn(f) : f[c] \in 0..(n - 1)
        /\ \A c, l \in LiveIn(f) : f[c] = f[l] => c = l
        /\ \A i \in 0..(n - 1) : \E c \in LiveIn(f) : f[c] = i
    BY <1>1 DEF Seated
  <1>4. /\ \A c \in LiveIn(g) : g[c] \in 0..(m - 1)
        /\ \A i \in 0..(m - 1) : \E c \in LiveIn(g) : g[c] = i
    BY <1>1 DEF Seated
  <1>5. \A l \in LiveIn(f) : l # a => f[l] # f[a] /\ f[l] \in 0..(n - 1)
    BY <1>2, <1>3
  <1>6. f[a] \in 0..(n - 1) /\ n >= 1 /\ k \in 1..n
    BY <1>1, <1>2, <1>3
  <1>7. m = n + 1
    <2>1. m - 1 <= n
      <3>1. m >= 1
        <4>1. a \in LiveIn(g)
          BY <1>2
        <4>2. g[a] \in 0..(m - 1)
          BY <4>1, <1>4
        <4>. QED
          BY <4>2, <1>1
      <3>2. PICK c \in LiveIn(g) : g[c] = m - 1
        <4>1. m - 1 \in 0..(m - 1)
          BY <3>1, <1>1
        <4>. QED
          BY <4>1, <1>4
      <3>3. CASE c = a \/ c = b
        <4>1. g[c] = f[a] \/ g[c] = f[a] + 1
          BY <3>3, <1>2
        <4>. QED
          BY <4>1, <3>2, <1>1, <1>6
      <3>4. CASE c # a /\ c # b
        <4>1. c \in LiveIn(f) \ {a}
          BY <3>4, <1>2
        <4>2. f[c] \in 0..(n - 1) /\ g[c] = IF f[c] > f[a] THEN f[c] + 1 ELSE f[c]
          BY <4>1, <1>2, <1>3
        <4>. QED
          BY <4>2, <3>2, <1>1
      <3>. QED
        BY <3>3, <3>4
    <2>2. n <= m - 1
      <3>0. n - 1 \in 0..(n - 1)
        BY <1>1, <1>6
      <3>1. PICK c \in LiveIn(f) : f[c] = n - 1
        BY <3>0, <1>3
      <3>2. CASE c = a
        <4>1. g[b] = n /\ b \in LiveIn(g)
          <5>1. f[a] = n - 1 /\ g[b] = f[a] + 1 /\ b \in LiveIn(g)
            BY <3>1, <3>2, <1>2
          <5>. QED
            BY <5>1, <1>1
        <4>2. g[b] \in 0..(m - 1)
          BY <4>1, <1>4
        <4>. QED
          BY <4>1, <4>2, <1>1
      <3>3. CASE c # a
        <4>1. f[c] > f[a]
          BY <3>1, <3>3, <1>1, <1>5, <1>6
        <4>2. g[c] = f[c] + 1 /\ c \in LiveIn(g)
          BY <4>1, <3>3, <1>2
        <4>3. g[c] \in 0..(m - 1) /\ g[c] = n
          BY <4>2, <3>1, <1>1, <1>4
        <4>. QED
          BY <4>3, <1>1
      <3>. QED
        BY <3>2, <3>3
    <2>. QED
      BY <2>1, <2>2, <1>1
  <1>8. ASSUME NEW l \in LiveIn(f), l # a PROVE q[g[l] + 1] = p[f[l] + 1]
    <2>1. PICK s \in Seq(Seq(Nat)) : Reads(In(R, l), s) /\ p[f[l] + 1] = FlattenSeq(s)
      BY DEF Tells
    <2>2. l \in LiveIn(g)
      BY <1>2
    <2>3. PICK t \in Seq(Seq(Nat)) : Reads(In(Q, l), t) /\ q[g[l] + 1] = FlattenSeq(t)
      BY <2>2 DEF Tells
    <2>4. In(Q, l) = In(R, l)
      BY <1>2, <1>8
    <2>5. s = t
      BY <2>1, <2>3, <2>4, ReadOnce
    <2>. QED
      BY <2>1, <2>3, <2>5
  <1>9. p[f[a] + 1] = q[f[a] + 1] \o q[f[a] + 2]
    <2>1. PICK s \in Seq(Seq(Nat)), t \in Seq(Seq(Nat)), u \in Seq(Seq(Nat)) :
            /\ Reads(In(R, a), s) /\ Reads(In(Q, a), t) /\ Reads(In(Q, b), u)
            /\ FlattenSeq(s) = FlattenSeq(t) \o FlattenSeq(u)
      BY DEF Divides
    <2>2. PICK x \in Seq(Seq(Nat)) : Reads(In(R, a), x) /\ p[f[a] + 1] = FlattenSeq(x)
      BY <1>2 DEF Tells
    <2>3. a \in LiveIn(g) /\ b \in LiveIn(g)
      BY <1>2
    <2>4. PICK y \in Seq(Seq(Nat)) : Reads(In(Q, a), y) /\ q[g[a] + 1] = FlattenSeq(y)
      BY <2>3 DEF Tells
    <2>5. PICK z \in Seq(Seq(Nat)) : Reads(In(Q, b), z) /\ q[g[b] + 1] = FlattenSeq(z)
      BY <2>3 DEF Tells
    <2>6. x = s
      BY <2>1, <2>2, ReadOnce
    <2>7. y = t
      BY <2>1, <2>4, ReadOnce
    <2>8. z = u
      BY <2>1, <2>5, ReadOnce
    <2>9. g[a] + 1 = f[a] + 1 /\ g[b] + 1 = f[a] + 2
      BY <1>2, <1>6
    <2>. QED
      BY <2>1, <2>2, <2>4, <2>5, <2>6, <2>7, <2>8, <2>9
  <1>10. CutAt(p, q, k)
    <2>1. k \in 1..Len(p) /\ Len(q) = Len(p) + 1
      BY <1>6, <1>7 DEF n, m
    <2>2. ASSUME NEW i \in 1..(k - 1) PROVE q[i] = p[i]
      <3>1. i - 1 \in 0..(n - 1) /\ i - 1 < f[a]
        BY <1>1, <1>6
      <3>2. PICK l \in LiveIn(f) : f[l] = i - 1
        BY <3>1, <1>3
      <3>3. l # a
        BY <3>1, <3>2, <1>6
      <3>4. g[l] = f[l] /\ f[l] + 1 = i
        BY <3>1, <3>2, <3>3, <1>2, <1>6
      <3>. QED
        BY <3>3, <3>4, <1>8
    <2>3. p[k] = q[k] \o q[k + 1]
      <3>1. k + 1 = f[a] + 2
        BY <1>6
      <3>. QED
        BY <3>1, <1>9
    <2>4. ASSUME NEW i \in (k + 1)..Len(p) PROVE q[i + 1] = p[i]
      <3>1. i - 1 \in 0..(n - 1) /\ i - 1 > f[a] /\ i \in Int
        BY <1>1, <1>6 DEF n
      <3>2. PICK l \in LiveIn(f) : f[l] = i - 1
        BY <3>1, <1>3
      <3>3. l # a
        BY <3>1, <3>2, <1>6
      <3>4. g[l] = f[l] + 1 /\ f[l] + 1 = i
        BY <3>1, <3>2, <3>3, <1>2, <1>6
      <3>. QED
        BY <3>3, <3>4, <1>8
    <2>. HIDE DEF k
    <2>. QED
      BY <2>1, <2>2, <2>3, <2>4 DEF CutAt
  <1>. HIDE DEF k
  <1>. QED
    BY <1>1, <1>10, CutText

(* Readings of blocks that were carried behind others, or cut off.         *)
LEMMA ReadBehind ==
    ASSUME NEW A, NEW B, NEW I, NEW c, NEW t, NEW u, Reads(A, t), Reads(B, u),
           Carried(I, B, c, Len(t)), \A v, w \in B : v.id = w.id => v = w
    PROVE  Reads(A \cup I, t \o u)
  <1>. DEFINE m == Len(t)
              n == Len(u)
  <1>1. /\ t \in Seq(Seq(Nat)) /\ u \in Seq(Seq(Nat)) /\ m \in Nat /\ n \in Nat
        /\ Numbered(A, m) /\ Numbered(B, n)
    BY DEF Reads
  <1>2. /\ t \o u \in Seq(Seq(Nat)) /\ Len(t \o u) = m + n
        /\ \A i \in 1..m : (t \o u)[i] = t[i]
        /\ \A j \in 1..n : (t \o u)[m + j] = u[j]
    BY <1>1
  <1>0. Carried(I, B, c, m)
    OBVIOUS
  <1>. HIDE DEF m, n
  <1>3. Numbered(A \cup I, m + n)
    BY <1>0, <1>1, MergedRows
  <1>4. ASSUME NEW v \in A PROVE (t \o u)[v.ordinal + 1] = v.text
    <2>1. v.ordinal + 1 \in 1..m
      BY <1>1 DEF Numbered
    <2>2. PICK i \in 1..m : i = v.ordinal + 1
      BY <2>1
    <2>3. t[i] = v.text
      BY <2>2 DEF Reads
    <2>. QED
      BY <1>2, <2>2, <2>3
  <1>5. ASSUME NEW w \in I PROVE (t \o u)[w.ordinal + 1] = w.text
    <2>1. PICK v \in B : w.text = v.text /\ w.ordinal = v.ordinal + m
      BY <1>0 DEF Carried
    <2>2. v.ordinal \in 0..(n - 1)
      BY <1>1 DEF Numbered
    <2>3. PICK j \in 1..n : j = v.ordinal + 1 /\ m + j = w.ordinal + 1
      <3>1. v.ordinal + 1 \in 1..n
        BY <1>1, <2>2
      <3>2. m + (v.ordinal + 1) = w.ordinal + 1
        BY <1>1, <2>1, <2>2
      <3>. QED
        BY <3>1, <3>2
    <2>4. u[j] = v.text
      BY <2>3 DEF Reads
    <2>. QED
      BY <1>2, <2>1, <2>3, <2>4
  <1>6. Numbered(A \cup I, Len(t \o u))
    BY <1>2, <1>3
  <1>. QED
    BY <1>2, <1>4, <1>5, <1>6 DEF Reads


LEMMA ReadApart ==
    ASSUME NEW A, NEW s, Reads(A, s), NEW cut \in 0..Len(s),
           NEW M, M = {v \in A : v.ordinal >= cut},
           NEW H, NEW h, Reads(H, h), NEW I, NEW new, Carried(I, M, new, Len(h) - cut),
           \A v, w \in A : v.id = w.id => v = w
    PROVE  /\ Reads(A \ M, SubSeq(s, 1, cut))
           /\ Reads(H \cup I, h \o SubSeq(s, cut + 1, Len(s)))
  <1>. DEFINE n == Len(s)
              k == Len(h)
              left == SubSeq(s, 1, cut)
              rest == SubSeq(s, cut + 1, Len(s))
              right == h \o rest
  <1>1. /\ s \in Seq(Seq(Nat)) /\ h \in Seq(Seq(Nat)) /\ n \in Nat /\ k \in Nat
        /\ Numbered(A, n) /\ Numbered(H, k) /\ cut \in 0..n /\ Carried(I, M, new, k - cut)
    BY DEF Reads
  <1>2. /\ left \in Seq(Seq(Nat)) /\ Len(left) = cut /\ \A i \in 1..cut : left[i] = s[i]
        /\ rest \in Seq(Seq(Nat)) /\ Len(rest) = n - cut
        /\ \A i \in 1..(n - cut) : rest[i] = s[cut + i]
    BY <1>1, Pieces
  <1>. HIDE DEF n, k, left, rest
  <1>3. /\ right \in Seq(Seq(Nat)) /\ Len(right) = k + (n - cut)
        /\ \A i \in 1..k : right[i] = h[i]
        /\ \A j \in 1..(n - cut) : right[k + j] = rest[j]
    <2>1. Len(h) = k /\ n - cut \in Nat
      BY <1>1 DEF k
    <2>2. Chained(right, h, rest, k, n - cut, Seq(Nat))
      BY <1>1, <1>2, <2>1, ConcatIs
    <2>. HIDE DEF right
    <2>. QED
      BY <2>2 DEF Chained
  <1>. HIDE DEF right
  <1>4. Numbered(A \ M, cut) /\ Numbered(H \cup I, k + (n - cut))
    BY <1>1, SplitRows
  <1>5. \A v \in A : v.ordinal \in 0..(n - 1)
    BY <1>1 DEF Numbered
  <1>6. ASSUME NEW v \in A \ M PROVE left[v.ordinal + 1] = v.text
    <2>1. PICK i \in 1..cut : i = v.ordinal + 1
      BY <1>1, <1>5
    <2>2. s[i] = v.text
      BY <2>1 DEF Reads
    <2>. QED
      BY <1>2, <2>1, <2>2
  <1>7. ASSUME NEW v \in H PROVE right[v.ordinal + 1] = v.text
    <2>0. v.ordinal \in 0..(k - 1)
      BY <1>1 DEF Numbered
    <2>1. PICK i \in 1..k : i = v.ordinal + 1
      BY <1>1, <2>0
    <2>2. h[i] = v.text
      BY <2>1 DEF Reads
    <2>. QED
      BY <1>3, <2>1, <2>2
  <1>8. ASSUME NEW w \in I PROVE right[w.ordinal + 1] = w.text
    <2>1. PICK v \in M : w.text = v.text /\ w.ordinal = v.ordinal + (k - cut)
      BY <1>1 DEF Carried
    <2>2. v \in A /\ v.ordinal \in cut..(n - 1)
      BY <1>1, <1>5
    <2>3. PICK j \in 1..(n - cut) : k + j = w.ordinal + 1 /\ cut + j = v.ordinal + 1
      <3>1. v.ordinal - cut + 1 \in 1..(n - cut)
        BY <1>1, <2>2
      <3>2. k + (v.ordinal - cut + 1) = w.ordinal + 1 /\ cut + (v.ordinal - cut + 1) = v.ordinal + 1
        BY <1>1, <2>1, <2>2
      <3>. QED
        BY <3>1, <3>2
    <2>4. s[v.ordinal + 1] = v.text
      BY <2>2 DEF Reads
    <2>5. right[k + j] = rest[j] /\ rest[j] = s[cut + j]
      BY <1>2, <1>3
    <2>. QED
      BY <2>1, <2>3, <2>4, <2>5
  <1>9. Numbered(A \ M, Len(left)) /\ Numbered(H \cup I, Len(right))
    BY <1>2, <1>3, <1>4
  <1>. QED
    BY <1>2, <1>3, <1>6, <1>7, <1>8, <1>9 DEF Reads, left, right, rest

(* A merge, undone, divides a chapter.                                     *)
LEMMA MergeDivides ==
    ASSUME NEW R \in SUBSET Row, NEW g \in Order, Tree(R, g),
           NEW a \in LiveIn(g), NEW b \in LiveIn(g), g[b] = g[a] + 1,
           NEW m \in Nat, Numbered(In(R, a), m), NEW I, Carried(I, In(R, b), a, m),
           NEW f, LiveIn(f) = LiveIn(g) \ {b},
           \A c \in LiveIn(g) \ {b} : f[c] = IF g[c] > g[b] THEN g[c] - 1 ELSE g[c]
    PROVE  Divides((R \ In(R, b)) \cup I, f, R, g, a, b)
  <1>. DEFINE Q == (R \ In(R, b)) \cup I
  <1>1. \A c \in LiveIn(g) : g[c] \in Int
    BY OrderIs DEF LiveIn
  <1>2. a # b
    BY <1>1
  <1>3. \A c, l \in LiveIn(g) : g[c] = g[l] => c = l
    BY DEF Tree, Seated
  <1>4. a \in LiveIn(f) /\ b \notin LiveIn(f) /\ LiveIn(g) = LiveIn(f) \cup {b}
    BY <1>2
  <1>5. g[a] = f[a] /\ g[b] = f[a] + 1
    BY <1>1, <1>2
  <1>6. ASSUME NEW l \in LiveIn(f) \ {a}
        PROVE  g[l] = (IF f[l] > f[a] THEN f[l] + 1 ELSE f[l]) /\ In(R, l) = In(Q, l)
    <2>1. l \in LiveIn(g) /\ l # a /\ l # b /\ g[l] # g[a] /\ g[l] # g[b]
      BY <1>3
    <2>2. f[l] = (IF g[l] > g[b] THEN g[l] - 1 ELSE g[l]) /\ g[l] \in Int /\ g[a] \in Int
      BY <2>1, <1>1
    <2>3. g[l] = IF f[l] > f[a] THEN f[l] + 1 ELSE f[l]
      BY <2>1, <2>2, <1>5
    <2>4. In(R, l) = In(Q, l)
      BY <2>1 DEF In, Carried
    <2>. QED
      BY <2>3, <2>4
  <1>7. In(Q, a) = In(R, a) \cup I
    BY <1>2 DEF In, Carried
  <1>8. In(R, a) \in SUBSET Row /\ In(R, b) \in SUBSET Row
        /\ \A v, w \in In(R, b) : v.id = w.id => v = w
    BY DEF In, Tree
  <1>9. PICK t \in Seq(Seq(Nat)) : Reads(In(R, a), t) /\ Len(t) = m
    BY <1>8, SomeReading
  <1>10. PICK n \in Nat : Numbered(In(R, b), n)
    BY DEF Tree
  <1>11. PICK u \in Seq(Seq(Nat)) : Reads(In(R, b), u)
    BY <1>8, <1>10, SomeReading
  <1>. HIDE DEF Q
  <1>12. Reads(In(Q, a), t \o u)
    BY <1>7, <1>8, <1>9, <1>11, ReadBehind
  <1>13. FlattenSeq(t \o u) = FlattenSeq(t) \o FlattenSeq(u) /\ t \o u \in Seq(Seq(Nat))
    BY <1>9, <1>11, Glued
  <1>14. \E x, y, z \in Seq(Seq(Nat)) :
           /\ Reads(In(Q, a), x) /\ Reads(In(R, a), y) /\ Reads(In(R, b), z)
           /\ FlattenSeq(x) = FlattenSeq(y) \o FlattenSeq(z)
    BY <1>9, <1>11, <1>12, <1>13
  <1>15. Divides(Q, f, R, g, a, b)
    BY <1>4, <1>5, <1>6, <1>14 DEF Divides
  <1>. QED
    BY <1>15 DEF Q

(* The texts t and u of the parts of a chapter, s being its own.           *)
Apart(s, t, u) == /\ s \in Seq(Seq(Nat)) /\ t \in Seq(Seq(Nat)) /\ u \in Seq(Seq(Nat))
                  /\ FlattenSeq(s) = FlattenSeq(t) \o FlattenSeq(u)

LEMMA CutBetween ==
    ASSUME NEW s \in Seq(Seq(Nat)), NEW cut \in 0..Len(s)
    PROVE  Apart(s, SubSeq(s, 1, cut), <<>> \o SubSeq(s, cut + 1, Len(s)))
  <1>. DEFINE t == SubSeq(s, 1, cut)
              u == SubSeq(s, cut + 1, Len(s))
  <1>1. t \in Seq(Seq(Nat)) /\ u \in Seq(Seq(Nat))
    BY Pieces
  <1>2. s = t \o u
    BY Rejoined
  <1>. HIDE DEF t, u
  <1>3. FlattenSeq(t \o u) = FlattenSeq(t) \o FlattenSeq(u)
    BY <1>1, Glued
  <1>4. <<>> \o u = u
    BY <1>1, ConcatEmptySeq
  <1>. QED
    BY <1>1, <1>2, <1>3, <1>4 DEF Apart, t, u

(* x is s with its member k cut short, and e is what was cut off.          *)
Shortened(s, x, k, e) ==
    /\ s \in Seq(Seq(Nat)) /\ x \in Seq(Seq(Nat)) /\ e \in Seq(Nat)
    /\ k \in 1..Len(s) /\ Len(x) = Len(s) /\ s[k] = x[k] \o e
    /\ \A i \in 1..Len(s) : i # k => x[i] = s[i]

LEMMA CutWithin ==
    ASSUME NEW s, NEW x, NEW k, NEW e, Shortened(s, x, k, e)
    PROVE  Apart(s, SubSeq(x, 1, k), <<e>> \o SubSeq(x, k + 1, Len(x)))
  <1>. DEFINE n == Len(s)
              t == SubSeq(x, 1, k)
              u == SubSeq(x, k + 1, Len(x))
              v == <<e>> \o u
              q == t \o v
  <1>1. /\ s \in Seq(Seq(Nat)) /\ x \in Seq(Seq(Nat)) /\ e \in Seq(Nat)
        /\ n \in Nat /\ k \in 1..n /\ Len(x) = n /\ s[k] = x[k] \o e
        /\ \A i \in 1..n : i # k => x[i] = s[i]
    BY DEF Shortened
  <1>2. /\ t \in Seq(Seq(Nat)) /\ Len(t) = k /\ \A i \in 1..k : t[i] = x[i]
        /\ u \in Seq(Seq(Nat)) /\ Len(u) = n - k /\ \A i \in 1..(n - k) : u[i] = x[k + i]
    <2>1. k \in 0..Len(x)
      BY <1>1
    <2>. QED
      BY <1>1, <2>1, Pieces
  <1>. HIDE DEF n, t, u
  <1>3. /\ v \in Seq(Seq(Nat)) /\ Len(v) = 1 + (n - k) /\ v[1] = e
        /\ \A i \in 1..(n - k) : v[1 + i] = u[i]
    BY <1>1, <1>2
  <1>. HIDE DEF v
  <1>4. /\ q \in Seq(Seq(Nat)) /\ Len(q) = n + 1
        /\ \A i \in 1..k : q[i] = t[i]
        /\ \A i \in 1..(1 + (n - k)) : q[k + i] = v[i]
    <2>1. k \in Nat /\ 1 + (n - k) \in Nat /\ k + (1 + (n - k)) = n + 1
      BY <1>1
    <2>2. Chained(q, t, v, k, 1 + (n - k), Seq(Nat))
      BY <1>2, <1>3, <2>1, ConcatIs
    <2>. HIDE DEF q
    <2>. QED
      BY <2>1, <2>2 DEF Chained
  <1>. HIDE DEF q
  <1>5. CutAt(s, q, k)
    <2>1. k \in 1..Len(s) /\ Len(q) = Len(s) + 1
      BY <1>1, <1>4 DEF n
    <2>2. ASSUME NEW i \in 1..(k - 1) PROVE q[i] = s[i]
      <3>1. i \in 1..k /\ i \in 1..n /\ i # k
        BY <1>1
      <3>. QED
        BY <3>1, <1>1, <1>2, <1>4 
    <2>3. s[k] = q[k] \o q[k + 1]
      <3>1. k \in 1..k /\ 1 \in 1..(1 + (n - k))
        BY <1>1
      <3>2. q[k] = x[k] /\ q[k + 1] = e
        BY <3>1, <1>2, <1>3, <1>4
      <3>. QED
        BY <3>2, <1>1
    <2>4. ASSUME NEW i \in (k + 1)..Len(s) PROVE q[i + 1] = s[i]
      <3>0. i \in (k + 1)..n /\ k \in Nat
        BY <1>1 DEF n
      <3>1. i \in 1..n /\ i # k /\ i - k \in 1..(n - k) /\ k + (i - k) = i
        BY <3>0, <1>1
      <3>2. PICK j \in 1..(n - k) : k + j = i
        BY <3>1
      <3>3. 1 + j \in 1..(1 + (n - k)) /\ k + (1 + j) = i + 1
        BY <3>1, <3>2, <1>1
      <3>4. q[k + (1 + j)] = v[1 + j] /\ v[1 + j] = u[j] /\ u[j] = x[k + j]
        BY <3>3, <1>2, <1>3, <1>4
      <3>5. x[i] = s[i]
        BY <3>1, <1>1
      <3>. QED
        BY <3>2, <3>3, <3>4, <3>5
    <2>. QED
      BY <2>1, <2>2, <2>3, <2>4 DEF CutAt
  <1>6. FlattenSeq(q) = FlattenSeq(s)
    BY <1>1, <1>4, <1>5, CutText
  <1>7. FlattenSeq(q) = FlattenSeq(t) \o FlattenSeq(v)
    BY <1>2, <1>3, Glued DEF q
  <1>. QED
    BY <1>1, <1>2, <1>3, <1>6, <1>7 DEF Apart, t, v, u

(* A split divides a chapter; Z are the blocks with the shortened one.     *)
LEMMA SplitDivides ==
    ASSUME NEW R, NEW Z, NEW f, NEW g, Tree(Z, f),
           NEW c \in LiveIn(f), NEW new, new \notin LiveIn(f),
           LiveIn(g) = LiveIn(f) \cup {new}, g[new] = f[c] + 1, f[c] \in Int,
           \A l \in LiveIn(f) : g[l] = IF f[l] > f[c] THEN f[l] + 1 ELSE f[l],
           \A l \in LiveIn(f) \ {c} : In(Z, l) = In(R, l),
           NEW M, M \subseteq In(Z, c), NEW H, \A v \in H : v.chapter = new,
           NEW I, NEW k, Carried(I, M, new, k),
           NEW s, NEW t, NEW u, Apart(s, t, u), Reads(In(R, c), s),
           Reads(In(Z, c) \ M, t), Reads(H \cup I, u)
    PROVE  Divides(R, f, (Z \ M) \cup H \cup I, g, c, new)
  <1>. DEFINE Q == (Z \ M) \cup H \cup I
  <1>1. /\ \A x \in M : x.chapter = c
        /\ \A x \in I : x.chapter = new
        /\ \A x \in Z : x.chapter \in LiveIn(f)
        /\ c # new
    BY DEF In, Carried, Tree
  <1>2. In(Q, c) = In(Z, c) \ M
    BY <1>1 DEF In
  <1>3. In(Q, new) = H \cup I
    BY <1>1 DEF In
  <1>4. ASSUME NEW l \in LiveIn(f) \ {c} PROVE In(Q, l) = In(R, l)
    <2>1. In(Q, l) = In(Z, l)
      BY <1>1 DEF In
    <2>. HIDE DEF Q
    <2>. QED
      BY <2>1
  <1>5. g[c] = f[c]
    OBVIOUS
  <1>. HIDE DEF Q
  <1>6. \E x, y, z \in Seq(Seq(Nat)) :
           /\ Reads(In(R, c), x) /\ Reads(In(Q, c), y) /\ Reads(In(Q, new), z)
           /\ FlattenSeq(x) = FlattenSeq(y) \o FlattenSeq(z)
    BY <1>2, <1>3 DEF Apart
  <1>7. Divides(R, f, Q, g, c, new)
    BY <1>4, <1>5, <1>6 DEF Divides
  <1>. QED
    BY <1>7 DEF Q

(* Whatever the two books say, it is the same text.                        *)
Kept(R, f, Q, g) == \A p, q \in Seq(Seq(Nat)) :
    Tells(R, f, p) /\ Tells(Q, g, q) => FlattenSeq(p) = FlattenSeq(q)

LEMMA DividedKept ==
    ASSUME NEW R, NEW f, NEW Q, NEW g, NEW a, NEW b, Divides(R, f, Q, g, a, b)
    PROVE  Kept(R, f, Q, g) /\ Kept(Q, g, R, f)
  BY SameStory DEF Kept

-----------------------------------------------------------------------------
(* The database, and what a request does to it.                            *)

CurrentRows(d) == {v \in d.versions : v.to = Now}

Sound(d) == /\ d \in Database
            /\ IsFiniteSet(DOMAIN d.chapters) /\ IsFiniteSet(d.versions)
            /\ \A v, w \in d.versions : SameRow(v, w) => v = w
            /\ Tree(CurrentRows(d), d.chapters)

Moves == {"merge", "split"}
Edits == Moves \cup {"put", "replace"}
Ops == {"ingest", "update", "reorder"} \cup Edits

Change == [pc : {"planned", "flushed", "written"}, op : Ops, bumps : BOOLEAN,
           revision : Nat, close : SUBSET Row, insert : SUBSET Row, ordinals : Order]

(* A request sends finitely many rows.                                     *)
Sized(w) == w \in Change /\ IsFiniteSet(w.insert) /\ IsFiniteSet(DOMAIN w.ordinals)

(* What a request has worked out fits the database it was worked out from. *)
Fits(w, d) ==
    /\ Sized(w)
    /\ w.op \in Edits => w.bumps
    /\ w.op = "update" => ~w.bumps /\ DOMAIN w.ordinals = {}
    /\ \A v \in w.insert : v.to = Now /\ v.from = w.revision
    /\ w.op = "ingest" => /\ w.close = d.versions /\ ~w.bumps
                          /\ d.rev = 0 \/ DOMAIN d.chapters = {}
    /\ w.op # "ingest" => w.close \subseteq CurrentRows(d)
    /\ w.bumps => w.revision = d.rev + 1
    /\ w.op # "ingest" /\ ~w.bumps => w.close = {} /\ w.insert = {}
    /\ Tree((CurrentRows(d) \ w.close) \cup w.insert,
            Over(w.ordinals, IF w.op = "ingest" THEN <<>> ELSE d.chapters))
    /\ w.op \in Moves => Kept(CurrentRows(d), d.chapters,
                             (CurrentRows(d) \ w.close) \cup w.insert,
                             Over(w.ordinals, d.chapters))

NoClash(w, d) == \A v \in w.insert, x \in AfterClosings(w, d).versions : ~SameRow(v, x)

HistoryOf(d, e) ==
    d.rev > 0 => \A c \in DOMAIN d.chapters : \A r \in 0..d.rev :
                    AtRevision(e, c, r) = AtRevision(d, c, r)

(* The images of the members of a finite set.                              *)
LEMMA Images ==
    ASSUME NEW S, IsFiniteSet(S), NEW f
    PROVE  IsFiniteSet({f[x] : x \in S})
  <1>. DEFINE T == {f[x] : x \in S}
              g == [x \in S |-> f[x]]
  <1>1. g \in Surjection(S, T)
    BY DEF Surjection
  <1>. QED
    BY <1>1, FS_Surjection

LEMMA NoOrder == <<>> \in Order /\ DOMAIN <<>> = {} /\ IsFiniteSet(DOMAIN <<>>)
  <1>1. <<>> \in [1..0 -> Int] /\ DOMAIN <<>> = 1..0 /\ 1..0 = {}
    OBVIOUS
  <1>. QED
    BY <1>1, FS_EmptySet DEF Order

(* The rows after the first flush.                                         *)
LEMMA ClosedRows ==
    ASSUME NEW d, Sound(d), NEW w, Fits(w, d)
    PROVE  LET e == AfterClosings(w, d)
           IN  /\ e \in Database /\ IsFiniteSet(e.versions)
               /\ e.chapters = IF w.op = "ingest" THEN <<>> ELSE d.chapters
               /\ \A v, x \in e.versions : SameRow(v, x) => v = x
               /\ CurrentRows(e) = CurrentRows(d) \ w.close
               /\ HistoryOf(d, e)
  <1>. DEFINE e == AfterClosings(w, d)
  <1>0. /\ d \in Database /\ w \in Change /\ DOMAIN d.chapters \subseteq Nat
        /\ IsFiniteSet(d.versions) /\ d.versions \subseteq Row /\ d.rev \in Nat
    BY OrderIs DEF Sound, Fits, Sized, Database
  <1>1. CASE w.op = "ingest"
    <2>1. e = [d EXCEPT !.chapters = <<>>, !.versions = {}]
      <3>1. ~w.bumps
        BY <1>1 DEF Fits
      <3>. QED
        BY <1>1, <3>1 DEF AfterClosings
    <2>2. e \in Database /\ e.versions = {} /\ e.chapters = <<>>
      BY <2>1, <1>0, NoOrder DEF Database
    <2>3. CurrentRows(d) \ w.close = {} /\ CurrentRows(e) = {}
      BY <2>2, <1>1 DEF Fits, CurrentRows
    <2>4. HistoryOf(d, e)
      BY <1>0, <1>1 DEF Fits, HistoryOf
    <2>. HIDE DEF e
    <2>. QED
      BY <2>2, <2>3, <2>4, <1>1, FS_EmptySet DEF e
  <1>2. CASE w.op # "ingest" /\ w.bumps
    <2>. DEFINE g == [v \in d.versions |-> IF v \in w.close THEN Closed(v, w.revision) ELSE v]
    <2>1. ASSUME NEW v \in d.versions
          PROVE  (\E c \in w.close : SameRow(c, v)) <=> v \in w.close
      BY <1>2 DEF Sound, Fits, CurrentRows, SameRow
    <2>2. e = [d EXCEPT !.rev = w.revision, !.revisions = @ \cup {w.revision},
                        !.versions = {IF \E c \in w.close : SameRow(c, v)
                                      THEN Closed(v, w.revision) ELSE v : v \in @}]
      BY <1>2 DEF AfterClosings
    <2>3. /\ e.versions = {IF \E c \in w.close : SameRow(c, v)
                           THEN Closed(v, w.revision) ELSE v : v \in d.versions}
          /\ e.chapters = d.chapters /\ e.rev = w.revision
          /\ e.revisions = d.revisions \cup {w.revision}
          /\ e = [rev |-> e.rev, revisions |-> e.revisions, chapters |-> e.chapters,
                  versions |-> e.versions]
      <3>. HIDE DEF e
      <3>. QED
        BY <2>2, <1>0 DEF Database
    <2>. HIDE DEF e
    <2>4. e.versions = {g[v] : v \in d.versions}
      BY <2>1, <2>3
    <2>5. ASSUME NEW v \in d.versions
          PROVE  /\ g[v] \in Row /\ g[v].id = v.id /\ g[v].from = v.from
                 /\ g[v].chapter = v.chapter /\ g[v].ordinal = v.ordinal /\ g[v].text = v.text
                 /\ g[v].to = IF v \in w.close THEN w.revision ELSE v.to
                 /\ v \notin w.close => g[v] = v
      <3>1. v \in Row /\ w.revision \in Nat
        BY <1>0 DEF Change
      <3>2. CASE v \in w.close
        <4>1. g[v] = [v EXCEPT !.to = w.revision]
          BY <3>2 DEF Closed
        <4>. HIDE DEF g
        <4>. QED
          BY <3>1, <3>2, <4>1 DEF Row
      <3>3. CASE v \notin w.close
        BY <3>1, <3>3
      <3>. QED
        BY <3>2, <3>3
    <2>. HIDE DEF g
    <2>6. IsFiniteSet(e.versions)
      BY <2>4, <1>0, Images
    <2>7. e.versions \subseteq Row
      BY <2>4, <2>5
    <2>8. e \in Database
      BY <2>3, <2>7, <1>0 DEF Database, Change
    <2>9. ASSUME NEW v \in e.versions, NEW x \in e.versions, SameRow(v, x) PROVE v = x
      <3>1. PICK v0 \in d.versions : v = g[v0]
        BY <2>4
      <3>2. PICK x0 \in d.versions : x = g[x0]
        BY <2>4
      <3>3. SameRow(v0, x0)
        BY <3>1, <3>2, <2>5, <2>9 DEF SameRow
      <3>. QED
        BY <3>1, <3>2, <3>3 DEF Sound
    <2>10. w.revision # Now /\ w.revision \in Nat
      BY <1>0, ChaptersAssumption DEF Change
    <2>11. CurrentRows(e) = CurrentRows(d) \ w.close
      <3>1. ASSUME NEW v \in CurrentRows(e) PROVE v \in CurrentRows(d) \ w.close
        <4>1. PICK v0 \in d.versions : v = g[v0] /\ v.to = Now
          BY <2>4 DEF CurrentRows
        <4>2. v0 \notin w.close
          BY <4>1, <2>5, <2>10
        <4>. QED
          BY <4>1, <4>2, <2>5 DEF CurrentRows
      <3>2. ASSUME NEW v \in CurrentRows(d) \ w.close PROVE v \in CurrentRows(e)
        <4>1. v \in d.versions /\ v.to = Now /\ g[v] = v
          BY <2>5 DEF CurrentRows
        <4>. QED
          BY <4>1, <2>4 DEF CurrentRows
      <3>. QED
        BY <3>1, <3>2
    <2>12. HistoryOf(d, e)
      <3>. SUFFICES ASSUME NEW c, NEW r \in 0..d.rev
                    PROVE  AtRevision(e, c, r) = AtRevision(d, c, r)
        BY DEF HistoryOf
      <3>1. ASSUME NEW v \in d.versions
            PROVE  (g[v].to = Now \/ g[v].to > r) <=> (v.to = Now \/ v.to > r)
        <4>1. CASE v \in w.close
          <5>1. v.to = Now
            BY <4>1, <1>2 DEF Fits, CurrentRows
          <5>2. g[v].to = w.revision /\ w.revision = d.rev + 1
            BY <4>1, <2>5, <1>2 DEF Fits
          <5>. QED
            BY <5>1, <5>2, <1>0
        <4>2. CASE v \notin w.close
          BY <4>2, <2>5
        <4>. QED
          BY <4>1, <4>2
      <3>2. AtRevision(e, c, r) \subseteq AtRevision(d, c, r)
        <4>. SUFFICES ASSUME NEW v0 \in d.versions, g[v0].chapter = c, g[v0].from <= r,
                             g[v0].to = Now \/ g[v0].to > r
                      PROVE  <<g[v0].id, g[v0].ordinal, g[v0].text>> \in AtRevision(d, c, r)
          BY <2>4 DEF AtRevision
        <4>. QED
          BY <3>1, <2>5 DEF AtRevision
      <3>3. AtRevision(d, c, r) \subseteq AtRevision(e, c, r)
        <4>. SUFFICES ASSUME NEW v0 \in d.versions, v0.chapter = c, v0.from <= r,
                             v0.to = Now \/ v0.to > r
                      PROVE  <<v0.id, v0.ordinal, v0.text>> \in AtRevision(e, c, r)
          BY DEF AtRevision
        <4>1. g[v0] \in e.versions
          BY <2>4
        <4>. QED
          BY <3>1, <2>5, <4>1 DEF AtRevision
      <3>. QED
        BY <3>2, <3>3
    <2>. QED
      BY <2>3, <2>6, <2>8, <2>9, <2>11, <2>12, <1>2 DEF e
  <1>3. CASE w.op # "ingest" /\ ~w.bumps
    <2>1. e = d
      BY <1>3 DEF AfterClosings
    <2>2. w.close = {} /\ HistoryOf(d, d)
      BY <1>3 DEF Fits, HistoryOf
    <2>. HIDE DEF e
    <2>. QED
      BY <2>1, <2>2, <1>0, <1>3 DEF Sound, e
  <1>. QED
    BY <1>1, <1>2, <1>3

(* The rows after the second flush.                                        *)
LEMMA WrittenRows ==
    ASSUME NEW d, Sound(d), NEW w, Fits(w, d), NoClash(w, d)
    PROVE  LET e == AfterRows(w, AfterClosings(w, d))
           IN  /\ Sound(e) /\ HistoryOf(d, e)
               /\ CurrentRows(e) = (CurrentRows(d) \ w.close) \cup w.insert
               /\ w.op # "ingest" => e.chapters = Over(w.ordinals, d.chapters)
  <1>. DEFINE b == AfterClosings(w, d)
              e == AfterRows(w, b)
  <1>1. /\ b \in Database /\ IsFiniteSet(b.versions)
        /\ b.chapters = IF w.op = "ingest" THEN <<>> ELSE d.chapters
        /\ \A v, x \in b.versions : SameRow(v, x) => v = x
        /\ CurrentRows(b) = CurrentRows(d) \ w.close
        /\ HistoryOf(d, b)
    BY ClosedRows
  <1>0. \A v \in w.insert, x \in b.versions : ~SameRow(v, x)
    BY DEF NoClash
  <1>2. e = [b EXCEPT !.versions = @ \cup w.insert, !.chapters = Over(w.ordinals, @)]
    BY DEF AfterRows
  <1>. HIDE DEF b
  <1>3. /\ e.versions = b.versions \cup w.insert
        /\ e.chapters = Over(w.ordinals, b.chapters)
        /\ e.rev = b.rev /\ e.revisions = b.revisions
        /\ e = [rev |-> e.rev, revisions |-> e.revisions, chapters |-> e.chapters,
                versions |-> e.versions]
    <2>. HIDE DEF e
    <2>. QED
      BY <1>1, <1>2 DEF Database
  <1>. HIDE DEF e
  <1>4. /\ w.ordinals \in Order /\ w.insert \subseteq Row /\ IsFiniteSet(w.insert)
        /\ IsFiniteSet(DOMAIN w.ordinals) /\ w.revision \in Nat
        /\ \A v \in w.insert : v.to = Now /\ v.from = w.revision
    BY DEF Fits, Sized, Change
  <1>5. b.chapters \in Order /\ IsFiniteSet(DOMAIN b.chapters)
    BY <1>1, NoOrder DEF Sound, Database
  <1>6. /\ e.chapters \in Order
        /\ DOMAIN e.chapters = DOMAIN w.ordinals \cup DOMAIN b.chapters
    <2>1. /\ Over(w.ordinals, b.chapters) \in Order
          /\ DOMAIN Over(w.ordinals, b.chapters) = DOMAIN w.ordinals \cup DOMAIN b.chapters
      <3>1. w.ordinals \in Order /\ b.chapters \in Order
        BY <1>4, <1>5
      <3>. QED
        BY <3>1, WrittenOver
    <2>. QED
      BY <2>1, <1>3
  <1>7. IsFiniteSet(DOMAIN e.chapters) /\ IsFiniteSet(e.versions)
    <2>1. IsFiniteSet(DOMAIN w.ordinals \cup DOMAIN b.chapters)
      <3>1. IsFiniteSet(DOMAIN w.ordinals) /\ IsFiniteSet(DOMAIN b.chapters)
        BY <1>4, <1>5
      <3>. QED
        BY <3>1, FS_Union
    <2>2. IsFiniteSet(b.versions \cup w.insert)
      <3>1. IsFiniteSet(b.versions) /\ IsFiniteSet(w.insert)
        BY <1>1, <1>4
      <3>. QED
        BY <3>1, FS_Union
    <2>. QED
      BY <2>1, <2>2, <1>3, <1>6
  <1>8. e \in Database
    BY <1>1, <1>3, <1>4, <1>6 DEF Database
  <1>9. CurrentRows(e) = (CurrentRows(d) \ w.close) \cup w.insert
    BY <1>1, <1>3, <1>4 DEF CurrentRows
  <1>10. Tree(CurrentRows(e), e.chapters)
    BY <1>1, <1>3, <1>9 DEF Fits
  <1>11. \A v, x \in e.versions : SameRow(v, x) => v = x
    <2>1. ASSUME NEW v \in w.insert, NEW x \in w.insert, SameRow(v, x) PROVE v = x
      <3>1. v \in CurrentRows(e) /\ x \in CurrentRows(e)
        BY <1>9
      <3>. QED
        BY <2>1, <3>1, <1>10 DEF Tree, SameRow
    <2>2. \A v, x : SameRow(v, x) => SameRow(x, v)
      BY DEF SameRow
    <2>. QED
      BY <2>1, <2>2, <1>0, <1>1, <1>3
  <1>12. HistoryOf(d, e)
    <2>. SUFFICES ASSUME d.rev > 0, NEW c \in DOMAIN d.chapters, NEW r \in 0..d.rev
                  PROVE  AtRevision(e, c, r) = AtRevision(b, c, r)
      BY <1>1 DEF HistoryOf
    <2>1. ASSUME NEW v \in w.insert PROVE ~(v.from <= r)
      <3>1. w.bumps
        <4>1. w.op # "ingest"
          BY DEF Fits
        <4>. QED
          BY <2>1, <4>1 DEF Fits
      <3>2. w.revision = d.rev + 1 /\ d.rev \in Nat
        BY <3>1 DEF Fits, Sound, Database
      <3>. QED
        BY <3>2, <1>4
    <2>. QED
      BY <2>1, <1>3 DEF AtRevision
  <1>. QED
    BY <1>1, <1>3, <1>7, <1>8, <1>9, <1>10, <1>11, <1>12 DEF Sound, e, b

(* What a sound database is to its readers.                                *)
LEMMA SoundTree ==
    ASSUME NEW d, Sound(d)
    PROVE  /\ Live(d) = LiveIn(d.chapters) /\ IsFiniteSet(Live(d))
           /\ \A c : Current(d, c) = In(CurrentRows(d), c)
           /\ \E n \in Nat : Seated(d.chapters, n) /\ Cardinality(Live(d)) = n
           /\ \A c \in Live(d) :
                \E n \in Nat : Numbered(Current(d, c), n) /\ Cardinality(Current(d, c)) = n
           /\ \A v, w \in CurrentRows(d) : v.id = w.id => v = w
           /\ d.rev \in Nat /\ d.versions \subseteq Row /\ d.chapters \in Order
           /\ CurrentRows(d) \subseteq Row
  <1>1. Live(d) = LiveIn(d.chapters) /\ IsFiniteSet(Live(d))
    <2>1. Live(d) = LiveIn(d.chapters) /\ Live(d) \subseteq DOMAIN d.chapters
      BY DEF Live, LiveIn
    <2>2. IsFiniteSet(DOMAIN d.chapters)
      BY DEF Sound
    <2>. QED
      BY <2>1, <2>2, FS_Subset
  <1>2. ASSUME NEW c PROVE Current(d, c) = In(CurrentRows(d), c)
    BY DEF Current, In, CurrentRows
  <1>3. PICK n \in Nat : Seated(d.chapters, n)
    BY DEF Sound, Tree
  <1>4. Cardinality(Live(d)) = n
    <2>. DEFINE f == [c \in Live(d) |-> d.chapters[c]]
    <2>1. Numbers(f, Live(d), n)
      BY <1>1, <1>3 DEF Seated, Numbers
    <2>. HIDE DEF f
    <2>. QED
      BY <2>1, Counted
  <1>5. ASSUME NEW c \in Live(d)
        PROVE  \E k \in Nat : Numbered(Current(d, c), k) /\ Cardinality(Current(d, c)) = k
    <2>1. PICK k \in Nat : Numbered(Current(d, c), k)
      BY <1>1, <1>2 DEF Sound, Tree
    <2>. DEFINE S == Current(d, c)
                f == [v \in S |-> v.ordinal]
    <2>2. Numbers(f, S, k)
      BY <2>1 DEF Numbered, Numbers
    <2>. HIDE DEF f, S
    <2>3. Cardinality(S) = k
      BY <2>2, Counted
    <2>. QED
      BY <2>1, <2>3 DEF S
  <1>6. /\ \A v, w \in CurrentRows(d) : v.id = w.id => v = w
        /\ d.rev \in Nat /\ d.versions \subseteq Row /\ d.chapters \in Order
        /\ CurrentRows(d) \subseteq Row
    BY DEF Sound, Tree, Database, CurrentRows
  <1>. QED
    BY <1>1, <1>2, <1>3, <1>4, <1>5, <1>6

LEMMA BookIs ==
    ASSUME NEW d, NEW p, Tells(CurrentRows(d), d.chapters, p)
    PROVE  BookText(d) = FlattenSeq(p)
  <1>. DEFINE n == Len(p)
              A == ActiveChapters(d)
              chapter(i) == FlattenSeq(Texts(CurrentBlocks(d, A[i])))
  <1>1. p \in Seq(Seq(Nat)) /\ n \in Nat /\ Seated(d.chapters, n)
    BY DEF Tells
  <1>2. A \in [1..n -> LiveIn(d.chapters)] /\ \A i \in 1..n : d.chapters[A[i]] = i - 1
    BY <1>1, SeatsOf
  <1>3. ASSUME NEW i \in 1..n PROVE chapter(i) = p[i]
    <2>1. A[i] \in LiveIn(d.chapters) /\ d.chapters[A[i]] = i - 1
      BY <1>2
    <2>2. PICK s \in Seq(Seq(Nat)) : /\ Reads(In(CurrentRows(d), A[i]), s)
                                     /\ p[d.chapters[A[i]] + 1] = FlattenSeq(s)
      BY <2>1 DEF Tells
    <2>3. Current(d, A[i]) = In(CurrentRows(d), A[i])
      BY DEF Current, CurrentRows, In
    <2>4. Texts(CurrentBlocks(d, A[i])) = s
      BY <2>2, <2>3, TextsAre
    <2>5. d.chapters[A[i]] + 1 = i
      BY <2>1
    <2>. QED
      BY <2>2, <2>4, <2>5
  <1>4. p = [i \in 1..n |-> p[i]]
    BY <1>1, SeqIs
  <1>5. BookText(d) = FlattenSeq([i \in DOMAIN A |-> chapter(i)])
    BY DEF BookText
  <1>. HIDE DEF A, n, chapter
  <1>6. [i \in DOMAIN A |-> chapter(i)] = p
    BY <1>2, <1>3, <1>4
  <1>. QED
    BY <1>5, <1>6

LEMMA SoundIsTree == Sound(saved) => TreeIsSound
  <1>. SUFFICES ASSUME Sound(saved) PROVE TreeIsSound
    OBVIOUS
  <1>1. ASSUME NEW v \in saved.versions, v.to = Now
        PROVE  /\ v.chapter \in Live(saved)
               /\ \A w \in saved.versions : w.to = Now /\ w.id = v.id => w = v
    <2>1. v.chapter \in LiveIn(saved.chapters)
      BY <1>1 DEF Sound, Tree, CurrentRows
    <2>. QED
      BY <2>1, <1>1, SoundTree DEF CurrentRows
  <1>2. {saved.chapters[c] : c \in Live(saved)} = 0..Cardinality(Live(saved)) - 1
    <2>1. PICK n \in Nat : Seated(saved.chapters, n) /\ Cardinality(Live(saved)) = n
      BY SoundTree
    <2>. QED
      BY <2>1, SoundTree DEF Seated
  <1>3. ASSUME NEW c \in Live(saved)
        PROVE  {v.ordinal : v \in Current(saved, c)} = 0..Cardinality(Current(saved, c)) - 1
    <2>1. PICK n \in Nat : Numbered(Current(saved, c), n) /\ Cardinality(Current(saved, c)) = n
      BY SoundTree
    <2>. QED
      BY <2>1 DEF Numbered
  <1>. QED
    BY <1>1, <1>2, <1>3 DEF TreeIsSound, OneCurrentVersion, OrdinalsAreDense

(* Blocks under a new revision: those of a chapter from a cut on.          *)
From(d, c, n, cut, right) ==
    /\ Numbered(Current(d, c), n) /\ n \in Nat /\ cut \in 0..n
    /\ Current(d, c) \subseteq Row
    /\ \A v, w \in Current(d, c) : v.id = w.id => v = w
    /\ right = SubSeq(CurrentBlocks(d, c), cut + 1, Len(CurrentBlocks(d, c)))

LEMMA ReversionedIs ==
    ASSUME NEW d, NEW c, NEW n, NEW cut, NEW right, From(d, c, n, cut, right),
           NEW e \in Nat, NEW start \in Nat, NEW revision \in Nat
    PROVE  LET I == Reversioned(right, e, start, revision)
           IN  /\ ToSet(right) = {v \in Current(d, c) : v.ordinal >= cut}
               /\ Carried(I, ToSet(right), e, start - cut)
               /\ I \subseteq Row /\ IsFiniteSet(I)
               /\ \A v \in I : v.to = Now /\ v.from = revision
  <1>. DEFINE A == Current(d, c)
              B == CurrentBlocks(d, c)
              I == Reversioned(right, e, start, revision)
              g == [i \in DOMAIN right |-> Version(right[i].id, e, start + i - 1, right[i].text, revision)]
  <1>0. /\ Numbered(A, n) /\ n \in Nat /\ cut \in 0..n /\ A \subseteq Row
        /\ \A v, w \in A : v.id = w.id => v = w
        /\ right = SubSeq(B, cut + 1, Len(B))
    BY DEF From
  <1>1. /\ B \in [1..n -> A] /\ Len(B) = n
        /\ \A i \in 1..n : B[i] \in A /\ B[i].ordinal = i - 1
        /\ \A v \in A : v.ordinal \in 0..(n - 1) /\ B[v.ordinal + 1] = v
    <2>1. /\ B \in [1..n -> A] /\ Len(B) = n
          /\ \A i \in 1..n : B[i].ordinal = i - 1
          /\ \A v \in A : B[v.ordinal + 1] = v
      BY <1>0, BlocksOf
    <2>2. \A v \in A : v.ordinal \in 0..(n - 1)
      BY <1>0 DEF Numbered
    <2>. QED
      BY <2>1, <2>2
  <1>. HIDE DEF A, B
  <1>2. /\ right \in Seq(A) /\ Len(right) = n - cut
        /\ \A i \in 1..(n - cut) : right[i] = B[cut + i]
    <2>1. right = SubSeq(B, cut + 1, n) /\ cut + 1 \in Int /\ n \in Int
      BY <1>0, <1>1
    <2>2. \A i \in (cut + 1)..n : B[i] \in A
      <3>1. \A i \in (cut + 1)..n : i \in 1..n
        BY <1>0
      <3>. QED
        BY <3>1, <1>1
    <2>3. /\ SubSeq(B, cut + 1, n) \in Seq(A)
          /\ Len(SubSeq(B, cut + 1, n)) = IF cut + 1 <= n THEN n - (cut + 1) + 1 ELSE 0
          /\ \A i \in 1..n - (cut + 1) + 1 : SubSeq(B, cut + 1, n)[i] = B[cut + 1 + i - 1]
      BY <2>1, <2>2, SubSeqProperties
    <2>. QED
      BY <2>1, <2>3, <1>0
  <1>3. DOMAIN right = 1..(n - cut)
    BY <1>0, <1>2
  <1>4. \A i \in DOMAIN right : /\ right[i] \in A /\ right[i].ordinal = cut + i - 1
                              /\ right[i].ordinal >= cut
    <2>1. ASSUME NEW i \in 1..(n - cut)
          PROVE  right[i] \in A /\ right[i].ordinal = cut + i - 1 /\ cut + i - 1 >= cut
      <3>1. cut + i \in 1..n /\ cut + i - 1 >= cut
        BY <1>0
      <3>2. right[i] = B[cut + i] /\ B[cut + i] \in A /\ B[cut + i].ordinal = cut + i - 1
        <4>1. PICK j \in 1..n : j = cut + i
          BY <3>1
        <4>. QED
          <5>1. right[i] = B[cut + i]
            BY <1>2
          <5>2. B[j] \in A /\ B[j].ordinal = j - 1
            BY <1>1
          <5>. QED
            BY <4>1, <5>1, <5>2, <1>0
      <3>. QED
        BY <3>1, <3>2
    <2>. QED
      BY <2>1, <1>3
  <1>5. \A v \in A : v.ordinal >= cut =>
            v.ordinal + 1 - cut \in DOMAIN right /\ right[v.ordinal + 1 - cut] = v
    <2>1. ASSUME NEW v \in A, v.ordinal >= cut
          PROVE  v.ordinal + 1 - cut \in DOMAIN right /\ right[v.ordinal + 1 - cut] = v
      <3>1. v.ordinal \in 0..(n - 1) /\ B[v.ordinal + 1] = v
        BY <1>1
      <3>2. v.ordinal + 1 - cut \in 1..(n - cut) /\ cut + (v.ordinal + 1 - cut) = v.ordinal + 1
        BY <2>1, <3>1, <1>0
      <3>3. right[v.ordinal + 1 - cut] = B[cut + (v.ordinal + 1 - cut)]
        BY <3>2, <1>2
      <3>. QED
        BY <3>1, <3>2, <3>3, <1>3
    <2>. QED
      BY <2>1
  <1>6. ToSet(right) = {v \in A : v.ordinal >= cut}
    BY <1>4, <1>5 DEF ToSet
  <1>7. I = {g[i] : i \in DOMAIN right}
    BY DEF Reversioned
  <1>8. IsFiniteSet(I)
    <2>1. IsFiniteSet(DOMAIN right)
      BY <1>0, <1>3, FS_Interval
    <2>. HIDE DEF g, I
    <2>. QED
      BY <2>1, <1>7, Images
  <1>9. ASSUME NEW i \in DOMAIN right
        PROVE  /\ g[i] \in Row /\ g[i].id = right[i].id /\ g[i].chapter = e
               /\ g[i].ordinal = right[i].ordinal + (start - cut) /\ g[i].text = right[i].text
               /\ g[i].to = Now /\ g[i].from = revision
    <2>1. right[i] \in Row /\ i \in Nat /\ i >= 1
      BY <1>0, <1>3, <1>4
    <2>2. g[i] = [id |-> right[i].id, chapter |-> e, ordinal |-> start + i - 1,
                  text |-> right[i].text, from |-> revision, to |-> Now]
      BY DEF Version
    <2>. HIDE DEF g
    <2>3. g[i] \in Row
      <3>1. right[i].id \in Nat /\ right[i].text \in Seq(Nat) /\ start + i - 1 \in Nat
        <4>1. \A v \in Row : v.id \in Nat /\ v.text \in Seq(Nat)
          BY DEF Row
        <4>. QED
          BY <2>1, <4>1
      <3>. QED
        BY <2>2, <3>1 DEF Row
    <2>. QED
      BY <2>1, <2>2, <2>3, <1>0, <1>4
  <1>. HIDE DEF g, I
  <1>10. Carried(I, ToSet(right), e, start - cut)
    <2>1. ASSUME NEW w \in I
          PROVE  /\ w.chapter = e
                 /\ \E v \in ToSet(right) : /\ w.id = v.id /\ w.text = v.text
                                            /\ w.ordinal = v.ordinal + (start - cut)
      <3>1. PICK i \in DOMAIN right : w = g[i]
        BY <1>7
      <3>2. right[i] \in ToSet(right)
        BY DEF ToSet
      <3>. QED
        BY <3>1, <3>2, <1>9
    <2>2. ASSUME NEW v \in ToSet(right)
          PROVE  \E w \in I : w.id = v.id /\ w.ordinal = v.ordinal + (start - cut)
      <3>1. PICK i \in DOMAIN right : v = right[i]
        BY DEF ToSet
      <3>2. g[i] \in I
        BY <1>7
      <3>. QED
        BY <3>1, <3>2, <1>9
    <2>3. ASSUME NEW w \in I, NEW x \in I, w.id = x.id PROVE w = x
      <3>1. PICK i \in DOMAIN right : w = g[i]
        BY <1>7
      <3>2. PICK j \in DOMAIN right : x = g[j]
        BY <1>7
      <3>3. right[i].id = right[j].id /\ right[i] \in A /\ right[j] \in A
        BY <2>3, <3>1, <3>2, <1>4, <1>9
      <3>4. right[i] = right[j]
        BY <3>3, <1>0
      <3>5. i = j
        <4>1. right[i].ordinal = cut + i - 1 /\ right[j].ordinal = cut + j - 1
          BY <1>4
        <4>. QED
          BY <3>4, <4>1, <1>0, <1>3
      <3>. QED
        BY <3>1, <3>2, <3>5
    <2>. QED
      BY <2>1, <2>2, <2>3 DEF Carried
  <1>11. I \subseteq Row /\ \A v \in I : v.to = Now /\ v.from = revision
    <2>1. ASSUME NEW v \in I PROVE v \in Row /\ v.to = Now /\ v.from = revision
      BY <1>7, <1>9
    <2>. QED
      BY <2>1
  <1>. QED
    BY <1>6, <1>8, <1>10, <1>11 DEF A, I

(* The identifiers in use when a request begins.                           *)
LEMMA IdsInUse ==
    ASSUME Sound(db), db = saved, \A t \in Threads : thread[t] = Idle \/ Sized(thread[t])
    PROVE  /\ DOMAIN db.chapters \subseteq ChapterIds
           /\ ChapterIds \in SUBSET Nat /\ IsFiniteSet(ChapterIds)
           /\ BlockIds \in SUBSET Nat /\ IsFiniteSet(BlockIds)
           /\ \A v \in db.versions : v.id \in BlockIds
  <1>. DEFINE U == {u \in Threads : thread[u] # Idle}
              blocks == [u \in U |-> {v.id : v \in thread[u].insert}]
              chapters == [u \in U |-> DOMAIN thread[u].ordinals]
  <1>1. IsFiniteSet(U)
    <2>1. IsFiniteSet(Threads) /\ U \subseteq Threads
      BY ChaptersAssumption
    <2>. QED
      BY <2>1, FS_Subset
  <1>2. ASSUME NEW u \in U
        PROVE  /\ blocks[u] \in SUBSET Nat /\ IsFiniteSet(blocks[u])
               /\ chapters[u] \in SUBSET Nat /\ IsFiniteSet(chapters[u])
    <2>1. /\ thread[u].insert \subseteq Row /\ IsFiniteSet(thread[u].insert)
          /\ thread[u].ordinals \in Order /\ IsFiniteSet(DOMAIN thread[u].ordinals)
      BY DEF Sized, Change
    <2>2. \A v \in thread[u].insert : v.id \in Nat
      BY <2>1 DEF Row
    <2>3. IsFiniteSet({v.id : v \in thread[u].insert})
      <3>. DEFINE S == thread[u].insert
                  f == [v \in S |-> v.id]
      <3>1. {v.id : v \in S} = {f[v] : v \in S} /\ IsFiniteSet(S)
        BY <2>1
      <3>. HIDE DEF S, f
      <3>2. IsFiniteSet({f[v] : v \in S})
        BY <3>1, Images
      <3>. QED
        BY <3>1, <3>2 DEF S
    <2>4. DOMAIN thread[u].ordinals \subseteq Nat
      BY <2>1, OrderIs
    <2>. QED
      BY <2>1, <2>2, <2>3, <2>4
  <1>3. /\ BlockIds = {v.id : v \in db.versions} \cup UNION {blocks[u] : u \in U}
        /\ ChapterIds = DOMAIN db.chapters \cup UNION {chapters[u] : u \in U}
    BY DEF BlockIds, ChapterIds
  <1>. HIDE DEF U, blocks, chapters
  <1>4. IsFiniteSet(UNION {blocks[u] : u \in U}) /\ IsFiniteSet(UNION {chapters[u] : u \in U})
    <2>1. IsFiniteSet({blocks[u] : u \in U}) /\ IsFiniteSet({chapters[u] : u \in U})
      BY <1>1, Images
    <2>2. \A S \in {blocks[u] : u \in U} : IsFiniteSet(S)
      BY <1>2
    <2>3. \A S \in {chapters[u] : u \in U} : IsFiniteSet(S)
      BY <1>2
    <2>. QED
      BY <2>1, <2>2, <2>3, FS_UNION
  <1>5. {v.id : v \in db.versions} \in SUBSET Nat /\ IsFiniteSet({v.id : v \in db.versions})
    <2>. DEFINE f == [v \in db.versions |-> v.id]
    <2>1. {v.id : v \in db.versions} = {f[v] : v \in db.versions} /\ IsFiniteSet(db.versions)
      BY DEF Sound
    <2>2. \A v \in db.versions : v.id \in Nat
      BY DEF Sound, Database, Row
    <2>. HIDE DEF f
    <2>3. IsFiniteSet({f[v] : v \in db.versions})
      BY <2>1, Images
    <2>. QED
      BY <2>1, <2>2, <2>3
  <1>6. DOMAIN db.chapters \subseteq Nat /\ IsFiniteSet(DOMAIN db.chapters)
    BY OrderIs DEF Sound, Database
  <1>7. BlockIds \in SUBSET Nat /\ ChapterIds \in SUBSET Nat
    BY <1>2, <1>3, <1>5, <1>6
  <1>8. IsFiniteSet(BlockIds)
    BY <1>3, <1>4, <1>5, FS_Union
  <1>9. IsFiniteSet(ChapterIds)
    BY <1>3, <1>4, <1>6, FS_Union
  <1>. QED
    BY <1>3, <1>7, <1>8, <1>9

LEMMA NewId ==
    ASSUME NEW used \in SUBSET Nat, IsFiniteSet(used)
    PROVE  Fresh(used, {1})[1] \in Nat \ used
  <1>1. IsFiniteSet({1})
    BY FS_Singleton
  <1>2. Fresh(used, {1}) \in [{1} -> Nat \ used]
    BY <1>1, FreshIs
  <1>. QED
    BY <1>2
-----------------------------------------------------------------------------
(* Every request works out changes that fit.                               *)

(* A request that begins when no other has sent rows.                      *)
Ready == Sound(db) /\ db = saved /\ \A t \in Threads : thread[t] = Idle \/ Sized(thread[t])

Plans(t) == \E w : /\ w.pc = "planned" /\ Fits(w, db)
                   /\ thread' = [thread EXCEPT ![t] = w]
                   /\ UNCHANGED <<db, saved>>

Fitting(op, bumps, close, insert, ordinals) ==
    /\ op \in Ops /\ bumps \in BOOLEAN
    /\ op \in Edits => bumps
    /\ op = "update" => ~bumps /\ DOMAIN ordinals = {}
    /\ close \in SUBSET Row /\ insert \in SUBSET Row /\ ordinals \in Order
    /\ IsFiniteSet(insert) /\ IsFiniteSet(DOMAIN ordinals)
    /\ \A v \in insert : v.to = Now /\ v.from = IF bumps THEN db.rev + 1 ELSE db.rev
    /\ op = "ingest" => close = db.versions /\ ~bumps /\ (db.rev = 0 \/ DOMAIN db.chapters = {})
    /\ op # "ingest" => close \subseteq CurrentRows(db)
    /\ op # "ingest" /\ ~bumps => close = {} /\ insert = {}
    /\ Tree((CurrentRows(db) \ close) \cup insert,
            Over(ordinals, IF op = "ingest" THEN <<>> ELSE db.chapters))
    /\ op \in Moves => Kept(CurrentRows(db), db.chapters,
                           (CurrentRows(db) \ close) \cup insert, Over(ordinals, db.chapters))

LEMMA PlanFits ==
    ASSUME Ready, NEW t, NEW op, NEW bumps, NEW close, NEW insert, NEW ordinals,
           Plan(t, op, bumps, close, insert, ordinals),
           Fitting(op, bumps, close, insert, ordinals)
    PROVE  Plans(t)
  <1>. DEFINE r == IF bumps THEN db.rev + 1 ELSE db.rev
              w == [pc |-> "planned", op |-> op, bumps |-> bumps, revision |-> r,
                    close |-> close, insert |-> insert, ordinals |-> ordinals]
  <1>1. r \in Nat
    BY DEF Ready, Sound, Database
  <1>2. /\ w.pc = "planned" /\ w.op = op /\ w.bumps = bumps /\ w.revision = r
        /\ w.close = close /\ w.insert = insert /\ w.ordinals = ordinals
    OBVIOUS
  <1>3. bumps => r = db.rev + 1
    OBVIOUS
  <1>4. thread' = [thread EXCEPT ![t] = w] /\ UNCHANGED <<db, saved>>
    BY DEF Plan
  <1>5. \A v \in insert : v.to = Now /\ v.from = r
    BY DEF Fitting
  <1>. HIDE DEF r
  <1>6. w \in Change
    BY <1>1 DEF Change, Fitting
  <1>. HIDE DEF w
  <1>8. Sized(w)
    BY <1>2, <1>6 DEF Sized, Fitting
  <1>7. Fits(w, db)
    BY <1>2, <1>3, <1>5, <1>8 DEF Fits, Fitting
  <1>. QED
    BY <1>2, <1>4, <1>7 DEF Plans

(* What an edit has to show.                                               *)
LEMMA Bumping ==
    ASSUME NEW op \in Edits, NEW close \in SUBSET Row, NEW insert \in SUBSET Row,
           NEW ordinals \in Order, IsFiniteSet(insert), IsFiniteSet(DOMAIN ordinals),
           \A v \in insert : v.to = Now /\ v.from = db.rev + 1,
           close \subseteq CurrentRows(db),
           Tree((CurrentRows(db) \ close) \cup insert, Over(ordinals, db.chapters)),
           op \in Moves => Kept(CurrentRows(db), db.chapters,
                               (CurrentRows(db) \ close) \cup insert, Over(ordinals, db.chapters))
    PROVE  Fitting(op, TRUE, close, insert, ordinals)
  <1>1. op \in Ops /\ op # "ingest" /\ op # "update"
    BY DEF Ops, Edits, Moves
  <1>. QED
    BY <1>1 DEF Fitting

(* What a request has to show that changes no block.                       *)
LEMMA Keeping ==
    ASSUME NEW op \in {"update", "reorder"}, NEW ordinals \in Order, IsFiniteSet(DOMAIN ordinals),
           op = "update" => DOMAIN ordinals = {},
           Tree(CurrentRows(db), Over(ordinals, db.chapters))
    PROVE  Fitting(op, FALSE, {}, {}, ordinals)
  <1>1. (CurrentRows(db) \ {}) \cup {} = CurrentRows(db)
    OBVIOUS
  <1>2. op \in Ops /\ op # "ingest" /\ op \notin Moves /\ op \notin Edits
    BY DEF Ops, Moves, Edits
  <1>. QED
    BY <1>1, <1>2, FS_EmptySet DEF Fitting

(* What the ingest of a book has to show.                                  *)
LEMMA Replacing ==
    ASSUME NEW insert \in SUBSET Row, IsFiniteSet(insert),
           NEW ordinals \in Order, IsFiniteSet(DOMAIN ordinals),
           db.versions \in SUBSET Row, db.rev = 0 \/ DOMAIN db.chapters = {},
           \A v \in insert : v.to = Now /\ v.from = db.rev,
           (CurrentRows(db) \ db.versions) \cup insert = insert,
           Over(ordinals, <<>>) = ordinals, Tree(insert, ordinals)
    PROVE  Fitting("ingest", FALSE, db.versions, insert, ordinals)
  BY DEF Fitting, Ops, Moves, Edits

LEMMA NothingOver == ASSUME NEW f \in Order PROVE Over(<<>>, f) = f
  <1>1. DOMAIN <<>> = {} /\ f = [c \in DOMAIN f |-> f[c]]
    BY NoOrder, OrderIs
  <1>. QED
    BY <1>1 DEF Over

LEMMA ReplacedIs ==
    ASSUME NEW text \in Seq(Nat), NEW r, r[1] \in Nat, r[2] \in Seq(Nat)
    PROVE  Replaced(text, r) \in Seq(Nat)
  <1>. DEFINE ss == [i \in DOMAIN text |-> IF text[i] = r[1] THEN r[2] ELSE <<text[i]>>]
  <1>1. DOMAIN text = 1..Len(text) /\ Len(text) \in Nat /\ \A i \in 1..Len(text) : text[i] \in Nat
    OBVIOUS
  <1>2. \A i \in 1..Len(text) : <<text[i]>> \in Seq(Nat)
    BY <1>1
  <1>3. ss \in [1..Len(text) -> Seq(Nat)]
    BY <1>1, <1>2
  <1>. HIDE DEF ss
  <1>4. ss \in Seq(Seq(Nat))
    <2>1. Len(text) \in Nat
      BY <1>1
    <2>. QED
      BY <2>1, <1>3, FunctionSeq
  <1>5. FlattenSeq(ss) \in Seq(Nat)
    BY <1>4, Flattened
  <1>. QED
    BY <1>5 DEF Replaced, ss

LEMMA MergePlans == ASSUME Ready, NEW t, Merge(t) PROVE Plans(t)
  <1>1. PICK a \in Live(db), b \in Live(db) :
          /\ db.chapters[b] = db.chapters[a] + 1
          /\ LET moved == CurrentBlocks(db, b)
             IN  Plan(t, "merge", TRUE, ToSet(moved),
                      Reversioned(moved, a, Len(CurrentBlocks(db, a)), db.rev + 1),
                      Removed(b))
    BY DEF Merge
  <1>. DEFINE R == CurrentRows(db)
              f == db.chapters
              moved == CurrentBlocks(db, b)
              I(m) == Reversioned(moved, a, m, db.rev + 1)
  <1>2. /\ Sound(db) /\ f \in Order /\ db.rev \in Nat /\ R \subseteq Row /\ Tree(R, f)
        /\ Live(db) = LiveIn(f) /\ IsFiniteSet(Live(db))
        /\ \A c : Current(db, c) = In(R, c)
        /\ \A v, w \in R : v.id = w.id => v = w
    BY SoundTree DEF Ready, Sound
  <1>3. PICK m \in Nat : Numbered(In(R, a), m)
    BY <1>2, SoundTree
  <1>4. PICK n \in Nat : Numbered(In(R, b), n)
    BY <1>2, SoundTree
  <1>5. PICK k \in Nat : Seated(f, k)
    BY <1>2, SoundTree
  <1>6. Len(CurrentBlocks(db, a)) = m
    BY <1>2, <1>3, BlocksOf
  <1>7. moved \in Seq(Row) /\ moved = SubSeq(moved, 0 + 1, Len(moved))
    <2>1. moved \in [1..n -> In(R, b)] /\ Len(moved) = n
      BY <1>2, <1>4, BlocksOf
    <2>2. moved \in Seq(Row)
      BY <2>1, <1>2 DEF In
    <2>. QED
      BY <2>2, SubSeqFull
  <1>8. /\ ToSet(moved) = {v \in In(R, b) : v.ordinal >= 0}
        /\ Carried(I(m), ToSet(moved), a, m - 0)
        /\ I(m) \subseteq Row /\ IsFiniteSet(I(m))
        /\ \A v \in I(m) : v.to = Now /\ v.from = db.rev + 1
    <2>1. From(db, b, n, 0, moved)
      <3>1. Numbered(Current(db, b), n) /\ 0 \in 0..n
        BY <1>2, <1>4
      <3>2. \A v \in Current(db, b) : v \in R
        BY <1>2 DEF In
      <3>. HIDE DEF R, moved
      <3>3. /\ Current(db, b) \subseteq Row
            /\ \A v, w \in Current(db, b) : v.id = w.id => v = w
        BY <3>2, <1>2
      <3>. QED
        BY <3>1, <3>3, <1>7 DEF From, moved
    <2>2. a \in Nat /\ db.rev + 1 \in Nat
      BY <1>2, OrderIs DEF LiveIn
    <2>. HIDE DEF moved
    <2>3. /\ ToSet(moved) = {v \in Current(db, b) : v.ordinal >= 0}
          /\ Carried(Reversioned(moved, a, m, db.rev + 1), ToSet(moved), a, m - 0)
          /\ Reversioned(moved, a, m, db.rev + 1) \subseteq Row
          /\ IsFiniteSet(Reversioned(moved, a, m, db.rev + 1))
          /\ \A v \in Reversioned(moved, a, m, db.rev + 1) : v.to = Now /\ v.from = db.rev + 1
      BY <2>1, <2>2, ReversionedIs
    <2>. QED
      BY <2>3, <1>2
  <1>9. ToSet(moved) = In(R, b) /\ Carried(I(m), In(R, b), a, m)
    <2>1. In(R, b) = {v \in In(R, b) : v.ordinal >= 0}
      BY <1>4 DEF Numbered
    <2>2. m - 0 = m
      OBVIOUS
    <2>. HIDE DEF R, moved, I
    <2>. QED
      BY <2>1, <2>2, <1>8
  <1>10. /\ Removed(b) \in Order /\ Over(Removed(b), f) \in Order
         /\ LiveIn(Over(Removed(b), f)) = LiveIn(f) \ {b}
         /\ \A c \in LiveIn(f) \ {b} :
              Over(Removed(b), f)[c] = IF f[c] > f[b] THEN f[c] - 1 ELSE f[c]
         /\ \E j \in Nat : Seated(Over(Removed(b), f), j)
    <2>. DEFINE S == {0} \cup {f[c] : c \in DOMAIN f}
    <2>1. S \in SUBSET Int /\ S # {} /\ 0 \in S
      BY <1>2, OrderIs
    <2>2. IsFiniteSet(S)
      <3>1. IsFiniteSet({f[c] : c \in DOMAIN f})
        BY <1>2, Images DEF Sound
      <3>. QED
        BY <3>1, FS_Singleton, FS_Union
    <2>. HIDE DEF S
    <2>3. Min(S) \in Int /\ Min(S) <= 0
      BY <2>1, <2>2, MinIs
    <2>4. Tombstone \in Int /\ Tombstone < 0
      BY <2>3 DEF Tombstone, S
    <2>5. Removed(b) = [l \in {c \in LiveIn(f) : f[c] >= f[b]} |->
                          IF l = b THEN Tombstone ELSE f[l] - 1]
      BY <1>2 DEF Removed
    <2>6. b \in LiveIn(f)
      BY <1>2
    <2>. HIDE DEF f
    <2>. QED
      BY <1>2, <1>5, <2>4, <2>5, <2>6, RemovedSeats
  <1>11. a # b /\ a \in LiveIn(f) /\ b \in LiveIn(f)
    <2>1. f[a] \in Int
      BY <1>2, OrderIs DEF LiveIn
    <2>. QED
      BY <2>1, <1>1, <1>2
  <1>12. Tree((R \ In(R, b)) \cup I(m), Over(Removed(b), f))
    <2>. HIDE DEF R, I, f
    <2>. QED
      BY <1>2, <1>3, <1>9, <1>10, <1>11, MergedTree
  <1>16. Kept(R, f, (R \ In(R, b)) \cup I(m), Over(Removed(b), f))
    <2>. DEFINE h == Over(Removed(b), f)
    <2>1. f[b] = f[a] + 1 /\ R \in SUBSET Row
      BY <1>1, <1>2
    <2>2. /\ LiveIn(h) = LiveIn(f) \ {b}
          /\ \A c \in LiveIn(f) \ {b} : h[c] = IF f[c] > f[b] THEN f[c] - 1 ELSE f[c]
      BY <1>10
    <2>. HIDE DEF R, I, f, h
    <2>3. Divides((R \ In(R, b)) \cup I(m), h, R, f, a, b)
      BY <2>1, <2>2, <1>2, <1>3, <1>9, <1>11, MergeDivides
    <2>. QED
      BY <2>3, DividedKept DEF h
  <1>13. Plan(t, "merge", TRUE, In(R, b), I(m), Removed(b))
    BY <1>1, <1>6, <1>9
  <1>14. IsFiniteSet(DOMAIN Removed(b))
    <2>1. DOMAIN Removed(b) \subseteq Live(db)
      BY DEF Removed
    <2>. QED
      BY <2>1, <1>2, FS_Subset
  <1>15. /\ In(R, b) \in SUBSET Row /\ In(R, b) \subseteq R
         /\ I(m) \in SUBSET Row
    BY <1>2, <1>8 DEF In
  <1>. HIDE DEF R, I, f
  <1>. QED
    <2>1. Fitting("merge", TRUE, In(R, b), I(m), Removed(b))
      <3>1. \A v \in I(m) : v.to = Now /\ v.from = db.rev + 1
        BY <1>8
      <3>2. /\ In(R, b) \in SUBSET Row /\ I(m) \in SUBSET Row /\ Removed(b) \in Order
            /\ IsFiniteSet(I(m)) /\ IsFiniteSet(DOMAIN Removed(b))
        BY <1>8, <1>10, <1>14, <1>15
      <3>3. In(R, b) \subseteq CurrentRows(db)
        BY <1>15 DEF R
      <3>4. /\ Tree((CurrentRows(db) \ In(R, b)) \cup I(m), Over(Removed(b), db.chapters))
            /\ Kept(CurrentRows(db), db.chapters,
                    (CurrentRows(db) \ In(R, b)) \cup I(m), Over(Removed(b), db.chapters))
        BY <1>12, <1>16 DEF R, f
      <3>. QED
        <4>1. "merge" \in Edits
          BY DEF Edits, Moves
        <4>. HIDE DEF I
        <4>. QED
          BY <3>1, <3>2, <3>3, <3>4, <4>1, Bumping
    <2>. QED
      BY <2>1, <1>13, PlanFits

LEMMA ReadyIs ==
    ASSUME Ready
    PROVE  /\ Sound(db) /\ db.chapters \in Order /\ db.rev \in Nat
           /\ CurrentRows(db) \subseteq Row /\ Tree(CurrentRows(db), db.chapters)
           /\ Live(db) = LiveIn(db.chapters) /\ IsFiniteSet(Live(db)) /\ Live(db) \subseteq Nat
           /\ \A c : Current(db, c) = In(CurrentRows(db), c)
           /\ \A v, w \in CurrentRows(db) : v.id = w.id => v = w
           /\ \A c \in Live(db) : \E n \in Nat : Numbered(In(CurrentRows(db), c), n)
           /\ \E n \in Nat : Seated(db.chapters, n) /\ Cardinality(Live(db)) = n
  <1>1. Sound(db)
    BY DEF Ready
  <1>2. Live(db) \subseteq Nat
    BY <1>1, SoundTree, OrderIs DEF LiveIn
  <1>3. Tree(CurrentRows(db), db.chapters)
    BY <1>1 DEF Sound
  <1>. QED
    BY <1>1, <1>2, <1>3, SoundTree

LEMMA FromIs ==
    ASSUME Ready, NEW c \in Live(db), NEW n \in Nat, Numbered(In(CurrentRows(db), c), n),
           NEW cut \in 0..n
    PROVE  /\ Len(CurrentBlocks(db, c)) = n
           /\ From(db, c, n, cut, SubSeq(CurrentBlocks(db, c), cut + 1, n))
  <1>1. Numbered(Current(db, c), n)
    BY ReadyIs
  <1>2. Len(CurrentBlocks(db, c)) = n
    BY <1>1, BlocksOf
  <1>3. \A v \in Current(db, c) : v \in CurrentRows(db)
    BY ReadyIs DEF In
  <1>4. /\ Current(db, c) \subseteq Row
        /\ \A v, w \in Current(db, c) : v.id = w.id => v = w
    BY <1>3, ReadyIs
  <1>. QED
    BY <1>1, <1>2, <1>4 DEF From

LEMMA ShiftedIs ==
    ASSUME Ready, NEW c \in Live(db), NEW new \in Nat \ DOMAIN db.chapters
    PROVE  LET h == Over(Shifted(c, new), db.chapters)
           IN  /\ Shifted(c, new) \in Order /\ IsFiniteSet(DOMAIN Shifted(c, new))
               /\ h \in Order /\ LiveIn(h) = LiveIn(db.chapters) \cup {new}
               /\ \E n \in Nat : Seated(h, n)
               /\ h[new] = db.chapters[c] + 1 /\ db.chapters[c] \in Int
               /\ \A l \in LiveIn(db.chapters) :
                    h[l] = IF db.chapters[l] > db.chapters[c] THEN db.chapters[l] + 1
                           ELSE db.chapters[l]
  <1>. DEFINE f == db.chapters
              g == Shifted(c, new)
  <1>1. g = [k \in {new} \cup {l \in LiveIn(f) : f[l] > f[c]} |->
               IF k = new THEN f[c] + 1 ELSE f[k] + 1]
    BY ReadyIs DEF Shifted
  <1>2. IsFiniteSet(DOMAIN g)
    <2>1. {l \in LiveIn(f) : f[l] > f[c]} \subseteq Live(db)
      BY ReadyIs
    <2>2. IsFiniteSet({l \in LiveIn(f) : f[l] > f[c]}) /\ IsFiniteSet({new})
      BY <2>1, ReadyIs, FS_Subset, FS_Singleton
    <2>3. DOMAIN g = {new} \cup {l \in LiveIn(f) : f[l] > f[c]}
      BY <1>1
    <2>. QED
      BY <2>2, <2>3, FS_Union
  <1>3. PICK n \in Nat : Seated(f, n)
    BY ReadyIs
  <1>4. f \in Order /\ c \in LiveIn(f) /\ new \in Nat \ DOMAIN f
    BY ReadyIs
  <1>6. f[c] \in Int
    BY <1>4, OrderIs DEF LiveIn
  <1>. HIDE DEF f, g
  <1>5. /\ g \in Order /\ Over(g, f) \in Order /\ LiveIn(Over(g, f)) = LiveIn(f) \cup {new}
        /\ Seated(Over(g, f), n + 1) /\ Over(g, f)[new] = f[c] + 1
        /\ \A l \in LiveIn(f) : Over(g, f)[l] = IF f[l] > f[c] THEN f[l] + 1 ELSE f[l]
    BY <1>1, <1>3, <1>4, ShiftedSeats
  <1>. QED
    BY <1>2, <1>5, <1>6, n + 1 \in Nat DEF f, g

LEMMA SplitAtBoundaryPlans == ASSUME Ready, NEW t, SplitAtBoundary(t) PROVE Plans(t)
  <1>. DEFINE R == CurrentRows(db)
              f == db.chapters
              new == Fresh(ChapterIds, {1})[1]
  <1>0. PICK c \in Live(db) : \E cut \in 1..Len(CurrentBlocks(db, c)) - 1 :
          Plan(t, "split", TRUE,
               ToSet(SubSeq(CurrentBlocks(db, c), cut + 1, Len(CurrentBlocks(db, c)))),
               Reversioned(SubSeq(CurrentBlocks(db, c), cut + 1, Len(CurrentBlocks(db, c))),
                           new, 0, db.rev + 1),
               Shifted(c, new))
    BY DEF SplitAtBoundary
  <1>1. PICK cut \in 1..Len(CurrentBlocks(db, c)) - 1 :
          Plan(t, "split", TRUE,
               ToSet(SubSeq(CurrentBlocks(db, c), cut + 1, Len(CurrentBlocks(db, c)))),
               Reversioned(SubSeq(CurrentBlocks(db, c), cut + 1, Len(CurrentBlocks(db, c))),
                           new, 0, db.rev + 1),
               Shifted(c, new))
    BY <1>0
  <1>2. PICK n \in Nat : Numbered(In(R, c), n)
    BY ReadyIs
  <1>. DEFINE right == SubSeq(CurrentBlocks(db, c), cut + 1, n)
              I == Reversioned(right, new, 0, db.rev + 1)
              M == {v \in In(R, c) : v.ordinal >= cut}
              h == Over(Shifted(c, new), f)
  <1>3. Len(CurrentBlocks(db, c)) = n
    BY <1>2, FromIs, 0 \in 0..n
  <1>4. cut \in 0..n
    BY <1>3
  <1>5. From(db, c, n, cut, right)
    BY <1>2, <1>4, FromIs
  <1>6. new \in Nat \ DOMAIN f
    BY IdsInUse, NewId DEF Ready
  <1>. HIDE DEF new, right
  <1>7. /\ ToSet(right) = M
        /\ Carried(I, M, new, 0 - cut)
        /\ I \subseteq Row /\ IsFiniteSet(I)
        /\ \A v \in I : v.to = Now /\ v.from = db.rev + 1
    <2>1. new \in Nat /\ 0 \in Nat /\ db.rev + 1 \in Nat
      BY <1>6, ReadyIs
    <2>2. /\ ToSet(right) = {v \in Current(db, c) : v.ordinal >= cut}
          /\ Carried(I, ToSet(right), new, 0 - cut)
          /\ I \subseteq Row /\ IsFiniteSet(I)
          /\ \A v \in I : v.to = Now /\ v.from = db.rev + 1
      BY <2>1, <1>5, ReversionedIs
    <2>3. Current(db, c) = In(R, c)
      BY ReadyIs
    <2>. HIDE DEF I
    <2>. QED
      BY <2>2, <2>3
  <1>8. /\ Shifted(c, new) \in Order /\ IsFiniteSet(DOMAIN Shifted(c, new))
        /\ h \in Order /\ LiveIn(h) = LiveIn(f) \cup {new}
        /\ \E j \in Nat : Seated(h, j)
        /\ h[new] = f[c] + 1 /\ f[c] \in Int
        /\ \A l \in LiveIn(f) : h[l] = IF f[l] > f[c] THEN f[l] + 1 ELSE f[l]
    BY <1>6, ShiftedIs
  <1>9. M \in SUBSET Row /\ M \subseteq R
    BY ReadyIs DEF In
  <1>10. Plan(t, "split", TRUE, M, I, Shifted(c, new))
    BY <1>1, <1>3, <1>7 DEF right
  <1>. HIDE DEF I
  <1>11. Tree((R \ M) \cup I, h)
    <2>1. /\ f \in Order /\ Tree(R, f) /\ c \in LiveIn(f) /\ new \notin LiveIn(f)
      BY <1>6, ReadyIs DEF LiveIn
    <2>2. Numbered({}, 0) /\ 0 \in Nat
      BY DEF Numbered
    <2>3. M = {v \in In(R, c) : v.ordinal >= cut}
      OBVIOUS
    <2>. HIDE DEF R, f, h, M
    <2>4. Tree((R \ M) \cup {} \cup I, h)
      BY <2>1, <2>2, <2>3, <1>2, <1>4, <1>7, <1>8, SplitTree
    <2>. QED
      BY <2>4
  <1>13. Kept(R, f, (R \ M) \cup I, h)
    <2>. DEFINE A == In(R, c)
    <2>1. A \in SUBSET Row /\ \A v, w \in A : v.id = w.id => v = w
      BY ReadyIs DEF In
    <2>2. Tree(R, f) /\ c \in LiveIn(f) /\ new \notin LiveIn(f)
      BY <1>6, ReadyIs DEF LiveIn
    <2>3. M = {v \in A : v.ordinal >= cut} /\ M \subseteq A
      OBVIOUS
    <2>. HIDE DEF R, f, h, M, A
    <2>4. PICK s \in Seq(Seq(Nat)) : Reads(A, s) /\ Len(s) = n
      BY <2>1, <1>2, SomeReading DEF A
    <2>5. Reads({}, <<>>) /\ Len(<<>>) = 0
      BY DEF Reads, Numbered
    <2>6. cut \in 0..Len(s) /\ Carried(I, M, new, Len(<<>>) - cut)
      BY <2>4, <2>5, <1>4, <1>7
    <2>7. /\ Reads(A \ M, SubSeq(s, 1, cut))
          /\ Reads({} \cup I, <<>> \o SubSeq(s, cut + 1, Len(s)))
      BY <2>1, <2>3, <2>4, <2>5, <2>6, ReadApart
    <2>8. Apart(s, SubSeq(s, 1, cut), <<>> \o SubSeq(s, cut + 1, Len(s)))
      BY <2>4, <2>6, CutBetween
    <2>9. /\ \A l \in LiveIn(f) \ {c} : In(R, l) = In(R, l)
          /\ \A v \in {} : v.chapter = new
      OBVIOUS
    <2>10. Divides(R, f, (R \ M) \cup {} \cup I, h, c, new)
      BY <2>2, <2>3, <2>4, <2>7, <2>8, <2>9, <1>7, <1>8, SplitDivides DEF A
    <2>11. (R \ M) \cup {} \cup I = (R \ M) \cup I
      OBVIOUS
    <2>. QED
      BY <2>10, <2>11, DividedKept
  <1>12. Fitting("split", TRUE, M, I, Shifted(c, new))
    <2>1. "split" \in Edits
      BY DEF Edits, Moves
    <2>. HIDE DEF M
    <2>2. /\ M \subseteq CurrentRows(db)
          /\ Tree((CurrentRows(db) \ M) \cup I, Over(Shifted(c, new), db.chapters))
          /\ Kept(CurrentRows(db), db.chapters, (CurrentRows(db) \ M) \cup I,
                  Over(Shifted(c, new), db.chapters))
      BY <1>9, <1>11, <1>13
    <2>. HIDE DEF R, f, h
    <2>. QED
      BY <2>1, <2>2, <1>7, <1>8, <1>9, Bumping
  <1>. HIDE DEF M, R, f
  <1>. QED
    BY <1>10, <1>12, PlanFits

LEMMA SplitInsidePlans == ASSUME Ready, NEW t, SplitInside(t) PROVE Plans(t)
  <1>. DEFINE R == CurrentRows(db)
              f == db.chapters
              new == Fresh(ChapterIds, {1})[1]
              nid == Fresh(BlockIds, {1})[1]
              left(c, block, offset) ==
                Version(block.id, c, block.ordinal, SubSeq(block.text, 1, offset), db.rev + 1)
              head(block, offset) ==
                Version(nid, new, 0, SubSeq(block.text, offset + 1, Len(block.text)), db.rev + 1)
              rest(c, i) == SubSeq(CurrentBlocks(db, c), i + 1, Len(CurrentBlocks(db, c)))
  <1>1. PICK c \in Live(db) : \E i \in DOMAIN CurrentBlocks(db, c) :
          \E offset \in 1..Len(CurrentBlocks(db, c)[i].text) - 1 :
          Plan(t, "split", TRUE, {CurrentBlocks(db, c)[i]} \cup ToSet(rest(c, i)),
               {left(c, CurrentBlocks(db, c)[i], offset), head(CurrentBlocks(db, c)[i], offset)}
                 \cup Reversioned(rest(c, i), new, 1, db.rev + 1),
               Shifted(c, new))
    BY DEF SplitInside
  <1>2. PICK i \in DOMAIN CurrentBlocks(db, c) :
          \E offset \in 1..Len(CurrentBlocks(db, c)[i].text) - 1 :
          Plan(t, "split", TRUE, {CurrentBlocks(db, c)[i]} \cup ToSet(rest(c, i)),
               {left(c, CurrentBlocks(db, c)[i], offset), head(CurrentBlocks(db, c)[i], offset)}
                 \cup Reversioned(rest(c, i), new, 1, db.rev + 1),
               Shifted(c, new))
    BY <1>1
  <1>. DEFINE block == CurrentBlocks(db, c)[i]
              right == rest(c, i)
              I == Reversioned(right, new, 1, db.rev + 1)
  <1>3. PICK offset \in 1..Len(block.text) - 1 :
          Plan(t, "split", TRUE, {block} \cup ToSet(right),
               {left(c, block, offset), head(block, offset)} \cup I, Shifted(c, new))
    BY <1>2
  <1>. DEFINE L == left(c, block, offset)
              T == head(block, offset)
              M == {v \in In(R, c) : v.ordinal >= i}
              h == Over(Shifted(c, new), f)
  <1>4. PICK n \in Nat : Numbered(In(R, c), n)
    BY ReadyIs
  <1>5. Len(CurrentBlocks(db, c)) = n /\ DOMAIN CurrentBlocks(db, c) = 1..n
    <2>1. Numbered(Current(db, c), n)
      BY <1>4, ReadyIs
    <2>. QED
      BY <2>1, BlocksOf
  <1>6. i \in 1..n /\ i \in 0..n /\ block \in In(R, c) /\ block.ordinal = i - 1
    <2>1. Numbered(Current(db, c), n) /\ Current(db, c) = In(R, c)
      BY <1>4, ReadyIs
    <2>2. i \in 1..n
      BY <1>5
    <2>. QED
      BY <2>1, <2>2, BlocksOf
  <1>7. From(db, c, n, i, right)
    BY <1>4, <1>5, <1>6, FromIs
  <1>8. new \in Nat \ DOMAIN f
    BY IdsInUse, NewId DEF Ready
  <1>9. nid \in Nat \ BlockIds
    BY IdsInUse, NewId DEF Ready
  <1>. HIDE DEF new, nid, right, block
  <1>10. /\ ToSet(right) = M
         /\ Carried(I, M, new, 1 - i)
         /\ I \subseteq Row /\ IsFiniteSet(I)
         /\ \A v \in I : v.to = Now /\ v.from = db.rev + 1
    <2>1. new \in Nat /\ 1 \in Nat /\ db.rev + 1 \in Nat
      BY <1>8, ReadyIs
    <2>2. /\ ToSet(right) = {v \in Current(db, c) : v.ordinal >= i}
          /\ Carried(I, ToSet(right), new, 1 - i)
          /\ I \subseteq Row /\ IsFiniteSet(I)
          /\ \A v \in I : v.to = Now /\ v.from = db.rev + 1
      BY <2>1, <1>7, ReversionedIs
    <2>3. Current(db, c) = In(R, c)
      BY ReadyIs
    <2>. HIDE DEF I
    <2>. QED
      BY <2>2, <2>3
  <1>11. /\ Shifted(c, new) \in Order /\ IsFiniteSet(DOMAIN Shifted(c, new))
         /\ h \in Order /\ LiveIn(h) = LiveIn(f) \cup {new}
         /\ \E j \in Nat : Seated(h, j)
         /\ h[new] = f[c] + 1 /\ f[c] \in Int
         /\ \A l \in LiveIn(f) : h[l] = IF f[l] > f[c] THEN f[l] + 1 ELSE f[l]
    BY <1>8, ShiftedIs
  <1>12. block \in Row /\ block \in R /\ block.chapter = c /\ M \in SUBSET Row /\ M \subseteq R
    BY <1>6, ReadyIs DEF In
  <1>13. /\ SubSeq(block.text, 1, offset) \in Seq(Nat)
         /\ SubSeq(block.text, offset + 1, Len(block.text)) \in Seq(Nat)
    <2>1. block.text \in Seq(Nat)
      BY <1>12 DEF Row
    <2>2. \A j \in 1..offset : block.text[j] \in Nat
      BY <2>1
    <2>3. \A j \in (offset + 1)..Len(block.text) : block.text[j] \in Nat
      BY <2>1
    <2>4. 1 \in Int /\ offset \in Int /\ offset + 1 \in Int /\ Len(block.text) \in Int
      BY <2>1
    <2>. QED
      BY <2>2, <2>3, <2>4, SubSeqProperties
  <1>23. block.text = SubSeq(block.text, 1, offset) \o SubSeq(block.text, offset + 1, Len(block.text))
    <2>1. block.text \in Seq(Nat) /\ offset \in 0..Len(block.text)
      BY <1>12 DEF Row
    <2>. QED
      BY <2>1, Rejoined
  <1>14. /\ L \in Row /\ L.id = block.id /\ L.chapter = c /\ L.ordinal = i - 1
         /\ L.to = Now /\ L.from = db.rev + 1 /\ L.text = SubSeq(block.text, 1, offset)
    <2>1. L = [id |-> block.id, chapter |-> c, ordinal |-> i - 1,
               text |-> SubSeq(block.text, 1, offset), from |-> db.rev + 1, to |-> Now]
      BY <1>6 DEF Version
    <2>2. block.id \in Nat /\ c \in Nat /\ i - 1 \in Nat /\ db.rev + 1 \in Nat
      BY <1>6, <1>12, ReadyIs DEF Row
    <2>. HIDE DEF L
    <2>. QED
      BY <2>1, <2>2, <1>13 DEF Row
  <1>15. /\ T \in Row /\ T.id = nid /\ T.chapter = new /\ T.ordinal = 0
         /\ T.to = Now /\ T.from = db.rev + 1
         /\ T.text = SubSeq(block.text, offset + 1, Len(block.text))
    <2>1. T = [id |-> nid, chapter |-> new, ordinal |-> 0,
               text |-> SubSeq(block.text, offset + 1, Len(block.text)),
               from |-> db.rev + 1, to |-> Now]
      BY DEF Version
    <2>2. nid \in Nat /\ new \in Nat /\ db.rev + 1 \in Nat
      BY <1>8, <1>9, ReadyIs
    <2>. HIDE DEF T
    <2>. QED
      BY <2>1, <2>2, <1>13 DEF Row
  <1>16. \A v \in R : v.id # nid
    <2>1. \A v \in db.versions : v.id \in BlockIds
      BY IdsInUse DEF Ready
    <2>. QED
      BY <2>1, <1>9 DEF CurrentRows
  <1>17. Plan(t, "split", TRUE, {block} \cup M, {L, T} \cup I, Shifted(c, new))
    BY <1>3, <1>10
  <1>. HIDE DEF I, L, T, R, f, h
  <1>. DEFINE S == (R \ {block}) \cup {L}
  <1>18. Tree(S, f) /\ Numbered(In(S, c), n)
    <2>1. SamePlaces({L}, {block})
      BY <1>6, <1>12, <1>14 DEF SamePlaces
    <2>2. Tree(R, f) /\ {block} \in SUBSET R
      BY <1>12, ReadyIs DEF R, f
    <2>. QED
      BY <2>1, <2>2, <1>4, ReplacedTree
  <1>19. M = {v \in In(S, c) : v.ordinal >= i}
    <2>1. \A v \in M : v \in In(S, c) /\ v.ordinal >= i
      BY <1>6 DEF In
    <2>2. \A v \in In(S, c) : v.ordinal >= i => v \in M
      BY <1>6, <1>14 DEF In
    <2>. QED
      BY <2>1, <2>2
  <1>20. Tree((S \ M) \cup {T} \cup I, h)
    <2>1. /\ f \in Order /\ c \in LiveIn(f) /\ new \notin LiveIn(f)
      BY <1>8, ReadyIs DEF LiveIn, f
    <2>2. Numbered({T}, 1) /\ 1 \in Nat
      BY <1>15 DEF Numbered
    <2>3. /\ \A v \in {T} : v.chapter = new
          /\ \A v, w \in {T} : v.id = w.id => v = w
          /\ \A v \in {T}, w \in S : v.id # w.id
      BY <1>12, <1>14, <1>15, <1>16
    <2>. HIDE DEF S, M
    <2>. QED
      BY <2>1, <2>2, <2>3, <1>6, <1>10, <1>11, <1>18, <1>19, SplitTree
  <1>21. (S \ M) \cup {T} \cup I = (R \ ({block} \cup M)) \cup ({L, T} \cup I)
    <2>1. L \notin M
      BY <1>6, <1>14
    <2>. HIDE DEF M
    <2>. QED
      BY <2>1
  <1>24. Kept(R, f, (S \ M) \cup {T} \cup I, h)
    <2>. DEFINE A == In(R, c)
                Z == In(S, c)
    <2>1. /\ A \in SUBSET Row /\ block \in A /\ block.ordinal = i - 1
          /\ \A v, w \in A : v.ordinal = w.ordinal => v = w
          /\ \A v \in A : v.ordinal \in 0..(n - 1)
      BY <1>4, <1>6, ReadyIs DEF In, R, Numbered
    <2>2. Z = (A \ {block}) \cup {L}
      BY <1>12, <1>14 DEF In
    <2>3. \A l \in LiveIn(f) \ {c} : In(S, l) = In(R, l)
      BY <1>12, <1>14 DEF In
    <2>4. /\ Tree(S, f) /\ c \in LiveIn(f) /\ new \notin LiveIn(f)
          /\ \A v, w \in Z : v.id = w.id => v = w
      BY <1>8, <1>18, ReadyIs DEF LiveIn, f, In, Tree
    <2>5. M \subseteq Z
      BY <1>19
    <2>6. PICK s \in Seq(Seq(Nat)) : Reads(A, s) /\ Len(s) = n
      <3>. HIDE DEF A
      <3>. QED
        BY <2>1, <1>4, SomeReading DEF A
    <2>. DEFINE x == [s EXCEPT ![i] = L.text]
    <2>7. Numbered(Z, n) /\ Numbered({T}, 1) /\ M = {v \in Z : v.ordinal >= i}
      <3>1. Numbered({T}, 1)
        BY <1>15 DEF Numbered
      <3>. HIDE DEF S, M
      <3>. QED
        BY <3>1, <1>18, <1>19
    <2>. HIDE DEF A, Z, S, M
    <2>8. s[i] = block.text
      <3>1. (i - 1) + 1 = i
        BY <1>6
      <3>. QED
        BY <2>1, <2>6, <3>1 DEF Reads
    <2>9. L.text \in Seq(Nat) /\ T.text \in Seq(Nat) /\ s[i] = L.text \o T.text
      BY <2>8, <1>13, <1>14, <1>15, <1>23
    <2>10. /\ x \in Seq(Seq(Nat)) /\ Len(x) = n /\ x[i] = L.text
           /\ \A j \in 1..n : j # i => x[j] = s[j]
      BY <2>6, <2>9, <1>6
    <2>. HIDE DEF x
    <2>11. Shortened(s, x, i, T.text)
      BY <2>6, <2>9, <2>10, <1>6 DEF Shortened
    <2>12. Reads(Z, x)
      <3>1. ASSUME NEW v \in Z PROVE x[v.ordinal + 1] = v.text
        <4>1. CASE v = L
          <5>1. v.ordinal + 1 = i
            BY <4>1, <1>6, <1>14
          <5>. QED
            BY <5>1, <4>1, <2>10
        <4>2. CASE v # L
          <5>1. v \in A /\ v # block
            BY <4>2, <2>2
          <5>2. v.ordinal \in 0..(n - 1) /\ v.ordinal # i - 1
            BY <5>1, <2>1
          <5>3. PICK j \in 1..n : j = v.ordinal + 1 /\ j # i
            <6>1. PICK k \in 0..(n - 1) : v.ordinal = k /\ k # i - 1
              BY <5>2
            <6>2. k + 1 \in 1..n /\ k + 1 # i
              BY <6>1, <1>6
            <6>. QED
              BY <6>1, <6>2
          <5>4. s[j] = v.text
            BY <5>1, <5>3, <2>6 DEF Reads
          <5>. QED
            BY <5>3, <5>4, <2>10
        <4>. QED
          BY <4>1, <4>2
      <3>. QED
        BY <3>1, <2>7, <2>10 DEF Reads
    <2>13. Reads({T}, <<T.text>>) /\ Len(<<T.text>>) = 1
      <3>1. <<T.text>> \in Seq(Seq(Nat)) /\ Len(<<T.text>>) = 1 /\ <<T.text>>[1] = T.text
        BY <2>9
      <3>2. T.ordinal + 1 = 1
        BY <1>15
      <3>. QED
        BY <3>1, <3>2, <2>7 DEF Reads
    <2>14. i \in 0..Len(x) /\ Carried(I, M, new, Len(<<T.text>>) - i)
      BY <2>10, <2>13, <1>6, <1>10
    <2>15. /\ Reads(Z \ M, SubSeq(x, 1, i))
           /\ Reads({T} \cup I, <<T.text>> \o SubSeq(x, i + 1, Len(x)))
      BY <2>4, <2>7, <2>12, <2>13, <2>14, ReadApart
    <2>16. Apart(s, SubSeq(x, 1, i), <<T.text>> \o SubSeq(x, i + 1, Len(x)))
      BY <2>11, CutWithin
    <2>17. \A v \in {T} : v.chapter = new
      BY <1>15
    <2>18. Divides(R, f, (S \ M) \cup {T} \cup I, h, c, new)
      BY <2>3, <2>4, <2>5, <2>6, <2>14, <2>15, <2>16, <2>17, <1>11, SplitDivides DEF A, Z
    <2>. QED
      BY <2>18, DividedKept
  <1>22. Fitting("split", TRUE, {block} \cup M, {L, T} \cup I, Shifted(c, new))
    <2>1. "split" \in Edits
      BY DEF Edits, Moves
    <2>. HIDE DEF M
    <2>2. {block} \cup M \in SUBSET Row /\ {block} \cup M \subseteq CurrentRows(db)
      BY <1>12 DEF R
    <2>3. {L, T} \cup I \in SUBSET Row
      BY <1>10, <1>14, <1>15
    <2>4. \A v \in {L, T} \cup I : v.to = Now /\ v.from = db.rev + 1
      BY <1>10, <1>14, <1>15
    <2>5. IsFiniteSet({L, T} \cup I)
      <3>1. IsFiniteSet({L, T})
        <4>1. IsFiniteSet({L}) /\ IsFiniteSet({T})
          BY FS_Singleton
        <4>2. IsFiniteSet({L} \cup {T})
          BY <4>1, FS_Union
        <4>3. {L} \cup {T} = {L, T}
          OBVIOUS
        <4>. QED
          BY <4>2, <4>3
      <3>. QED
        BY <3>1, <1>10, FS_Union
    <2>. HIDE DEF S
    <2>6. /\ Tree((CurrentRows(db) \ ({block} \cup M)) \cup ({L, T} \cup I),
                  Over(Shifted(c, new), db.chapters))
          /\ Kept(CurrentRows(db), db.chapters,
                  (CurrentRows(db) \ ({block} \cup M)) \cup ({L, T} \cup I),
                  Over(Shifted(c, new), db.chapters))
      BY <1>20, <1>21, <1>24 DEF R, h, f
    <2>. QED
      BY <2>1, <2>2, <2>3, <2>4, <2>5, <2>6, <1>11, Bumping
  <1>. HIDE DEF M, S
  <1>. QED
    BY <1>17, <1>22, PlanFits

LEMMA ReplacePlans == ASSUME Ready, NEW t, Replace(t) PROVE Plans(t)
  <1>1. PICK r \in Replacements, scope \in {{c} : c \in Live(db)} \cup {Live(db)} :
          LET edits == {v \in db.versions : /\ v.to = Now
                                            /\ v.chapter \in scope
                                            /\ Replaced(v.text, r) # v.text}
          IN  Plan(t, "replace", TRUE, edits,
                   {Version(v.id, v.chapter, v.ordinal, Replaced(v.text, r), db.rev + 1) :
                      v \in edits},
                   <<>>)
    BY DEF Replace
  <1>. DEFINE edits == {v \in db.versions : /\ v.to = Now
                                            /\ v.chapter \in scope
                                            /\ Replaced(v.text, r) # v.text}
              g == [v \in edits |-> Version(v.id, v.chapter, v.ordinal, Replaced(v.text, r), db.rev + 1)]
              P == {g[v] : v \in edits}
              R == CurrentRows(db)
  <1>2. edits \subseteq R /\ edits \subseteq Row /\ edits \subseteq db.versions
    BY ReadyIs DEF CurrentRows
  <1>3. Plan(t, "replace", TRUE, edits, P, <<>>)
    <2>1. P = {Version(v.id, v.chapter, v.ordinal, Replaced(v.text, r), db.rev + 1) : v \in edits}
      OBVIOUS
    <2>. QED
      BY <1>1, <2>1
  <1>4. ASSUME NEW v \in edits
        PROVE  /\ g[v] \in Row /\ g[v].id = v.id /\ g[v].chapter = v.chapter
               /\ g[v].ordinal = v.ordinal /\ g[v].to = Now /\ g[v].from = db.rev + 1
    <2>1. g[v] = [id |-> v.id, chapter |-> v.chapter, ordinal |-> v.ordinal,
                  text |-> Replaced(v.text, r), from |-> db.rev + 1, to |-> Now]
      BY DEF Version
    <2>2. v.id \in Nat /\ v.chapter \in Nat /\ v.ordinal \in Nat /\ db.rev + 1 \in Nat
      BY <1>2, ReadyIs DEF Row
    <2>3. Replaced(v.text, r) \in Seq(Nat)
      <3>1. v.text \in Seq(Nat) /\ r[1] \in Nat /\ r[2] \in Seq(Nat)
        BY <1>2, ChaptersAssumption DEF Row
      <3>. QED
        BY <3>1, ReplacedIs
    <2>. HIDE DEF g
    <2>. QED
      BY <2>1, <2>2, <2>3 DEF Row
  <1>5. IsFiniteSet(P)
    <2>1. IsFiniteSet(edits)
      BY <1>2, ReadyIs, FS_Subset DEF Sound
    <2>. HIDE DEF edits, g
    <2>. QED
      BY <2>1, Images
  <1>. HIDE DEF edits, g, R
  <1>6. SamePlaces(P, edits)
    <2>1. ASSUME NEW w \in P, NEW x \in P, w.id = x.id PROVE w = x
      <3>1. PICK v \in edits : w = g[v]
        OBVIOUS
      <3>2. PICK u \in edits : x = g[u]
        OBVIOUS
      <3>3. v.id = u.id /\ v \in CurrentRows(db) /\ u \in CurrentRows(db)
        BY <2>1, <3>1, <3>2, <1>2, <1>4 DEF R
      <3>. QED
        BY <3>1, <3>2, <3>3, ReadyIs
    <2>. QED
      BY <2>1, <1>4 DEF SamePlaces
  <1>7. Tree((R \ edits) \cup P, db.chapters)
    <2>1. Tree(R, db.chapters) /\ edits \in SUBSET R
      BY <1>2, ReadyIs DEF R
    <2>. HIDE DEF P
    <2>. QED
      BY <2>1, <1>6, ReplacedTree
  <1>8. \A v \in P : v \in Row /\ v.to = Now /\ v.from = db.rev + 1
    BY <1>4
  <1>. HIDE DEF P
  <1>9. Fitting("replace", TRUE, edits, P, <<>>)
    <2>1. "replace" \in Edits
      BY DEF Edits
    <2>2. Tree((CurrentRows(db) \ edits) \cup P, Over(<<>>, db.chapters))
      BY <1>7, NothingOver, ReadyIs DEF R
    <2>3. edits \in SUBSET Row /\ edits \subseteq CurrentRows(db) /\ P \in SUBSET Row
      BY <1>2, <1>8 DEF R
    <2>. QED
      BY <2>1, <2>2, <2>3, <1>5, <1>8, NoOrder, Bumping DEF Moves
  <1>. QED
    BY <1>3, <1>9, PlanFits

LEMMA UpdatePlans == ASSUME Ready, NEW t, Update(t) PROVE Plans(t)
  <1>1. Plan(t, "update", FALSE, {}, {}, <<>>)
    BY DEF Update
  <1>2. Tree(CurrentRows(db), Over(<<>>, db.chapters))
    BY NothingOver, ReadyIs
  <1>3. Fitting("update", FALSE, {}, {}, <<>>)
    BY <1>2, NoOrder, Keeping
  <1>. QED
    BY <1>1, <1>3, PlanFits

LEMMA ReorderPlans == ASSUME Ready, NEW t, Reorder(t) PROVE Plans(t)
  <1>. DEFINE f == db.chapters
  <1>1. PICK order \in [Live(db) -> 0..Cardinality(Live(db)) - 1] :
          /\ \A a, b \in Live(db) : a # b => order[a] # order[b]
          /\ Plan(t, "reorder", FALSE, {}, {}, order)
    BY DEF Reorder
  <1>2. PICK n \in Nat : Seated(f, n) /\ Cardinality(Live(db)) = n
    BY ReadyIs
  <1>3. /\ order \in [Live(db) -> 0..(n - 1)]
        /\ \A a, b \in Live(db) : a # b => order[a] # order[b]
    BY <1>1, <1>2
  <1>4. \A k \in 0..(n - 1) : \E c \in Live(db) : order[c] = k
    <2>1. order \in Injection(Live(db), 0..(n - 1))
      BY <1>3 DEF Injection, IsInjective
    <2>2. IsFiniteSet(0..(n - 1)) /\ Cardinality(0..(n - 1)) = n
      BY FS_Interval
    <2>3. order \in Surjection(Live(db), 0..(n - 1))
      BY <2>1, <2>2, <1>2, FS_Injection
    <2>. QED
      BY <2>3 DEF Surjection
  <1>5. order \in Order /\ Tree(CurrentRows(db), Over(order, f))
    <2>1. /\ f \in Order /\ Tree(CurrentRows(db), f) /\ IsFiniteSet(LiveIn(f))
          /\ Live(db) = LiveIn(f)
      BY ReadyIs
    <2>. HIDE DEF f
    <2>. QED
      BY <2>1, <1>2, <1>3, <1>4, ReorderedTree
  <1>6. IsFiniteSet(DOMAIN order)
    BY <1>3, ReadyIs
  <1>7. Fitting("reorder", FALSE, {}, {}, order)
    BY <1>5, <1>6, Keeping
  <1>. QED
    BY <1>1, <1>7, PlanFits

LEMMA PutTextPlans == ASSUME Ready, NEW t, PutText(t) PROVE Plans(t)
  <1>. DEFINE R == CurrentRows(db)
              blocksOf(c) == CurrentBlocks(db, c)
              idOf(c, pieces, P, n) ==
                IF \E p \in P : p[1] = n
                THEN blocksOf(c)[(CHOOSE p \in P : p[1] = n)[2]].id
                ELSE Fresh(BlockIds, DOMAIN pieces)[n]
  <1>1. PICK c \in Live(db), pieces \in Drafts :
          \E P \in Associations(blocksOf(c), pieces) :
            Plan(t, "put", TRUE, ToSet(blocksOf(c)),
                 {Version(idOf(c, pieces, P, n), c, n - 1, pieces[n], db.rev + 1) :
                    n \in DOMAIN pieces},
                 <<>>)
    BY DEF PutText
  <1>2. PICK P \in Associations(blocksOf(c), pieces) :
            Plan(t, "put", TRUE, ToSet(blocksOf(c)),
                 {Version(idOf(c, pieces, P, n), c, n - 1, pieces[n], db.rev + 1) :
                    n \in DOMAIN pieces},
                 <<>>)
    BY <1>1
  <1>. DEFINE blocks == blocksOf(c)
              new == Fresh(BlockIds, DOMAIN pieces)
              g == [n \in DOMAIN pieces |->
                      Version(idOf(c, pieces, P, n), c, n - 1, pieces[n], db.rev + 1)]
              Q == {g[n] : n \in DOMAIN pieces}
              m == Len(pieces)
  <1>3. Plan(t, "put", TRUE, ToSet(blocks), Q, <<>>)
    <2>1. Q = {Version(idOf(c, pieces, P, n), c, n - 1, pieces[n], db.rev + 1) :
                 n \in DOMAIN pieces}
      OBVIOUS
    <2>. QED
      BY <1>2, <2>1
  <1>4. /\ DOMAIN pieces = 1..m /\ m \in Nat /\ IsFiniteSet(DOMAIN pieces)
        /\ \A n \in 1..m : pieces[n] \in Seq(Nat)
    <2>1. pieces \in Seq(Seq(Nat))
      BY ChaptersAssumption
    <2>2. DOMAIN pieces = 1..m /\ m \in Nat /\ \A n \in 1..m : pieces[n] \in Seq(Nat)
      BY <2>1
    <2>. QED
      BY <2>2, FS_Interval
  <1>5. PICK k \in Nat : Numbered(In(R, c), k)
    BY ReadyIs
  <1>6. /\ DOMAIN blocks = 1..k
        /\ \A i \in 1..k : blocks[i] \in In(R, c) /\ blocks[i].ordinal = i - 1
        /\ ToSet(blocks) = In(R, c)
    <2>1. Numbered(Current(db, c), k) /\ Current(db, c) = In(R, c)
      BY <1>5, ReadyIs
    <2>2. /\ blocks \in [1..k -> In(R, c)]
          /\ \A i \in 1..k : blocks[i].ordinal = i - 1
          /\ \A v \in In(R, c) : blocks[v.ordinal + 1] = v
      BY <2>1, BlocksOf
    <2>3. \A v \in In(R, c) : v.ordinal + 1 \in 1..k
      <3>1. \A v \in In(R, c) : v.ordinal \in 0..(k - 1)
        BY <1>5 DEF Numbered
      <3>. QED
        BY <3>1
    <2>. HIDE DEF R, blocks
    <2>. QED
      BY <2>2, <2>3 DEF ToSet
  <1>7. /\ new \in [DOMAIN pieces -> Nat \ BlockIds]
        /\ \A i, j \in DOMAIN pieces : new[i] = new[j] => i = j
        /\ BlockIds \subseteq Nat
        /\ \A v \in R : v.id \in BlockIds
    <2>1. /\ BlockIds \in SUBSET Nat /\ IsFiniteSet(BlockIds)
          /\ \A v \in db.versions : v.id \in BlockIds
      BY IdsInUse DEF Ready
    <2>. QED
      BY <2>1, <1>4, FreshIs DEF CurrentRows
  <1>8. /\ P \subseteq (DOMAIN pieces) \X (DOMAIN blocks)
        /\ \A p, q \in P : p # q => p[1] # q[1] /\ p[2] # q[2]
    BY DEF Associations
  <1>. DEFINE id(n) == idOf(c, pieces, P, n)
  <1>. HIDE DEF blocks, new, R
  <1>9. ASSUME NEW n \in DOMAIN pieces
        PROVE  \/ \E i \in 1..k : id(n) = blocks[i].id /\ <<n, i>> \in P
               \/ id(n) = new[n]
    <2>1. CASE \E p \in P : p[1] = n
      <3>. DEFINE q == CHOOSE p \in P : p[1] = n
      <3>1. q \in P /\ q[1] = n
        BY <2>1
      <3>2. id(n) = blocks[q[2]].id
        BY <2>1 DEF blocks
      <3>. HIDE DEF q, id
      <3>3. q[2] \in 1..k /\ q = <<n, q[2]>>
        BY <3>1, <1>6, <1>8
      <3>. QED
        BY <3>1, <3>2, <3>3
    <2>2. CASE ~\E p \in P : p[1] = n
      BY <2>2 DEF new
    <2>. QED
      BY <2>1, <2>2
  <1>10. ASSUME NEW n \in DOMAIN pieces
         PROVE  /\ g[n] = [id |-> id(n), chapter |-> c, ordinal |-> n - 1, text |-> pieces[n],
                            from |-> db.rev + 1, to |-> Now]
                /\ g[n].id = id(n) /\ g[n].chapter = c /\ g[n].ordinal = n - 1
                /\ g[n].from = db.rev + 1 /\ g[n].to = Now
    <2>1. g[n] = [id |-> id(n), chapter |-> c, ordinal |-> n - 1, text |-> pieces[n],
                  from |-> db.rev + 1, to |-> Now]
      BY DEF Version
    <2>. HIDE DEF id, g
    <2>. QED
      BY <2>1
  <1>. HIDE DEF id, g
  <1>11. \A i \in 1..k : blocks[i].id \in BlockIds
    BY <1>6, <1>7 DEF In
  <1>12. ASSUME NEW n \in DOMAIN pieces PROVE g[n] \in Row
    <2>1. id(n) \in Nat
      BY <1>7, <1>9, <1>11
    <2>2. c \in Nat /\ n - 1 \in Nat /\ db.rev + 1 \in Nat /\ pieces[n] \in Seq(Nat)
      BY <1>4, ReadyIs
    <2>3. g[n] = [id |-> id(n), chapter |-> c, ordinal |-> n - 1, text |-> pieces[n],
                  from |-> db.rev + 1, to |-> Now]
      BY <1>10
    <2>. QED
      BY <2>1, <2>2, <2>3 DEF Row
  <1>13. ASSUME NEW i \in DOMAIN pieces, NEW j \in DOMAIN pieces, id(i) = id(j) PROVE i = j
    <2>1. CASE id(i) = new[i] /\ id(j) = new[j]
      BY <2>1, <1>7, <1>13
    <2>2. CASE id(i) = new[i] /\ \E x \in 1..k : id(j) = blocks[x].id
      BY <2>2, <1>7, <1>11, <1>13
    <2>3. CASE id(j) = new[j] /\ \E x \in 1..k : id(i) = blocks[x].id
      BY <2>3, <1>7, <1>11, <1>13
    <2>4. ASSUME NEW x \in 1..k, id(i) = blocks[x].id, <<i, x>> \in P,
                 NEW y \in 1..k, id(j) = blocks[y].id, <<j, y>> \in P
          PROVE  i = j
      <3>1. blocks[x] = blocks[y]
        <4>1. blocks[x] \in R /\ blocks[y] \in R /\ blocks[x].id = blocks[y].id
          BY <2>4, <1>6, <1>13 DEF In
        <4>. QED
          BY <4>1, ReadyIs DEF R
      <3>2. x = y
        <4>1. blocks[x].ordinal = x - 1 /\ blocks[y].ordinal = y - 1
          BY <1>6
        <4>. QED
          BY <3>1, <4>1
      <3>3. <<i, x>> = <<j, y>>
        <4>. SUFFICES ASSUME <<i, x>> # <<j, y>> PROVE FALSE
          OBVIOUS
        <4>1. <<i, x>>[2] # <<j, y>>[2]
          BY <2>4, <1>8
        <4>. QED
          BY <3>2, <4>1
      <3>. QED
        BY <3>3
    <2>. QED
      BY <2>1, <2>2, <2>3, <2>4, <1>9
  <1>14. Numbered(Q, m)
    <2>1. ASSUME NEW v \in Q PROVE v.ordinal \in 0..(m - 1)
      <3>1. PICK n \in 1..m : v = g[n]
        BY <1>4
      <3>2. v.ordinal = n - 1
        BY <3>1, <1>4, <1>10
      <3>. QED
        BY <3>2, <1>4
    <2>2. ASSUME NEW v \in Q, NEW w \in Q, v.ordinal = w.ordinal PROVE v = w
      <3>1. PICK i \in 1..m : v = g[i]
        BY <1>4
      <3>2. PICK j \in 1..m : w = g[j]
        BY <1>4
      <3>3. v.ordinal = i - 1 /\ w.ordinal = j - 1
        BY <3>1, <3>2, <1>4, <1>10
      <3>. QED
        BY <3>1, <3>2, <3>3, <2>2
    <2>3. ASSUME NEW j \in 0..(m - 1) PROVE \E v \in Q : v.ordinal = j
      <3>1. j + 1 \in DOMAIN pieces /\ j + 1 - 1 = j
        BY <1>4
      <3>2. g[j + 1].ordinal = j /\ g[j + 1] \in Q
        <4>1. PICK n \in DOMAIN pieces : n = j + 1
          BY <3>1
        <4>2. g[n].ordinal = n - 1 /\ g[n] \in Q
          BY <1>10
        <4>. QED
          BY <3>1, <4>1, <4>2
      <3>. QED
        BY <3>2
    <2>. QED
      BY <2>1, <2>2, <2>3 DEF Numbered
  <1>15. ASSUME NEW v \in Q, NEW w \in Q, v.id = w.id PROVE v = w
    <2>1. PICK i \in DOMAIN pieces : v = g[i]
      OBVIOUS
    <2>2. PICK j \in DOMAIN pieces : w = g[j]
      OBVIOUS
    <2>. QED
      <3>1. id(i) = id(j)
        BY <2>1, <2>2, <1>10, <1>15
      <3>. QED
        BY <2>1, <2>2, <3>1, <1>13
  <1>16. ASSUME NEW v \in Q, NEW w \in R \ In(R, c) PROVE v.id # w.id
    <2>1. PICK n \in DOMAIN pieces : v = g[n] /\ v.id = id(n)
      BY <1>10
    <2>2. CASE id(n) = new[n]
      BY <2>1, <2>2, <1>7
    <2>3. CASE \E i \in 1..k : id(n) = blocks[i].id
      <3>1. PICK i \in 1..k : v.id = blocks[i].id
        BY <2>1, <2>3
      <3>2. blocks[i] \in R /\ blocks[i] \in In(R, c)
        BY <1>6 DEF In
      <3>3. \A x, y \in R : x.id = y.id => x = y
        BY ReadyIs DEF R
      <3>. QED
        BY <3>1, <3>2, <3>3
    <2>. QED
      BY <2>2, <2>3, <1>9
  <1>17. IsFiniteSet(Q)
    BY <1>4, Images
  <1>18. \A v \in Q : v \in Row /\ v.to = Now /\ v.from = db.rev + 1 /\ v.chapter = c
    BY <1>10, <1>12
  <1>. HIDE DEF Q, m
  <1>19. Tree((R \ In(R, c)) \cup Q, db.chapters)
    <2>1. Tree(R, db.chapters) /\ c \in LiveIn(db.chapters)
      BY ReadyIs DEF R
    <2>. QED
      BY <2>1, <1>4, <1>14, <1>15, <1>16, <1>18, RewrittenTree
  <1>20. Fitting("put", TRUE, In(R, c), Q, <<>>)
    <2>1. "put" \in Edits
      BY DEF Edits
    <2>2. Tree((CurrentRows(db) \ In(R, c)) \cup Q, Over(<<>>, db.chapters))
      BY <1>19, NothingOver, ReadyIs DEF R
    <2>3. In(R, c) \in SUBSET Row /\ In(R, c) \subseteq CurrentRows(db) /\ Q \in SUBSET Row
      BY <1>18, ReadyIs DEF R, In
    <2>. QED
      BY <2>1, <2>2, <2>3, <1>17, <1>18, NoOrder, Bumping DEF Moves
  <1>. QED
    BY <1>3, <1>6, <1>20, PlanFits

(* The book, one chapter after the other.                                  *)
LEMMA IngestPlans == ASSUME Ready, NEW t, Ingest(t) PROVE Plans(t)
  <1>. DEFINE chapters == DOMAIN Book
              places == UNION {{i} \X DOMAIN Book[i] : i \in DOMAIN Book}
              c == Fresh(ChapterIds, DOMAIN Book)
              b == Fresh(BlockIds, places)
              g == [p \in places |->
                      Version(b[p], c[p[1]], p[2] - 1, Book[p[1]][p[2]], db.rev)]
              Q == {g[p] : p \in places}
              h == [k \in ToSet(c) |-> (CHOOSE i \in DOMAIN Book : c[i] = k) - 1]
              n == Len(Book)
  <1>1. Plan(t, "ingest", FALSE, db.versions, Q, h)
    <2>1. Q = {Version(b[p], c[p[1]], p[2] - 1, Book[p[1]][p[2]], db.rev) : p \in places}
      OBVIOUS
    <2>. QED
      BY <2>1 DEF Ingest, InsertBook
  <1>2. DOMAIN db.chapters = {} \/ db.rev = 0
    BY DEF Ingest
  <1>3. /\ n \in Nat /\ chapters = 1..n /\ IsFiniteSet(chapters)
        /\ \A i \in chapters : /\ DOMAIN Book[i] = 1..Len(Book[i]) /\ Len(Book[i]) \in Nat
                              /\ \A j \in 1..Len(Book[i]) : Book[i][j] \in Seq(Nat)
    <2>1. Book \in Seq(Seq(Seq(Nat)))
      BY ChaptersAssumption
    <2>2. n \in Nat /\ chapters = 1..n /\ \A i \in chapters : Book[i] \in Seq(Seq(Nat))
      BY <2>1
    <2>3. ASSUME NEW i \in chapters
          PROVE  /\ DOMAIN Book[i] = 1..Len(Book[i]) /\ Len(Book[i]) \in Nat
                 /\ \A j \in 1..Len(Book[i]) : Book[i][j] \in Seq(Nat)
      <3>1. PICK s \in Seq(Seq(Nat)) : s = Book[i]
        BY <2>2
      <3>2. DOMAIN s = 1..Len(s) /\ Len(s) \in Nat /\ \A j \in 1..Len(s) : s[j] \in Seq(Nat)
        OBVIOUS
      <3>. QED
        BY <3>1, <3>2
    <2>. QED
      BY <2>2, <2>3, FS_Interval
  <1>4. IsFiniteSet(places)
    <2>. DEFINE f == [i \in DOMAIN Book |-> {i} \X DOMAIN Book[i]]
    <2>1. places = UNION {f[i] : i \in chapters}
      OBVIOUS
    <2>2. ASSUME NEW i \in chapters PROVE IsFiniteSet(f[i])
      <3>1. IsFiniteSet(DOMAIN Book[i]) /\ IsFiniteSet({i})
        <4>1. DOMAIN Book[i] = 1..Len(Book[i]) /\ Len(Book[i]) \in Int /\ 1 \in Int
          BY <1>3
        <4>2. IsFiniteSet(1..Len(Book[i]))
          BY <4>1, FS_Interval
        <4>3. IsFiniteSet({i})
          BY FS_Singleton
        <4>. QED
          BY <4>1, <4>2, <4>3
      <3>2. IsFiniteSet({i} \X DOMAIN Book[i])
        BY <3>1, FS_Product
      <3>. QED
        BY <3>2
    <2>. HIDE DEF f, places
    <2>3. IsFiniteSet({f[i] : i \in chapters})
      BY <1>3, Images
    <2>4. \A S \in {f[i] : i \in chapters} : IsFiniteSet(S)
      BY <2>2
    <2>. QED
      BY <2>1, <2>3, <2>4, FS_UNION
  <1>5. /\ c \in [chapters -> Nat] /\ \A i, j \in chapters : c[i] = c[j] => i = j
    <2>1. ChapterIds \in SUBSET Nat /\ IsFiniteSet(ChapterIds)
      BY IdsInUse DEF Ready
    <2>2. /\ c \in [chapters -> Nat \ ChapterIds] /\ \A i, j \in chapters : c[i] = c[j] => i = j
      BY <2>1, <1>3, FreshIs
    <2>. HIDE DEF c
    <2>. QED
      BY <2>2
  <1>6. /\ b \in [places -> Nat] /\ \A p, q \in places : b[p] = b[q] => p = q
    <2>1. BlockIds \in SUBSET Nat /\ IsFiniteSet(BlockIds)
      BY IdsInUse DEF Ready
    <2>. HIDE DEF places
    <2>2. /\ b \in [places -> Nat \ BlockIds] /\ \A p, q \in places : b[p] = b[q] => p = q
      BY <2>1, <1>4, FreshIs
    <2>. HIDE DEF b
    <2>. QED
      BY <2>2
  <1>. HIDE DEF b, c
  <1>7. \A p : p \in places <=> \E i \in chapters : \E j \in DOMAIN Book[i] : p = <<i, j>>
    OBVIOUS
  <1>8. ASSUME NEW i \in chapters, NEW j \in DOMAIN Book[i]
        PROVE  /\ <<i, j>> \in places
               /\ g[<<i, j>>] = [id |-> b[<<i, j>>], chapter |-> c[i], ordinal |-> j - 1,
                                 text |-> Book[i][j], from |-> db.rev, to |-> Now]
               /\ g[<<i, j>>] \in Q
    <2>1. <<i, j>> \in places
      BY <1>7
    <2>. HIDE DEF places
    <2>2. g[<<i, j>>] = Version(b[<<i, j>>], c[<<i, j>>[1]], <<i, j>>[2] - 1,
                                Book[<<i, j>>[1]][<<i, j>>[2]], db.rev)
      BY <2>1
    <2>3. <<i, j>>[1] = i /\ <<i, j>>[2] = j
      OBVIOUS
    <2>4. g[<<i, j>>] = Version(b[<<i, j>>], c[i], j - 1, Book[i][j], db.rev)
      BY <2>2, <2>3
    <2>. HIDE DEF g
    <2>. QED
      BY <2>1, <2>4 DEF Version
  <1>. HIDE DEF g
  <1>9. \A v \in Q : \E i \in chapters : \E j \in DOMAIN Book[i] : v = g[<<i, j>>]
    BY <1>7
  <1>. HIDE DEF places, Q
  <1>10. ASSUME NEW i \in chapters, NEW j \in DOMAIN Book[i]
         PROVE  /\ g[<<i, j>>] \in Row /\ g[<<i, j>>] \in Q
                /\ g[<<i, j>>].id = b[<<i, j>>] /\ g[<<i, j>>].chapter = c[i]
                /\ g[<<i, j>>].ordinal = j - 1 /\ g[<<i, j>>].to = Now
                /\ g[<<i, j>>].from = db.rev
    <2>1. b[<<i, j>>] \in Nat
      BY <1>6, <1>8
    <2>2. c[i] \in Nat /\ db.rev \in Nat
      BY <1>5, ReadyIs
    <2>3. j \in 1..Len(Book[i]) /\ Len(Book[i]) \in Nat /\ Book[i][j] \in Seq(Nat)
      BY <1>3
    <2>4. g[<<i, j>>] = [id |-> b[<<i, j>>], chapter |-> c[i], ordinal |-> j - 1,
                         text |-> Book[i][j], from |-> db.rev, to |-> Now]
      BY <1>8
    <2>5. j - 1 \in Nat
      BY <2>3
    <2>6. g[<<i, j>>] \in Row
      BY <2>1, <2>2, <2>3, <2>4, <2>5 DEF Row
    <2>. QED
      BY <2>4, <2>6, <1>8
  <1>11. ASSUME NEW i \in chapters
         PROVE  c[i] \in ToSet(c) /\ h[c[i]] = i - 1 /\ c[i] \in DOMAIN h
    <2>1. c[i] \in ToSet(c)
      BY <1>5 DEF ToSet
    <2>2. (CHOOSE j \in DOMAIN Book : c[j] = c[i]) = i
      BY <1>5
    <2>. QED
      BY <2>1, <2>2
  <1>12. \A k \in ToSet(c) : \E i \in chapters : k = c[i]
    BY <1>5 DEF ToSet
  <1>13. DOMAIN h = ToSet(c)
    OBVIOUS
  <1>. HIDE DEF h
  <1>14. h \in Order /\ IsFiniteSet(DOMAIN h)
    <2>1. IsFiniteSet({c[i] : i \in chapters})
      BY <1>3, Images
    <2>2. ToSet(c) = {c[i] : i \in chapters}
      BY <1>5 DEF ToSet
    <2>3. ASSUME NEW k \in DOMAIN h PROVE k \in Nat /\ h[k] \in Int
      BY <1>3, <1>5, <1>11, <1>12, <1>13
    <2>4. h = [k \in DOMAIN h |-> h[k]]
      BY DEF h
    <2>5. h \in [DOMAIN h -> Int] /\ DOMAIN h \in SUBSET Nat
      BY <2>3, <2>4
    <2>. QED
      BY <2>1, <2>2, <2>5, <1>13 DEF Order
  <1>15. LiveIn(h) = ToSet(c)
    <2>1. ASSUME NEW k \in DOMAIN h PROVE h[k] >= 0
      BY <1>3, <1>11, <1>12, <1>13
    <2>. QED
      BY <2>1, <1>13 DEF LiveIn
  <1>16. Seated(h, n)
    <2>1. ASSUME NEW k \in LiveIn(h) PROVE h[k] \in 0..(n - 1)
      BY <1>3, <1>11, <1>12, <1>15
    <2>2. ASSUME NEW k \in LiveIn(h), NEW l \in LiveIn(h), h[k] = h[l] PROVE k = l
      <3>1. PICK i \in chapters : k = c[i]
        BY <1>12, <1>15
      <3>2. PICK j \in chapters : l = c[j]
        BY <1>12, <1>15
      <3>3. i - 1 = j - 1
        BY <2>2, <3>1, <3>2, <1>11
      <3>. QED
        BY <3>1, <3>2, <3>3, <1>3
    <2>3. ASSUME NEW k \in 0..(n - 1) PROVE \E l \in LiveIn(h) : h[l] = k
      <3>1. PICK i \in chapters : i = k + 1
        BY <1>3
      <3>. QED
        BY <3>1, <1>11, <1>15
    <2>. QED
      BY <2>1, <2>2, <2>3 DEF Seated
  <1>17. ASSUME NEW i \in chapters PROVE Numbered(In(Q, c[i]), Len(Book[i]))
    <2>1. ASSUME NEW v \in In(Q, c[i])
          PROVE  \E j \in DOMAIN Book[i] : v = g[<<i, j>>] /\ v.ordinal = j - 1
      <3>1. PICK k \in chapters : \E j \in DOMAIN Book[k] : v = g[<<k, j>>]
        BY <1>9 DEF In
      <3>2. PICK j \in DOMAIN Book[k] : v = g[<<k, j>>]
        BY <3>1
      <3>3. v.chapter = c[k] /\ v.chapter = c[i] /\ v.ordinal = j - 1
        BY <3>2, <1>10 DEF In
      <3>4. k = i
        BY <3>3, <1>5
      <3>. QED
        BY <3>2, <3>3, <3>4
    <2>2. DOMAIN Book[i] = 1..Len(Book[i]) /\ Len(Book[i]) \in Nat
      BY <1>3
    <2>3. ASSUME NEW v \in In(Q, c[i]) PROVE v.ordinal \in 0..(Len(Book[i]) - 1)
      <3>1. PICK j \in 1..Len(Book[i]) : v.ordinal = j - 1
        BY <2>1, <2>2
      <3>. QED
        BY <3>1, <2>2
    <2>4. ASSUME NEW v \in In(Q, c[i]), NEW w \in In(Q, c[i]), v.ordinal = w.ordinal PROVE v = w
      <3>1. PICK j \in 1..Len(Book[i]) : v = g[<<i, j>>] /\ v.ordinal = j - 1
        BY <2>1, <2>2
      <3>2. PICK k \in 1..Len(Book[i]) : w = g[<<i, k>>] /\ w.ordinal = k - 1
        BY <2>1, <2>2
      <3>3. j = k
        BY <3>1, <3>2, <2>4
      <3>. QED
        BY <3>1, <3>2, <3>3
    <2>5. ASSUME NEW k \in 0..(Len(Book[i]) - 1) PROVE \E v \in In(Q, c[i]) : v.ordinal = k
      <3>1. PICK j \in DOMAIN Book[i] : j = k + 1
        BY <2>2
      <3>2. g[<<i, j>>] \in In(Q, c[i]) /\ g[<<i, j>>].ordinal = j - 1
        BY <1>10 DEF In
      <3>. QED
        BY <3>1, <3>2
    <2>. QED
      BY <2>3, <2>4, <2>5 DEF Numbered
  <1>18. ASSUME NEW v \in Q, NEW w \in Q, v.id = w.id PROVE v = w
    <2>1. PICK i \in chapters : \E j \in DOMAIN Book[i] : v = g[<<i, j>>]
      BY <1>9
    <2>2. PICK j \in DOMAIN Book[i] : v = g[<<i, j>>]
      BY <2>1
    <2>3. PICK k \in chapters : \E l \in DOMAIN Book[k] : w = g[<<k, l>>]
      BY <1>9
    <2>4. PICK l \in DOMAIN Book[k] : w = g[<<k, l>>]
      BY <2>3
    <2>5. b[<<i, j>>] = b[<<k, l>>]
      BY <2>2, <2>4, <1>10, <1>18
    <2>6. <<i, j>> = <<k, l>>
      BY <2>5, <1>6, <1>8
    <2>. QED
      BY <2>2, <2>4, <2>6
  <1>19. ASSUME NEW v \in Q
         PROVE  v \in Row /\ v.to = Now /\ v.from = db.rev /\ v.chapter \in LiveIn(h)
    <2>1. PICK i \in chapters : \E j \in DOMAIN Book[i] : v = g[<<i, j>>]
      BY <1>9
    <2>2. PICK j \in DOMAIN Book[i] : v = g[<<i, j>>]
      BY <2>1
    <2>. QED
      BY <2>2, <1>10, <1>11, <1>15
  <1>20. IsFiniteSet(Q)
    BY <1>4, Images DEF Q
  <1>21. Tree(Q, h)
    <2>1. ASSUME NEW k \in LiveIn(h) PROVE \E m \in Nat : Numbered(In(Q, k), m)
      <3>1. PICK i \in chapters : k = c[i]
        BY <1>12, <1>15
      <3>. QED
        BY <3>1, <1>3, <1>17
    <2>. QED
      BY <2>1, <1>3, <1>16, <1>18, <1>19 DEF Tree
  <1>22. Fitting("ingest", FALSE, db.versions, Q, h)
    <2>1. (CurrentRows(db) \ db.versions) \cup Q = Q
      BY DEF CurrentRows
    <2>2. Over(h, <<>>) = h
      <3>1. DOMAIN <<>> = {} /\ h = [k \in DOMAIN h |-> h[k]]
        BY NoOrder, OrderIs, <1>14
      <3>. QED
        BY <3>1 DEF Over
    <2>3. db.versions \in SUBSET Row
      BY ReadyIs DEF Sound, Database
    <2>4. Q \in SUBSET Row /\ \A v \in Q : v.to = Now /\ v.from = db.rev
      BY <1>19
    <2>. QED
      BY <2>1, <2>2, <2>3, <2>4, <1>2, <1>14, <1>20, <1>21, Replacing
  <1>. QED
    BY <1>1, <1>22, PlanFits
-----------------------------------------------------------------------------
(* Requests side by side.                                                  *)

Sends(w) == w # Idle /\ w.pc \in {"flushed", "written"}

(* An edit of a revision that another request has taken.                   *)
Stale(w, s) == Sized(w) /\ w.bumps /\ w.revision \in s.revisions

(* What the connection holds beyond what is committed is what a request    *)
(* has sent so far, and that will leave a sound database.                  *)
SentSoFar(w, d, s) ==
    /\ Fits(w, s)
    /\ \/ w.pc = "flushed" /\ d = AfterClosings(w, s)
       \/ w.pc = "written" /\ NoClash(w, s) /\ d = AfterRows(w, AfterClosings(w, s))

(* The connection d, the committed s and the requests: one sends at a      *)
(* time, and the others will fit what it commits or be refused.            *)
Held(d, s, th) ==
    /\ Sound(s)
    /\ th \in [Threads -> {Idle} \cup Change]
    /\ \A t \in Threads : th[t] # Idle /\ ~Sends(th[t]) => Fits(th[t], s) \/ Stale(th[t], s)
    /\ (\A t \in Threads : ~Sends(th[t])) => d = s
    /\ \A t \in Threads : Sends(th[t]) =>
         /\ SentSoFar(th[t], d, s)
         /\ \A u \in Threads \ {t} : th[u] # Idle =>
              ~Sends(th[u]) /\ ~Rearranges(th[u]) /\ ~Rearranges(th[t])

Transaction == ~overlapped => Held(db, saved, thread)

(* Nobody but t sends.                                                     *)
Only(t, th) == \A u \in Threads \ {t} : ~Sends(th[u])

LEMMA NotIdle == Idle \notin Change /\ ~Sends(Idle)
  BY DEF Idle, Change, Sends

LEMMA HeldReady ==
    ASSUME Held(db, saved, thread), \A t \in Threads : ~Sends(thread[t])
    PROVE  Ready
  <1>1. Sound(saved) /\ db = saved
    BY DEF Held
  <1>2. ASSUME NEW t \in Threads, thread[t] # Idle PROVE Sized(thread[t])
    BY <1>2 DEF Held, Fits, Stale
  <1>. QED
    BY <1>1, <1>2 DEF Ready

LEMMA Initially == Init => Transaction
  <1>. SUFFICES ASSUME Init PROVE Held(db, saved, thread)
    BY DEF Transaction
  <1>1. saved = [rev |-> 0, revisions |-> {0}, chapters |-> <<>>, versions |-> {}] /\ db = saved
    BY DEF Init
  <1>2. saved \in Database
    BY <1>1, NoOrder DEF Database
  <1>3. CurrentRows(saved) = {} /\ LiveIn(saved.chapters) = {}
    BY <1>1, NoOrder DEF CurrentRows, LiveIn
  <1>4. Tree({}, saved.chapters)
    <2>1. Seated(saved.chapters, 0)
      BY <1>3 DEF Seated
    <2>. QED
      BY <2>1, <1>3 DEF Tree
  <1>5. Sound(saved)
    BY <1>1, <1>2, <1>3, <1>4, NoOrder, FS_EmptySet DEF Sound
  <1>6. thread = [t \in Threads |-> Idle]
    BY DEF Init
  <1>. QED
    BY <1>1, <1>5, <1>6, NotIdle DEF Held

(* A request begins.                                                       *)
LEMMA Enters ==
    ASSUME NEW s, NEW th, Held(s, s, th), NEW t \in Threads, \A u \in Threads : ~Sends(th[u]),
           NEW w, w.pc = "planned", Fits(w, s)
    PROVE  Held(s, s, [th EXCEPT ![t] = w])
  <1>. DEFINE x == [th EXCEPT ![t] = w]
  <1>1. w \in Change /\ ~Sends(w)
    BY DEF Fits, Sized, Sends
  <1>2. /\ x \in [Threads -> {Idle} \cup Change] /\ x[t] = w
        /\ \A u \in Threads \ {t} : x[u] = th[u]
    BY <1>1 DEF Held
  <1>. HIDE DEF x
  <1>3. \A u \in Threads : ~Sends(x[u])
    BY <1>1, <1>2
  <1>4. \A u \in Threads : x[u] # Idle => Fits(x[u], s) \/ Stale(x[u], s)
    BY <1>2 DEF Held
  <1>5. Held(s, s, x)
    BY <1>2, <1>3, <1>4 DEF Held
  <1>. QED
    BY <1>5 DEF x

(* A request is refused or fails.                                          *)
LEMMA Leaves ==
    ASSUME NEW d, NEW s, NEW th, Held(d, s, th), NEW t \in Threads, Only(t, th)
    PROVE  Held(s, s, [th EXCEPT ![t] = Idle])
  <1>. DEFINE x == [th EXCEPT ![t] = Idle]
  <1>1. /\ x \in [Threads -> {Idle} \cup Change] /\ x[t] = Idle
        /\ \A u \in Threads \ {t} : x[u] = th[u]
    BY DEF Held
  <1>. HIDE DEF x
  <1>2. \A u \in Threads : ~Sends(x[u])
    BY <1>1, NotIdle DEF Only
  <1>3. \A u \in Threads : x[u] # Idle => Fits(x[u], s) \/ Stale(x[u], s)
    BY <1>1 DEF Held, Only
  <1>4. Held(s, s, x)
    BY <1>1, <1>2, <1>3 DEF Held
  <1>. QED
    BY <1>4 DEF x

(* A request sends rows, when no other that is under way has sent any and  *)
(* neither it nor they change more than their own chapters.                *)
LEMMA SendsRows ==
    ASSUME NEW d, NEW e, NEW s, NEW th, Held(d, s, th), NEW t \in Threads, Only(t, th),
           NEW w, Sends(w), SentSoFar(w, e, s),
           \A u \in Threads \ {t} : th[u] # Idle => ~Rearranges(th[u]) /\ ~Rearranges(w)
    PROVE  Held(e, s, [th EXCEPT ![t] = w])
  <1>. DEFINE x == [th EXCEPT ![t] = w]
  <1>1. w \in Change
    BY DEF SentSoFar, Fits, Sized
  <1>2. /\ x \in [Threads -> {Idle} \cup Change] /\ x[t] = w
        /\ \A u \in Threads \ {t} : x[u] = th[u]
    BY <1>1 DEF Held
  <1>. HIDE DEF x
  <1>3. \A u \in Threads \ {t} : ~Sends(x[u])
    BY <1>2 DEF Only
  <1>4. \A u \in Threads : x[u] # Idle /\ ~Sends(x[u]) => Fits(x[u], s) \/ Stale(x[u], s)
    <2>. SUFFICES ASSUME NEW u \in Threads, x[u] # Idle, ~Sends(x[u])
                  PROVE  Fits(x[u], s) \/ Stale(x[u], s)
      OBVIOUS
    <2>1. u # t
      BY <1>2
    <2>. QED
      BY <2>1, <1>2 DEF Held
  <1>5. \A u \in Threads : Sends(x[u]) =>
          /\ SentSoFar(x[u], e, s)
          /\ \A v \in Threads \ {u} : x[v] # Idle =>
               ~Sends(x[v]) /\ ~Rearranges(x[v]) /\ ~Rearranges(x[u])
    <2>. SUFFICES ASSUME NEW u \in Threads, Sends(x[u])
                  PROVE  /\ SentSoFar(x[u], e, s)
                         /\ \A v \in Threads \ {u} : x[v] # Idle =>
                              ~Sends(x[v]) /\ ~Rearranges(x[v]) /\ ~Rearranges(x[u])
      OBVIOUS
    <2>1. u = t
      BY <1>3
    <2>. QED
      BY <2>1, <1>2, <1>3
  <1>6. ~\A u \in Threads : ~Sends(x[u])
    BY <1>2
  <1>7. Held(e, s, x)
    BY <1>2, <1>4, <1>5, <1>6 DEF Held
  <1>. QED
    BY <1>7 DEF x

(* The rows of an update are those that were there.                        *)
LEMMA UpdateWrites ==
    ASSUME NEW d, Sound(d), NEW w, Fits(w, d), w.op = "update"
    PROVE  AfterRows(w, AfterClosings(w, d)) = d
  <1>1. /\ ~w.bumps /\ w.insert = {} /\ DOMAIN w.ordinals = {}
        /\ w.op # "ingest"
    BY DEF Fits
  <1>2. AfterClosings(w, d) = d
    BY <1>1 DEF AfterClosings
  <1>3. d \in Database /\ d.chapters = [c \in DOMAIN d.chapters |-> d.chapters[c]]
    BY OrderIs DEF Sound, Database
  <1>4. Over(w.ordinals, d.chapters) = d.chapters
    BY <1>1, <1>3 DEF Over
  <1>5. AfterRows(w, d) = [d EXCEPT !.versions = d.versions, !.chapters = d.chapters]
    BY <1>1, <1>4 DEF AfterRows
  <1>. QED
    BY <1>2, <1>3, <1>5 DEF Database

(* What was updated with the rows of one database fits any other.          *)
LEMMA UpdateFits ==
    ASSUME NEW d, NEW e, Sound(e), NEW w, Fits(w, d), w.op = "update"
    PROVE  Fits(w, e)
  <1>1. /\ ~w.bumps /\ w.close = {} /\ w.insert = {} /\ DOMAIN w.ordinals = {}
        /\ w.op # "ingest" /\ w.op \notin Moves /\ w.op \notin Edits /\ Sized(w)
    BY DEF Fits, Moves, Edits
  <1>2. e.chapters = [c \in DOMAIN e.chapters |-> e.chapters[c]]
    BY OrderIs DEF Sound, Database
  <1>3. Over(w.ordinals, e.chapters) = e.chapters
    BY <1>1, <1>2 DEF Over
  <1>4. (CurrentRows(e) \ w.close) \cup w.insert = CurrentRows(e)
    BY <1>1
  <1>5. Tree((CurrentRows(e) \ w.close) \cup w.insert, Over(w.ordinals, e.chapters))
    BY <1>3, <1>4 DEF Sound
  <1>. QED
    BY <1>1, <1>5 DEF Fits

(* An edit takes its revision.                                             *)
LEMMA EditTakes ==
    ASSUME NEW d, Sound(d), NEW w, Fits(w, d), w.bumps
    PROVE  AfterRows(w, AfterClosings(w, d)).revisions = d.revisions \cup {d.rev + 1}
  <1>. DEFINE b == AfterClosings(w, d)
  <1>1. d \in Database /\ w.op # "ingest" /\ w.revision = d.rev + 1
    BY DEF Fits, Sound
  <1>2. b = [d EXCEPT !.rev = w.revision, !.revisions = @ \cup {w.revision},
                      !.versions = {IF \E c \in w.close : SameRow(c, v)
                                    THEN Closed(v, w.revision) ELSE v : v \in @}]
    BY <1>1 DEF AfterClosings
  <1>3. b.revisions = d.revisions \cup {w.revision}
    <2>. HIDE DEF b
    <2>. QED
      BY <1>1, <1>2 DEF Database
  <1>4. b \in Database
    BY ClosedRows
  <1>. HIDE DEF b
  <1>5. AfterRows(w, b).revisions = b.revisions
    BY <1>4 DEF AfterRows, Database
  <1>. QED
    BY <1>1, <1>3, <1>5 DEF b

(* A request commits: the others still fit, or will be refused.            *)
LEMMA Commits ==
    ASSUME NEW d, NEW s, NEW th, Held(d, s, th), NEW t \in Threads, th[t].pc = "written"
    PROVE  Held(d, d, [th EXCEPT ![t] = Idle]) /\ HistoryOf(s, d)
  <1>. DEFINE w == th[t]
              x == [th EXCEPT ![t] = Idle]
  <1>1. Sends(w)
    BY DEF Idle, Sends
  <1>2. /\ Fits(w, s) /\ NoClash(w, s) /\ d = AfterRows(w, AfterClosings(w, s))
        /\ \A u \in Threads \ {t} : th[u] # Idle =>
             ~Sends(th[u]) /\ ~Rearranges(th[u]) /\ ~Rearranges(w)
        /\ Sound(s)
    BY <1>1 DEF Held, SentSoFar
  <1>3. Sound(d) /\ HistoryOf(s, d)
    BY <1>2, WrittenRows
  <1>4. /\ x \in [Threads -> {Idle} \cup Change] /\ x[t] = Idle
        /\ \A u \in Threads \ {t} : x[u] = th[u]
    BY DEF Held
  <1>. HIDE DEF w, x
  <1>5. \A u \in Threads : ~Sends(x[u])
    <2>. SUFFICES ASSUME NEW u \in Threads PROVE ~Sends(x[u])
      OBVIOUS
    <2>1. CASE u = t
      BY <2>1, <1>4, NotIdle
    <2>2. CASE u # t
      BY <2>2, <1>2, <1>4, NotIdle
    <2>. QED
      BY <2>1, <2>2
  <1>6. ASSUME NEW u \in Threads, x[u] # Idle
        PROVE  Fits(x[u], d) \/ Stale(x[u], d)
    <2>. DEFINE y == x[u]
    <2>1. u # t /\ y = th[u]
      BY <1>4, <1>6
    <2>2. ~Sends(y) /\ ~Rearranges(y) /\ ~Rearranges(w)
      BY <2>1, <1>2, <1>6
    <2>3. Fits(y, s) \/ Stale(y, s)
      BY <2>1, <2>2, <1>6 DEF Held
    <2>. HIDE DEF y
    <2>4. w.op \in Edits \cup {"update"}
      <3>1. w.op \in Ops
        BY <1>2 DEF Fits, Sized, Change
      <3>. QED
        BY <3>1, <2>2 DEF Ops, Rearranges
    <2>5. CASE w.op = "update"
      <3>1. d = s
        BY <2>5, <1>2, UpdateWrites
      <3>. QED
        BY <3>1, <2>3 DEF y
    <2>6. CASE w.op \in Edits
      <3>1. d.revisions = s.revisions \cup {s.rev + 1}
        BY <2>6, <1>2, EditTakes DEF Fits
      <3>2. CASE Stale(y, s)
        BY <3>1, <3>2 DEF Stale, y
      <3>3. CASE Fits(y, s) /\ y.bumps
        BY <3>1, <3>3 DEF Stale, Fits, y
      <3>4. CASE Fits(y, s) /\ ~y.bumps
        <4>1. y.op \in Ops /\ y.op \notin Edits
          BY <3>4 DEF Fits, Sized, Change
        <4>2. y.op = "update"
          BY <4>1, <2>2 DEF Ops, Rearranges
        <4>3. Fits(y, d)
          BY <4>2, <3>4, <1>3, UpdateFits
        <4>. QED
          BY <4>3 DEF y
      <3>. QED
        BY <3>2, <3>3, <3>4, <2>3
    <2>. QED
      BY <2>4, <2>5, <2>6
  <1>7. Held(d, d, x)
    BY <1>3, <1>4, <1>5, <1>6 DEF Held
  <1>. QED
    BY <1>3, <1>7 DEF x

(* Where a request is does not matter to what it will send.                *)
LEMMA Onward ==
    ASSUME NEW w \in Change, NEW p \in {"planned", "flushed", "written"}, NEW d
    PROVE  LET x == [w EXCEPT !.pc = p]
           IN  /\ x \in Change /\ x.pc = p /\ x.op = w.op
               /\ Fits(w, d) => Fits(x, d)
               /\ NoClash(w, d) => NoClash(x, d)
               /\ AfterClosings(x, d) = AfterClosings(w, d)
               /\ \A e : AfterRows(x, e) = AfterRows(w, e)
  <1>. DEFINE x == [w EXCEPT !.pc = p]
  <1>1. /\ x \in Change /\ x.pc = p /\ x.op = w.op /\ x.bumps = w.bumps
        /\ x.revision = w.revision /\ x.close = w.close /\ x.insert = w.insert
        /\ x.ordinals = w.ordinals
    BY DEF Change
  <1>. HIDE DEF x
  <1>2. Fits(w, d) => Fits(x, d)
    BY <1>1 DEF Fits, Sized
  <1>3. AfterClosings(x, d) = AfterClosings(w, d)
    BY <1>1 DEF AfterClosings
  <1>4. NoClash(w, d) => NoClash(x, d)
    BY <1>1, <1>3 DEF NoClash
  <1>5. \A e : AfterRows(x, e) = AfterRows(w, e)
    BY <1>1 DEF AfterRows
  <1>. QED
    BY <1>1, <1>2, <1>3, <1>4, <1>5 DEF x

LEMMA PlanIs ==
    ASSUME NEW t, NEW op, NEW bumps, NEW close, NEW insert, NEW ordinals,
           Plan(t, op, bumps, close, insert, ordinals)
    PROVE  MeetsSender(t) /\ UNCHANGED saved
  BY DEF Plan

(* Every request begins by reading and working out what it will send.      *)
LEMMA BeginsPlan ==
    ASSUME NEW t \in Threads,
           \/ Ingest(t) \/ Update(t) \/ Reorder(t) \/ Merge(t) \/ SplitAtBoundary(t)
           \/ SplitInside(t) \/ PutText(t) \/ Replace(t)
    PROVE  thread[t] = Idle /\ MeetsSender(t) /\ UNCHANGED saved
  <1>1. thread[t] = Idle
    BY DEF Ingest, Update, Reorder, Merge, SplitAtBoundary, SplitInside, PutText, Replace, MayBegin
  <1>2. CASE Ingest(t)
    BY <1>1, <1>2, PlanIs DEF Ingest, InsertBook
  <1>3. CASE Update(t)
    BY <1>1, <1>3, PlanIs DEF Update
  <1>4. CASE Reorder(t)
    BY <1>1, <1>4, PlanIs DEF Reorder
  <1>5. CASE Merge(t)
    BY <1>1, <1>5, PlanIs DEF Merge
  <1>6. CASE SplitAtBoundary(t)
    BY <1>1, <1>6, PlanIs DEF SplitAtBoundary
  <1>7. CASE SplitInside(t)
    BY <1>1, <1>7, PlanIs DEF SplitInside
  <1>8. CASE PutText(t)
    BY <1>1, <1>8, PlanIs DEF PutText
  <1>9. CASE Replace(t)
    BY <1>1, <1>9, PlanIs DEF Replace
  <1>. QED
    BY <1>1, <1>2, <1>3, <1>4, <1>5, <1>6, <1>7, <1>8, <1>9

(* What has met another session stays so.                                  *)
LEMMA StaysOverlapped == [Next]_vars /\ ~overlapped' => ~overlapped
  <1>. SUFFICES ASSUME [Next]_vars, overlapped PROVE overlapped'
    OBVIOUS
  <1>1. CASE UNCHANGED vars
    BY <1>1 DEF vars
  <1>2. CASE Crash
    BY <1>2 DEF Crash
  <1>3. ASSUME NEW t \in Threads,
               \/ Ingest(t) \/ Update(t) \/ Reorder(t) \/ Merge(t) \/ SplitAtBoundary(t)
               \/ SplitInside(t) \/ PutText(t) \/ Replace(t)
        PROVE  overlapped'
    <2>1. MeetsSender(t)
      BY <1>3, BeginsPlan
    <2>. QED
      BY <2>1 DEF MeetsSender
  <1>4. ASSUME NEW t \in Threads, FlushClosings(t) \/ FlushRows(t) \/ Commit(t) \/ ReadOrRefuse(t)
        PROVE  overlapped'
    BY <1>4 DEF FlushClosings, SendsBeside, FlushRows, Commit, ReadOrRefuse, MeetsSender
  <1>. QED
    BY <1>1, <1>2, <1>3, <1>4 DEF Next

(* A session that begins while nobody sends.                               *)
LEMMA Unmet ==
    ASSUME NEW t \in Threads, thread[t] = Idle, MeetsSender(t), ~overlapped'
    PROVE  \A u \in Threads : ~Sends(thread[u])
  <1>1. \A u \in Threads \ {t} : ~Sends(thread[u])
    BY DEF MeetsSender, Sending, Sends
  <1>. QED
    BY <1>1, NotIdle

(* Every step keeps the transaction, and a commit keeps the history.       *)
LEMMA Stepwise ==
    ASSUME Transaction, [Next]_vars, ~overlapped'
    PROVE  Held(db', saved', thread') /\ HistoryOf(saved, saved')
  <1>0. Held(db, saved, thread)
    BY StaysOverlapped DEF Transaction
  <1>s. Sound(saved) /\ HistoryOf(saved, saved)
    BY <1>0 DEF Held, HistoryOf
  <1>1. CASE Crash
    <2>1. saved' = saved /\ db' = saved' /\ thread' = [t \in Threads |-> Idle]
      BY <1>1 DEF Crash
    <2>2. Held(db', saved', thread')
      BY <2>1, <1>s, NotIdle DEF Held
    <2>. QED
      BY <2>1, <2>2, <1>s
  <1>2. CASE UNCHANGED vars
    BY <1>0, <1>s, <1>2 DEF vars
  <1>3. ASSUME NEW t \in Threads,
               \/ Ingest(t) \/ Update(t) \/ Reorder(t) \/ Merge(t) \/ SplitAtBoundary(t)
               \/ SplitInside(t) \/ PutText(t) \/ Replace(t)
        PROVE  Held(db', saved', thread') /\ HistoryOf(saved, saved')
    <2>1. thread[t] = Idle /\ MeetsSender(t)
      BY <1>3, BeginsPlan
    <2>2. \A u \in Threads : ~Sends(thread[u])
      BY <2>1, Unmet
    <2>3. Ready
      BY <2>2, <1>0, HeldReady
    <2>4. Plans(t)
      BY <1>3, <2>3, IngestPlans, UpdatePlans, ReorderPlans, MergePlans, SplitAtBoundaryPlans,
         SplitInsidePlans, PutTextPlans, ReplacePlans
    <2>5. PICK w : /\ w.pc = "planned" /\ Fits(w, db)
                   /\ thread' = [thread EXCEPT ![t] = w]
                   /\ UNCHANGED <<db, saved>>
      BY <2>4 DEF Plans
    <2>6. db = saved
      BY <2>3 DEF Ready
    <2>7. Held(saved, saved, [thread EXCEPT ![t] = w])
      BY <2>2, <2>5, <2>6, <1>0, Enters
    <2>. QED
      BY <2>5, <2>6, <2>7, <1>s
  <1>4. ASSUME NEW t \in Threads, FlushClosings(t)
        PROVE  Held(db', saved', thread') /\ HistoryOf(saved, saved')
    <2>. DEFINE w == thread[t]
    <2>1. w.pc = "planned" /\ saved' = saved /\ SendsBeside(t)
      BY <1>4 DEF FlushClosings, RollBack
    <2>2. /\ w # Idle /\ ~Sends(w)
          /\ \A u \in Threads \ {t} : thread[u] # Idle =>
               ~Sends(thread[u]) /\ ~Rearranges(thread[u]) /\ ~Rearranges(w)
      BY <2>1 DEF SendsBeside, Sending, Sends, Idle
    <2>3. Only(t, thread) /\ db = saved
      <3>1. \A u \in Threads : ~Sends(thread[u])
        BY <2>2, NotIdle
      <3>. QED
        BY <3>1, <1>0 DEF Only, Held
    <2>4. Fits(w, saved) \/ Stale(w, saved)
      BY <2>2, <1>0 DEF Held
    <2>5. CASE RollBack(t)
      <3>1. Held(saved, saved, [thread EXCEPT ![t] = Idle])
        BY <2>3, <1>0, Leaves
      <3>. QED
        BY <3>1, <2>1, <2>5, <1>s DEF RollBack
    <2>6. CASE /\ ~(w.bumps /\ w.revision \in db.revisions)
               /\ db' = AfterClosings(w, db)
               /\ thread' = [thread EXCEPT ![t].pc = "flushed"]
      <3>. DEFINE x == [w EXCEPT !.pc = "flushed"]
      <3>1. Fits(w, saved) /\ w \in Change
        BY <2>3, <2>4, <2>6 DEF Stale, Fits, Sized
      <3>2. /\ x \in Change /\ x.pc = "flushed" /\ Fits(x, saved) /\ x.op = w.op
            /\ AfterClosings(x, saved) = AfterClosings(w, saved)
        BY <3>1, Onward
      <3>3. thread' = [thread EXCEPT ![t] = x]
        BY <2>6
      <3>. HIDE DEF x
      <3>4. Sends(x) /\ SentSoFar(x, db', saved)
        BY <3>2, <2>3, <2>6 DEF Sends, SentSoFar, Idle, Change
      <3>5. \A u \in Threads \ {t} : thread[u] # Idle => ~Rearranges(thread[u]) /\ ~Rearranges(x)
        BY <2>2, <3>2 DEF Rearranges
      <3>. HIDE DEF w
      <3>6. Held(db', saved, [thread EXCEPT ![t] = x])
        BY <3>4, <3>5, <2>3, <1>0, SendsRows
      <3>. QED
        BY <3>3, <3>6, <2>1, <1>s
    <2>. QED
      BY <1>4, <2>5, <2>6 DEF FlushClosings
  <1>5. ASSUME NEW t \in Threads, FlushRows(t)
        PROVE  Held(db', saved', thread') /\ HistoryOf(saved, saved')
    <2>. DEFINE w == thread[t]
    <2>1. w.pc = "flushed" /\ saved' = saved
      BY <1>5 DEF FlushRows, RollBack
    <2>2. Sends(w)
      BY <2>1 DEF Sends, Idle
    <2>3. /\ Fits(w, saved) /\ db = AfterClosings(w, saved)
          /\ \A u \in Threads \ {t} : thread[u] # Idle =>
               ~Sends(thread[u]) /\ ~Rearranges(thread[u]) /\ ~Rearranges(w)
      BY <2>1, <2>2, <1>0 DEF Held, SentSoFar
    <2>4. Only(t, thread)
      BY <2>3, NotIdle DEF Only
    <2>5. CASE RollBack(t)
      <3>1. Held(saved, saved, [thread EXCEPT ![t] = Idle])
        BY <2>4, <1>0, Leaves
      <3>. QED
        BY <3>1, <2>1, <2>5, <1>s DEF RollBack
    <2>6. CASE /\ ~\E v \in w.insert, x \in db.versions : SameRow(v, x)
               /\ db' = AfterRows(w, db)
               /\ thread' = [thread EXCEPT ![t].pc = "written"]
      <3>. DEFINE x == [w EXCEPT !.pc = "written"]
      <3>1. NoClash(w, saved) /\ w \in Change
        BY <2>3, <2>6 DEF NoClash, Fits, Sized
      <3>2. /\ x \in Change /\ x.pc = "written" /\ Fits(x, saved) /\ NoClash(x, saved)
            /\ x.op = w.op
            /\ AfterClosings(x, saved) = AfterClosings(w, saved)
            /\ \A e : AfterRows(x, e) = AfterRows(w, e)
        BY <2>3, <3>1, Onward
      <3>3. thread' = [thread EXCEPT ![t] = x]
        BY <2>6
      <3>. HIDE DEF x
      <3>4. Sends(x) /\ SentSoFar(x, db', saved)
        BY <3>2, <2>3, <2>6 DEF Sends, SentSoFar, Idle, Change
      <3>5. \A u \in Threads \ {t} : thread[u] # Idle => ~Rearranges(thread[u]) /\ ~Rearranges(x)
        BY <2>3, <3>2 DEF Rearranges
      <3>. HIDE DEF w
      <3>6. Held(db', saved, [thread EXCEPT ![t] = x])
        BY <3>4, <3>5, <2>4, <1>0, SendsRows
      <3>. QED
        BY <3>3, <3>6, <2>1, <1>s
    <2>. QED
      BY <1>5, <2>5, <2>6 DEF FlushRows
  <1>6. ASSUME NEW t \in Threads, Commit(t)
        PROVE  Held(db', saved', thread') /\ HistoryOf(saved, saved')
    <2>1. /\ thread[t].pc = "written" /\ saved' = db /\ db' = db
          /\ thread' = [thread EXCEPT ![t] = Idle]
      BY <1>6 DEF Commit
    <2>2. Held(db, db, [thread EXCEPT ![t] = Idle]) /\ HistoryOf(saved, db)
      BY <2>1, <1>0, Commits
    <2>. QED
      BY <2>1, <2>2
  <1>7. ASSUME NEW t \in Threads, ReadOrRefuse(t)
        PROVE  Held(db', saved', thread') /\ HistoryOf(saved, saved')
    <2>1. thread[t] = Idle /\ MeetsSender(t)
      BY <1>7 DEF ReadOrRefuse, MayBegin
    <2>2. db = saved
      BY <2>1, Unmet, <1>0 DEF Held
    <2>3. UNCHANGED <<db, saved, thread>>
      BY <2>2, <1>7 DEF ReadOrRefuse
    <2>. QED
      BY <2>3, <1>0, <1>s
  <1>. QED
    BY <1>1, <1>2, <1>3, <1>4, <1>5, <1>6, <1>7 DEF Next

(* The book of a database says one text.                                   *)
LEMMA SoundTells ==
    ASSUME NEW d, Sound(d)
    PROVE  \E p \in Seq(Seq(Nat)) : /\ Tells(CurrentRows(d), d.chapters, p)
                                    /\ BookText(d) = FlattenSeq(p)
  <1>1. CurrentRows(d) \in SUBSET Row /\ Tree(CurrentRows(d), d.chapters)
    BY SoundTree DEF Sound
  <1>2. PICK p \in Seq(Seq(Nat)) : Tells(CurrentRows(d), d.chapters, p)
    BY <1>1, SomeTelling
  <1>. QED
    BY <1>2, BookIs

(* A commit of a split or a merge keeps the text of the book.              *)
LEMMA MovesKeepText ==
    ASSUME NEW d, Sound(d), NEW w, Fits(w, d), NoClash(w, d), w.op \in Moves
    PROVE  BookText(AfterRows(w, AfterClosings(w, d))) = BookText(d)
  <1>. DEFINE e == AfterRows(w, AfterClosings(w, d))
  <1>0. w.op # "ingest"
    BY DEF Moves
  <1>1. /\ Sound(e) /\ CurrentRows(e) = (CurrentRows(d) \ w.close) \cup w.insert
        /\ e.chapters = Over(w.ordinals, d.chapters)
    BY <1>0, WrittenRows
  <1>2. Kept(CurrentRows(d), d.chapters, (CurrentRows(d) \ w.close) \cup w.insert,
             Over(w.ordinals, d.chapters))
    BY DEF Fits
  <1>. HIDE DEF e
  <1>3. PICK p \in Seq(Seq(Nat)) : /\ Tells(CurrentRows(d), d.chapters, p)
                                  /\ BookText(d) = FlattenSeq(p)
    BY SoundTells
  <1>4. PICK q \in Seq(Seq(Nat)) : /\ Tells(CurrentRows(e), e.chapters, q)
                                  /\ BookText(e) = FlattenSeq(q)
    BY <1>1, SoundTells
  <1>. QED
    BY <1>1, <1>2, <1>3, <1>4 DEF Kept, e

(* Only a commit changes what is committed.                                *)
LEMMA TextStepwise ==
    ASSUME Transaction, [Next]_vars, ~overlapped', NEW t \in Threads,
           thread[t] # Idle, thread[t].op \in Moves, thread'[t] = Idle, saved' # saved
    PROVE  BookText(saved') = BookText(saved)
  <1>0. Held(db, saved, thread)
    BY StaysOverlapped DEF Transaction
  <1>1. CASE Commit(t)
    <2>. DEFINE w == thread[t]
    <2>1. w.pc = "written" /\ saved' = db
      BY <1>1 DEF Commit
    <2>2. Sends(w)
      BY <2>1 DEF Sends, Idle
    <2>3. SentSoFar(w, db, saved)
      BY <2>2, <1>0 DEF Held
    <2>4. /\ Sound(saved) /\ Fits(w, saved) /\ NoClash(w, saved)
          /\ db = AfterRows(w, AfterClosings(w, saved))
      BY <2>1, <2>3, <1>0 DEF Held, SentSoFar
    <2>. HIDE DEF w
    <2>. QED
      BY <2>1, <2>4, MovesKeepText DEF w
  <1>2. CASE Crash \/ UNCHANGED vars
    BY <1>2 DEF Crash, vars
  <1>3. ASSUME NEW u \in Threads, FlushClosings(u) \/ FlushRows(u)
        PROVE  saved' = saved
    BY <1>3 DEF FlushClosings, FlushRows, RollBack
  <1>4. ASSUME NEW u \in Threads,
               \/ Ingest(u) \/ Update(u) \/ Reorder(u) \/ Merge(u) \/ SplitAtBoundary(u)
               \/ SplitInside(u) \/ PutText(u) \/ Replace(u)
        PROVE  saved' = saved
    BY <1>4, BeginsPlan
  <1>5. ASSUME NEW u \in Threads, ReadOrRefuse(u)
        PROVE  saved' = saved
    <2>1. thread[u] = Idle /\ MeetsSender(u) /\ (saved' = db \/ saved' = saved)
      BY <1>5 DEF ReadOrRefuse, MayBegin
    <2>2. db = saved
      BY <2>1, Unmet, <1>0 DEF Held
    <2>. QED
      BY <2>1, <2>2
  <1>6. ASSUME NEW u \in Threads, u # t PROVE ~Commit(u)
    <2>. SUFFICES ASSUME Commit(u) PROVE FALSE
      OBVIOUS
    <2>1. thread' = [thread EXCEPT ![u] = Idle] /\ DOMAIN thread = Threads
      BY <1>0 DEF Commit, Held
    <2>. QED
      BY <2>1, <1>6
  <1>. QED
    BY <1>1, <1>2, <1>3, <1>4, <1>5, <1>6 DEF Next

LEMMA SideBySide == Spec => []Transaction
  <1>1. Init => Transaction
    BY Initially
  <1>2. Transaction /\ [Next]_vars => Transaction'
    BY Stepwise DEF Transaction
  <1>. QED
    BY <1>1, <1>2, PTL DEF Spec

(* However many requests read and edit at the same time, and whichever of  *)
(* them is refused: as long as no session uses the connection between the  *)
(* first rows of another and its commit, and no reorder or ingest runs     *)
(* beside another change, every block that is committed is in one place of *)
(* the tree, and no place is missing or taken twice: through any series of *)
(* ingests, edits, splits, merges and reorders of any book, errors and     *)
(* deaths of the engine at any point.                                      *)
THEOREM TreeStaysSound == Spec => []TreeIsSound
  <1>1. Transaction => TreeIsSound
    BY SoundIsTree DEF Transaction, Held, TreeIsSound
  <1>. QED
    BY <1>1, SideBySide, PTL

(* Under the same condition, a revision once committed reads the same for  *)
(* ever, also when others read it and lost the race for the next one.      *)
THEOREM HistoryStays == Spec => HistoryIsFixed
  <1>1. Transaction /\ [Next]_vars =>
          [~overlapped' /\ saved.rev > 0 =>
             \A c \in DOMAIN saved.chapters : \A r \in 0..saved.rev :
                AtRevision(saved', c, r) = AtRevision(saved, c, r)]_vars
    BY Stepwise DEF HistoryOf
  <1>. QED
    BY <1>1, SideBySide, PTL DEF Spec, HistoryIsFixed

(* Under the same condition, splits and merges move text and never lose,   *)
(* repeat or reorder any of it: whatever the chapters, the blocks and the  *)
(* place of the cut, what a listener hears is the same before and after,   *)
(* however often the chapters were edited since the request read them.     *)
THEOREM StructureStays == Spec => StructureKeepsText
  <1>1. Transaction /\ [Next]_vars =>
          [\A t \in Threads :
             /\ ~overlapped' /\ saved' # saved
             /\ thread[t] # Idle /\ thread[t].op \in {"split", "merge"} /\ thread'[t] = Idle
             => BookText(saved') = BookText(saved)]_vars
    BY TextStepwise DEF Moves
  <1>. QED
    BY <1>1, SideBySide, PTL DEF Spec, StructureKeepsText

=============================================================================
