---------------------------- MODULE CodecProofs -----------------------------
(***************************************************************************)
(* Lemmas about Codec and the predicates on trees of ProofTransfer, for    *)
(* trees of any width and depth: Deserialize reads what Serialize wrote    *)
(* (TreeBack), of bytes that are cut it reads at most a lower height       *)
(* (TreeShort), what it accepts can be written again (DeserializeSound),   *)
(* and Serialize does not depend on the order of items (ShuffledBytes).    *)
(***************************************************************************)
EXTENDS ProofTransfer, WireProofs, FiniteSetTheorems

-----------------------------------------------------------------------------
(***************************************************************************)
(* Timestamps nested at most n deep.                                       *)
(***************************************************************************)

\* Timestamps with children in X.
Nodes(X) == [atts : Seq(Attestation), ops : Seq([op : Op, stamp : X])]

\* f is Stamps up to n.
LevelsUpTo(n, f) == f = [k \in 0..n |-> IF k = 0 THEN {} ELSE Nodes(f[k - 1])]

\* There is such an f.
LEMMA LevelsExist ==
  ASSUME NEW n \in Nat
  PROVE  \E f : LevelsUpTo(n, f)
<1> DEFINE depth == [k \in Nat |-> k]
           P == {k \in Nat : \E f : LevelsUpTo(k, f)}
<1>1. ASSUME NEW k \in Nat, \A j \in Nat : depth[j] < depth[k] => j \in P
      PROVE  k \in P
  <2>1. CASE k = 0
    <3> DEFINE f == [j \in 0..0 |-> {}]
    <3>1. f = [j \in 0..0 |-> IF j = 0 THEN {} ELSE Nodes(f[j - 1])]
      OBVIOUS
    <3> HIDE DEF f
    <3>2. LevelsUpTo(0, f)
      BY <3>1 DEF LevelsUpTo
    <3> QED BY <2>1, <3>2
  <2>2. CASE k # 0
    <3>1. PICK f : LevelsUpTo(k - 1, f)
      BY <1>1, <2>2
    <3>2. \A j \in 0..(k - 1) : f[j] = IF j = 0 THEN {} ELSE Nodes(f[j - 1])
      <4> DEFINE B(j) == IF j = 0 THEN {} ELSE Nodes(f[j - 1])
      <4>1. f = [j \in 0..(k - 1) |-> B(j)]
        BY <3>1 DEF LevelsUpTo
      <4> HIDE DEF B
      <4>2. \A j \in 0..(k - 1) : f[j] = B(j)
        BY <4>1
      <4> QED BY <4>2 DEF B
    <3> DEFINE g == [j \in 0..k |-> IF j = 0 THEN {} ELSE Nodes(f[j - 1])]
    <3>3. ASSUME NEW j \in 0..k
          PROVE  (IF j = 0 THEN {} ELSE Nodes(f[j - 1])) = (IF j = 0 THEN {} ELSE Nodes(g[j - 1]))
      <4>1. CASE j # 0
        <5>1. j - 1 \in 0..(k - 1) /\ j - 1 \in 0..k
          BY <4>1
        <5>2. g[j - 1] = f[j - 1]
          BY <3>2, <5>1
        <5> QED BY <5>2
      <4> QED BY <4>1
    <3>4. g = [j \in 0..k |-> IF j = 0 THEN {} ELSE Nodes(g[j - 1])]
      <4> DEFINE A(j) == IF j = 0 THEN {} ELSE Nodes(f[j - 1])
                 C(j) == IF j = 0 THEN {} ELSE Nodes(g[j - 1])
      <4>1. \A j \in 0..k : A(j) = C(j)
        BY <3>3
      <4>2. g = [j \in 0..k |-> A(j)]
        OBVIOUS
      <4> HIDE DEF A, C
      <4>3. g = [j \in 0..k |-> C(j)]
        BY <4>1, <4>2
      <4> QED BY <4>3 DEF C
    <3> HIDE DEF g
    <3>5. LevelsUpTo(k, g)
      BY <3>4 DEF LevelsUpTo
    <3> QED BY <3>5
  <2> QED BY <2>1, <2>2
<1>2. Inductive(Nat, depth, P)
  BY <1>1 DEF Inductive
<1> HIDE DEF P, depth
<1>3. n \in P
  BY <1>2, SizeInduction
<1> QED BY <1>3 DEF P

\* One level of it.
LEMMA LevelsStep ==
  ASSUME NEW n \in Nat, NEW f, LevelsUpTo(n, f), NEW j \in 0..n
  PROVE  f[j] = IF j = 0 THEN {} ELSE Nodes(f[j - 1])
<1> DEFINE B(k) == IF k = 0 THEN {} ELSE Nodes(f[k - 1])
<1>1. f = [k \in 0..n |-> B(k)]
  BY DEF LevelsUpTo
<1> HIDE DEF B
<1>2. f[j] = B(j)
  BY <1>1
<1> QED BY <1>2 DEF B

\* Two of them agree.
LEMMA LevelsAgree ==
  ASSUME NEW n \in Nat, NEW m \in Nat, NEW f, NEW g, LevelsUpTo(n, f), LevelsUpTo(m, g),
         NEW k \in Nat, k <= n, k <= m
  PROVE  f[k] = g[k]
<1> DEFINE depth == [i \in Nat |-> i]
           P == {i \in Nat : i <= n /\ i <= m => f[i] = g[i]}
<1>1. ASSUME NEW i \in Nat, \A j \in Nat : depth[j] < depth[i] => j \in P
      PROVE  i \in P
  <2>1. SUFFICES ASSUME i <= n, i <= m PROVE f[i] = g[i]
    OBVIOUS
  <2>2. i \in 0..n /\ i \in 0..m
    BY <2>1
  <2>3. CASE i = 0
    BY <2>2, <2>3, LevelsStep
  <2>4. CASE i # 0
    <3>1. f[i - 1] = g[i - 1]
      BY <1>1, <2>1, <2>4
    <3>2. f[i] = Nodes(f[i - 1]) /\ g[i] = Nodes(g[i - 1])
      BY <2>2, <2>4, LevelsStep
    <3> QED BY <3>1, <3>2
  <2> QED BY <2>3, <2>4
<1>2. Inductive(Nat, depth, P)
  BY <1>1 DEF Inductive
<1> HIDE DEF P, depth
<1>3. k \in P
  BY <1>2, SizeInduction
<1> QED BY <1>3 DEF P

\* Stamps is the function its definition says.
LEMMA StampsIs ==
  \A n \in Nat : Stamps[n] = IF n = 0 THEN {} ELSE Nodes(Stamps[n - 1])
<1> DEFINE L(n) == CHOOSE f : LevelsUpTo(n, f)
           G == [n \in Nat |-> L(n)[n]]
           B(n, g) == IF n = 0 THEN {} ELSE Nodes(g[n - 1])
<1>1. ASSUME NEW n \in Nat
      PROVE  LevelsUpTo(n, L(n))
  BY LevelsExist
<1> HIDE DEF L
<1>2. ASSUME NEW n \in Nat
      PROVE  L(n)[n] = B(n, G)
  <2>0. n \in 0..n
    OBVIOUS
  <2>1. L(n)[n] = IF n = 0 THEN {} ELSE Nodes(L(n)[n - 1])
    BY <1>1, <2>0, LevelsStep
  <2>2. CASE n # 0
    <3>1. n - 1 \in Nat /\ n - 1 <= n
      BY <2>2
    <3> DEFINE m == n - 1
    <3> HIDE DEF m
    <3>2. m \in Nat /\ m <= n /\ m <= m
      BY <3>1 DEF m
    <3>3. L(n)[m] = L(m)[m]
      BY <1>1, <3>2, LevelsAgree
    <3>4. G[m] = L(m)[m]
      BY <3>2
    <3> QED BY <2>1, <2>2, <3>3, <3>4 DEF m
  <2> QED BY <2>1, <2>2
<1>3. G = [n \in Nat |-> B(n, G)]
  <2> DEFINE H == G
  <2>1. \A n \in Nat : L(n)[n] = B(n, H)
    BY <1>2
  <2>2. H = [n \in Nat |-> L(n)[n]]
    OBVIOUS
  <2> HIDE DEF H, B
  <2>3. H = [n \in Nat |-> B(n, H)]
    BY <2>1, <2>2
  <2> QED BY <2>3 DEF H
<1> HIDE DEF G
<1>4. \E g : g = [n \in Nat |-> B(n, g)]
  BY <1>3
<1>5. Stamps = [n \in Nat |-> B(n, Stamps)]
  <2>1. Stamps = CHOOSE g : g = [n \in Nat |-> B(n, g)]
    BY DEF Stamps, Nodes
  <2> HIDE DEF B
  <2> QED BY <1>4, <2>1
<1> HIDE DEF B
<1>6. \A n \in Nat : Stamps[n] = B(n, Stamps)
  BY <1>5
<1> QED BY <1>6 DEF B

\* More children, more timestamps.
LEMMA NodesMonotone ==
  ASSUME NEW X, NEW Y, X \subseteq Y
  PROVE  Nodes(X) \subseteq Nodes(Y)
<1> DEFINE C == [op : Op, stamp : X]
           D == [op : Op, stamp : Y]
<1>1. C \subseteq D
  OBVIOUS
<1> HIDE DEF C, D
<1>2. ASSUME NEW s \in Seq(C) PROVE s \in Seq(D)
  <2>1. s \in [1..Len(s) -> C] /\ Len(s) \in Nat
    OBVIOUS
  <2>2. s \in [1..Len(s) -> D]
    BY <1>1, <2>1
  <2> QED BY <2>1, <2>2
<1>3. [atts : Seq(Attestation), ops : Seq(C)] \subseteq [atts : Seq(Attestation), ops : Seq(D)]
  BY <1>2
<1> QED BY <1>3 DEF Nodes, C, D

\* What is nested at most n deep is nested at most n + 1 deep.
LEMMA StampsStep ==
  ASSUME NEW n \in Nat
  PROVE  Stamps[n] \subseteq Stamps[n + 1]
<1> DEFINE depth == [i \in Nat |-> i]
           P == {i \in Nat : Stamps[i] \subseteq Stamps[i + 1]}
<1>1. ASSUME NEW i \in Nat, \A j \in Nat : depth[j] < depth[i] => j \in P
      PROVE  i \in P
  <2>1. CASE i = 0
    BY <2>1, StampsIs
  <2>2. CASE i # 0
    <3>1. Stamps[i - 1] \subseteq Stamps[(i - 1) + 1] /\ (i - 1) + 1 = i
      BY <1>1, <2>2
    <3>2. Stamps[i] = Nodes(Stamps[i - 1])
      BY <2>2, StampsIs
    <3>3. Stamps[i + 1] = Nodes(Stamps[i])
      <4>1. i + 1 \in Nat /\ i + 1 # 0 /\ (i + 1) - 1 = i
        OBVIOUS
      <4> QED BY <4>1, StampsIs
    <3> QED BY <3>1, <3>2, <3>3, NodesMonotone
  <2> QED BY <2>1, <2>2
<1>2. Inductive(Nat, depth, P)
  BY <1>1 DEF Inductive
<1> HIDE DEF P, depth
<1>3. n \in P
  BY <1>2, SizeInduction
<1> QED BY <1>3 DEF P

\* What is nested at most n deep is nested at most m deep, for m above n.
LEMMA StampsMonotone ==
  ASSUME NEW n \in Nat, NEW m \in Nat, n <= m
  PROVE  Stamps[n] \subseteq Stamps[m]
<1> DEFINE depth == [i \in Nat |-> i]
           P == {i \in Nat : n <= i => Stamps[n] \subseteq Stamps[i]}
<1>1. ASSUME NEW i \in Nat, \A j \in Nat : depth[j] < depth[i] => j \in P
      PROVE  i \in P
  <2>1. CASE i <= n
    BY <2>1
  <2>2. CASE ~(i <= n)
    <3>1. Stamps[n] \subseteq Stamps[i - 1]
      BY <1>1, <2>2
    <3>2. Stamps[i - 1] \subseteq Stamps[(i - 1) + 1] /\ (i - 1) + 1 = i
      BY <2>2, StampsStep
    <3> QED BY <3>1, <3>2
  <2> QED BY <2>1, <2>2
<1>2. Inductive(Nat, depth, P)
  BY <1>1 DEF Inductive
<1> HIDE DEF P, depth
<1>3. m \in P
  BY <1>2, SizeInduction
<1> QED BY <1>3 DEF P

-----------------------------------------------------------------------------
(***************************************************************************)
(* Sorting.                                                                *)
(***************************************************************************)

\* A strict partial order of the members of S, as a set of pairs.
Order(S, R) ==
  /\ \A x \in S : <<x, x>> \notin R
  /\ \A x, y, z \in S : <<x, y>> \in R /\ <<y, z>> \in R => <<x, z>> \in R

\* p puts the first n elements of s in order.
Arranged(s, R, n, p) ==
  /\ p \in Bijection(1..n, 1..n)
  /\ \A i, j \in 1..n : i < j => <<s[p[j]], s[p[i]]>> \notin R

\* A bijection of 1..n with itself.
LEMMA PermutationIs ==
  ASSUME NEW n \in Nat, NEW p
  PROVE  p \in Bijection(1..n, 1..n) <=>
           /\ p \in [1..n -> 1..n]
           /\ \A i, j \in 1..n : p[i] = p[j] => i = j
           /\ \A k \in 1..n : \E i \in 1..n : p[i] = k
BY DEF Bijection, Injection, Surjection, IsInjective

\* Insertion sort: one more element is put in its place.
LEMMA Insert ==
  ASSUME NEW S, NEW R, Order(S, R), NEW s \in Seq(S), NEW n \in Nat, n + 1 <= Len(s),
         NEW p, Arranged(s, R, n, p)
  PROVE  \E q : Arranged(s, R, n + 1, q)
<1> DEFINE x == s[n + 1]
           K == {k \in Nat : k \in 1..(n + 1) /\ (k <= n => <<x, s[p[k]]>> \in R)}
<1>1. /\ p \in [1..n -> 1..n]
      /\ \A i, j \in 1..n : p[i] = p[j] => i = j
      /\ \A k \in 1..n : \E i \in 1..n : p[i] = k
  BY PermutationIs DEF Arranged
<1>2. \A i, j \in 1..n : i < j => <<s[p[j]], s[p[i]]>> \notin R
  BY DEF Arranged
<1>3. x \in S /\ \A i \in 1..n : s[p[i]] \in S
  <2>1. \A i \in 1..Len(s) : s[i] \in S
    OBVIOUS
  <2>2. n + 1 \in 1..Len(s) /\ \A i \in 1..n : p[i] \in 1..n /\ p[i] \in 1..Len(s)
    BY <1>1
  <2> QED BY <2>1, <2>2
<1>4. PICK k \in K : \A j \in K : k <= j
  <2>1. n + 1 \in K /\ K \subseteq Nat
    OBVIOUS
  <2> HIDE DEF K
  <2> QED BY <2>1, Least
<1>5. /\ k \in 1..(n + 1) /\ (k <= n => <<x, s[p[k]]>> \in R)
      /\ \A i \in 1..n : i < k => <<x, s[p[i]]>> \notin R
  BY <1>4
<1> HIDE DEF K, x
<1>6. \A i \in 1..n : i >= k => <<s[p[i]], x>> \notin R
  <2> SUFFICES ASSUME NEW i \in 1..n, i >= k, <<s[p[i]], x>> \in R
               PROVE  FALSE
    OBVIOUS
  <2>1. k \in 1..n /\ <<x, s[p[k]]>> \in R
    BY <1>5
  <2>2. <<s[p[i]], s[p[k]]>> \in R
    BY <1>3, <2>1 DEF Order
  <2>3. i = k \/ k < i
    BY <2>1
  <2> QED BY <1>2, <1>3, <2>1, <2>2, <2>3 DEF Order
<1> DEFINE q == [i \in 1..(n + 1) |-> IF i < k THEN p[i] ELSE IF i = k THEN n + 1 ELSE p[i - 1]]
<1>7. \A i \in 1..(n + 1) :
        /\ i < k => i \in 1..n /\ q[i] = p[i]
        /\ i = k => q[i] = n + 1
        /\ i > k => i - 1 \in 1..n /\ i - 1 >= k /\ q[i] = p[i - 1]
  BY <1>5
<1>8. q \in [1..(n + 1) -> 1..(n + 1)]
  <2>1. \A i \in 1..n : p[i] \in 1..(n + 1)
    BY <1>1
  <2>2. \A i \in 1..(n + 1) : q[i] \in 1..(n + 1)
    <3> HIDE DEF q
    <3> SUFFICES ASSUME NEW i \in 1..(n + 1) PROVE q[i] \in 1..(n + 1)
      OBVIOUS
    <3>1. CASE i < k
      BY <1>7, <2>1, <3>1
    <3>2. CASE i = k
      BY <1>7, <3>2
    <3>3. CASE i > k
      BY <1>7, <2>1, <3>3
    <3> QED BY <1>5, <3>1, <3>2, <3>3
  <2> QED BY <2>2
<1> HIDE DEF q
<1>9. ASSUME NEW i \in 1..(n + 1), NEW j \in 1..(n + 1), q[i] = q[j]
      PROVE  i = j
  <2>1. ASSUME NEW a \in 1..(n + 1), a # k
        PROVE  \E b \in 1..n : q[a] = p[b] /\ b = (IF a < k THEN a ELSE a - 1) /\ q[a] # n + 1
    <3>1. \A b \in 1..n : p[b] # n + 1
      BY <1>1
    <3>2. CASE a < k
      <4>1. a \in 1..n /\ q[a] = p[a]
        BY <1>7, <3>2
      <4> QED BY <3>1, <3>2, <4>1
    <3>3. CASE a > k
      <4>1. a - 1 \in 1..n /\ q[a] = p[a - 1] /\ ~(a < k)
        BY <1>5, <1>7, <3>3
      <4> QED BY <3>1, <4>1
    <3> QED BY <1>5, <2>1, <3>2, <3>3
  <2>2. CASE i = k \/ j = k
    BY <1>7, <1>9, <2>1, <2>2
  <2>3. CASE i # k /\ j # k
    <3>1. PICK b \in 1..n : q[i] = p[b] /\ b = (IF i < k THEN i ELSE i - 1)
      BY <2>1, <2>3
    <3>2. PICK d \in 1..n : q[j] = p[d] /\ d = (IF j < k THEN j ELSE j - 1)
      BY <2>1, <2>3
    <3>3. b = d
      BY <1>1, <1>9, <3>1, <3>2
    <3> QED BY <1>5, <2>3, <3>1, <3>2, <3>3
  <2> QED BY <2>2, <2>3
<1>10. ASSUME NEW m \in 1..(n + 1)
       PROVE  \E i \in 1..(n + 1) : q[i] = m
  <2>1. CASE m = n + 1
    BY <1>5, <1>7, <2>1
  <2>2. CASE m # n + 1
    <3>1. PICK a \in 1..n : p[a] = m
      BY <1>1, <2>2
    <3>2. CASE a < k
      BY <1>7, <3>1, <3>2
    <3>3. CASE ~(a < k)
      <4>1. a + 1 \in 1..(n + 1) /\ a + 1 > k /\ (a + 1) - 1 = a
        BY <1>5, <3>3
      <4> QED BY <1>7, <3>1, <4>1
    <3> QED BY <3>2, <3>3
  <2> QED BY <2>1, <2>2
<1>11. ASSUME NEW i \in 1..(n + 1), NEW j \in 1..(n + 1), i < j
       PROVE  <<s[q[j]], s[q[i]]>> \notin R
  <2>1. CASE j < k
    BY <1>2, <1>5, <1>7, <1>11, <2>1
  <2>2. CASE j = k
    <3>1. i \in 1..n /\ i < k /\ q[i] = p[i] /\ s[q[j]] = x
      BY <1>5, <1>7, <1>11, <2>2 DEF x
    <3> QED BY <1>5, <3>1
  <2>3. CASE j > k
    <3>1. j - 1 \in 1..n /\ j - 1 >= k /\ q[j] = p[j - 1]
      BY <1>7, <2>3
    <3>2. CASE i = k
      <4>1. s[q[i]] = x
        BY <1>7, <3>2 DEF x
      <4> QED BY <1>6, <3>1, <4>1
    <3>3. CASE i < k
      <4>1. i \in 1..n /\ q[i] = p[i] /\ i < j - 1
        BY <1>5, <1>7, <3>1, <3>3
      <4> QED BY <1>2, <3>1, <4>1
    <3>4. CASE i > k
      <4>1. i - 1 \in 1..n /\ q[i] = p[i - 1] /\ i - 1 < j - 1
        BY <1>7, <1>11, <3>4
      <4> QED BY <1>2, <3>1, <4>1
    <3> QED BY <1>5, <3>2, <3>3, <3>4
  <2> QED BY <1>5, <2>1, <2>2, <2>3
<1>12. n + 1 \in Nat
  OBVIOUS
<1>13. q \in Bijection(1..(n + 1), 1..(n + 1))
  BY <1>8, <1>9, <1>10, <1>12, PermutationIs
<1> QED BY <1>11, <1>13 DEF Arranged

\* Every sequence can be sorted.
LEMMA SortExists ==
  ASSUME NEW S, NEW R, Order(S, R), NEW s \in Seq(S)
  PROVE  \E p : Arranged(s, R, Len(s), p)
<1> DEFINE depth == [i \in Nat |-> i]
           P == {i \in Nat : i <= Len(s) => \E p : Arranged(s, R, i, p)}
<1>1. ASSUME NEW i \in Nat, \A j \in Nat : depth[j] < depth[i] => j \in P
      PROVE  i \in P
  <2>1. CASE i = 0
    <3> DEFINE p == [j \in 1..0 |-> j]
    <3>1. p \in Bijection(1..0, 1..0)
      BY PermutationIs
    <3> HIDE DEF p
    <3>2. Arranged(s, R, 0, p)
      BY <3>1 DEF Arranged
    <3> QED BY <2>1, <3>2
  <2>2. CASE i # 0
    <3> DEFINE m == i - 1
    <3>1. m \in Nat /\ m + 1 = i /\ depth[m] < depth[i]
      BY <2>2
    <3> HIDE DEF m
    <3>2. SUFFICES ASSUME i <= Len(s) PROVE \E p : Arranged(s, R, i, p)
      OBVIOUS
    <3>3. PICK p : Arranged(s, R, m, p)
      BY <1>1, <3>1, <3>2
    <3> QED BY <3>1, <3>2, <3>3, Insert
  <2> QED BY <2>1, <2>2
<1>2. Inductive(Nat, depth, P)
  BY <1>1 DEF Inductive
<1> HIDE DEF P, depth
<1>3. Len(s) \in P
  BY <1>2, SizeInduction
<1> QED BY <1>3 DEF P

-----------------------------------------------------------------------------
(***************************************************************************)
(* The orders of attestations and ops.                                     *)
(***************************************************************************)

\* bytes.Compare is transitive.
LEMMA LessTransitive ==
  ASSUME NEW s \in Seq(Nat), NEW t \in Seq(Nat), NEW u \in Seq(Nat), Less(s, t), Less(t, u)
  PROVE  Less(s, u)
<1>1. /\ \A j \in 1..Len(s) : s[j] \in Nat
      /\ \A j \in 1..Len(t) : t[j] \in Nat
      /\ \A j \in 1..Len(u) : u[j] \in Nat
      /\ DOMAIN s = 1..Len(s) /\ DOMAIN t = 1..Len(t) /\ DOMAIN u = 1..Len(u)
      /\ Len(s) \in Nat /\ Len(t) \in Nat /\ Len(u) \in Nat
  OBVIOUS
<1>2. PICK i \in 1..Len(t) : /\ \A j \in 1..(i - 1) : j <= Len(s) /\ s[j] = t[j]
                             /\ i > Len(s) \/ s[i] < t[i]
  BY <1>1 DEF Less
<1>3. PICK k \in 1..Len(u) : /\ \A j \in 1..(k - 1) : j <= Len(t) /\ t[j] = u[j]
                             /\ k > Len(t) \/ t[k] < u[k]
  BY <1>1 DEF Less
<1>4. ASSUME NEW m \in 1..Len(u), \A j \in 1..(m - 1) : j <= Len(s) /\ s[j] = u[j],
             m > Len(s) \/ s[m] < u[m]
      PROVE  Less(s, u)
  BY <1>1, <1>4 DEF Less
<1>5. CASE i < k
  <2>1. i \in 1..Len(u) /\ t[i] = u[i]
    BY <1>1, <1>2, <1>3, <1>5
  <2>2. \A j \in 1..(i - 1) : j <= Len(s) /\ s[j] = u[j]
    BY <1>1, <1>2, <1>3, <1>5
  <2> QED BY <1>2, <1>4, <2>1, <2>2
<1>6. CASE i = k
  <2>1. t[i] < u[i] /\ i \in 1..Len(u)
    BY <1>1, <1>2, <1>3, <1>6
  <2>2. i > Len(s) \/ s[i] < u[i]
    <3>1. CASE s[i] < t[i] /\ ~(i > Len(s))
      <4>1. i \in 1..Len(s)
        BY <1>1, <3>1
      <4>2. s[i] \in Nat /\ t[i] \in Nat /\ u[i] \in Nat
        BY <1>1, <1>2, <2>1, <4>1
      <4>3. \A p, q, r \in Nat : p < q /\ q < r => p < r
        OBVIOUS
      <4>4. s[i] < t[i] /\ t[i] < u[i]
        BY <2>1, <3>1
      <4> QED BY <4>2, <4>3, <4>4
    <3> QED BY <1>2, <3>1
  <2>3. \A j \in 1..(i - 1) : j <= Len(s) /\ s[j] = u[j]
    BY <1>1, <1>2, <1>3, <1>6
  <2> QED BY <1>4, <2>1, <2>2, <2>3
<1>7. CASE k < i
  <2>1. k \in 1..(i - 1) /\ k \in 1..Len(t) /\ t[k] < u[k]
    BY <1>1, <1>2, <1>3, <1>7
  <2>2. s[k] = t[k]
    BY <1>2, <2>1
  <2>3. \A j \in 1..(k - 1) : j <= Len(s) /\ s[j] = u[j]
    BY <1>1, <1>2, <1>3, <1>7
  <2> QED BY <1>4, <2>1, <2>2, <2>3
<1> QED BY <1>5, <1>6, <1>7

\* No string is less than itself.
LEMMA LessIrreflexive ==
  ASSUME NEW s \in Seq(Nat)
  PROVE  ~Less(s, s)
<1>1. \A i \in 1..Len(s) : s[i] \in Nat /\ ~(s[i] < s[i]) /\ ~(i > Len(s))
  OBVIOUS
<1> QED BY <1>1 DEF Less

\* u has the elements of s in some order.
Permuted(s, u) == \E p \in Bijection(DOMAIN s, DOMAIN s) : u = [i \in DOMAIN s |-> s[p[i]]]

\* Every sequence has an order that Sorted can choose.
LEMMA ArrangedIs ==
  ASSUME NEW S, NEW s \in Seq(S), NEW R, Order(S, R)
  PROVE  \E p \in Bijection(DOMAIN s, DOMAIN s) :
           \A i, j \in DOMAIN s : i < j => <<s[p[j]], s[p[i]]>> \notin R
<1>1. DOMAIN s = 1..Len(s)
  OBVIOUS
<1>2. PICK p : Arranged(s, R, Len(s), p)
  BY SortExists
<1> QED BY <1>1, <1>2 DEF Arranged

\* Sorting attestations keeps all of them, and puts them in order.
LEMMA SortAttestationsIs ==
  ASSUME NEW s \in Seq(Attestation)
  PROVE  /\ Permuted(s, SortAttestations(s))
         /\ \A i, j \in DOMAIN s : i < j => ~AttestationLess(SortAttestations(s)[j], SortAttestations(s)[i])
<1> DEFINE S == Attestation
           R == {w \in S \X S : AttestationLess(w[1], w[2])}
           Q(p) == \A i, j \in DOMAIN s : i < j => ~AttestationLess(s[p[j]], s[p[i]])
<1>1. ASSUME NEW a \in S PROVE a.tag \o a.val \in Seq(Nat)
  <2>1. a.tag \in Seq(Nat) /\ a.val \in Seq(Nat)
    BY ByteNat DEF Attestation, Bytes
  <2> QED BY <2>1
<1>2. \A a, b \in S : <<a, b>> \in R <=> AttestationLess(a, b)
  OBVIOUS
<1> HIDE DEF R
<1>3. Order(S, R)
  <2>1. ASSUME NEW a \in S PROVE ~AttestationLess(a, a)
    BY <1>1, LessIrreflexive DEF AttestationLess
  <2>2. ASSUME NEW a \in S, NEW b \in S, NEW c \in S, AttestationLess(a, b), AttestationLess(b, c)
        PROVE  AttestationLess(a, c)
    <3>1. a.tag \o a.val \in Seq(Nat) /\ b.tag \o b.val \in Seq(Nat) /\ c.tag \o c.val \in Seq(Nat)
      BY <1>1
    <3> QED BY <2>2, <3>1, LessTransitive DEF AttestationLess
  <2> QED BY <1>2, <2>1, <2>2 DEF Order
<1>4. PICK p \in Bijection(DOMAIN s, DOMAIN s) :
        \A i, j \in DOMAIN s : i < j => <<s[p[j]], s[p[i]]>> \notin R
  BY <1>3, ArrangedIs
<1>5. Q(p)
  <2>1. p \in [DOMAIN s -> DOMAIN s]
    BY DEF Bijection, Injection
  <2>2. \A i \in DOMAIN s : s[p[i]] \in S
    BY <2>1
  <2> QED BY <1>2, <1>4, <2>2
<1> HIDE DEF Q
<1> DEFINE c == CHOOSE c \in Bijection(DOMAIN s, DOMAIN s) : Q(c)
<1>6. c \in Bijection(DOMAIN s, DOMAIN s) /\ Q(c)
  BY <1>5
<1>7. SortAttestations(s) = [i \in DOMAIN s |-> s[c[i]]]
  BY DEF SortAttestations, Sorted, Q
<1> HIDE DEF c
<1>8. Permuted(s, SortAttestations(s))
  BY <1>6, <1>7 DEF Permuted
<1>9. \A i, j \in DOMAIN s : i < j => ~AttestationLess(SortAttestations(s)[j], SortAttestations(s)[i])
  BY <1>6, <1>7 DEF Q
<1> QED BY <1>8, <1>9

\* Sorting ops keeps all of them, with what is under them, and puts them in
\* order.
LEMMA SortOpsIs ==
  ASSUME NEW X, NEW s \in Seq([op : Op, stamp : X])
  PROVE  /\ Permuted(s, SortOps(s))
         /\ \A i, j \in DOMAIN s : i < j => ~OpLess(SortOps(s)[j], SortOps(s)[i])
<1> DEFINE S == [op : Op, stamp : X]
           R == {w \in S \X S : OpLess(w[1], w[2])}
           Q(p) == \A i, j \in DOMAIN s : i < j => ~OpLess(s[p[j]], s[p[i]])
           B(a) == <<a.op.tag>> \o a.op.arg
<1>1. ASSUME NEW a \in S PROVE B(a) \in Seq(Nat)
  <2>1. a.op \in Op
    OBVIOUS
  <2>2. a.op.tag \in Byte /\ a.op.arg \in Seq(Byte)
    <3> DEFINE o == a.op
    <3>1. o \in Op
      BY <2>1
    <3> HIDE DEF o
    <3>2. o.tag \in Byte /\ o.arg \in Seq(Byte)
      BY <3>1, OpIs
    <3> QED BY <3>2 DEF o
  <2>3. a.op.tag \in Nat /\ a.op.arg \in Seq(Nat)
    BY <2>2, ByteNat, ByteIs
  <2> QED BY <2>3, Prepended
<1>2. \A a, b \in S : <<a, b>> \in R <=> OpLess(a, b)
  OBVIOUS
<1>3. \A a, b : OpLess(a, b) <=> Less(B(a), B(b))
  BY DEF OpLess
<1> HIDE DEF R, B
<1>4. Order(S, R)
  <2>1. ASSUME NEW a \in S PROVE ~OpLess(a, a)
    BY <1>1, <1>3, LessIrreflexive
  <2>2. ASSUME NEW a \in S, NEW b \in S, NEW c \in S, OpLess(a, b), OpLess(b, c)
        PROVE  OpLess(a, c)
    BY <1>1, <1>3, <2>2, LessTransitive
  <2> HIDE DEF S
  <2> QED BY <1>2, <2>1, <2>2 DEF Order
<1>5. PICK p \in Bijection(DOMAIN s, DOMAIN s) :
        \A i, j \in DOMAIN s : i < j => <<s[p[j]], s[p[i]]>> \notin R
  BY <1>4, ArrangedIs
<1>6. Q(p)
  <2>1. p \in [DOMAIN s -> DOMAIN s]
    BY DEF Bijection, Injection
  <2>2. \A i \in DOMAIN s : s[p[i]] \in S
    <3> HIDE DEF S
    <3>1. s \in Seq(S)
      BY DEF S
    <3> QED BY <2>1, <3>1
  <2> HIDE DEF S
  <2> QED BY <1>2, <1>5, <2>2
<1> HIDE DEF Q
<1> DEFINE c == CHOOSE c \in Bijection(DOMAIN s, DOMAIN s) : Q(c)
<1>7. c \in Bijection(DOMAIN s, DOMAIN s) /\ Q(c)
  BY <1>6
<1>8. SortOps(s) = [i \in DOMAIN s |-> s[c[i]]]
  BY DEF SortOps, Sorted, Q
<1> HIDE DEF c
<1>9. Permuted(s, SortOps(s))
  BY <1>7, <1>8 DEF Permuted
<1>10. \A i, j \in DOMAIN s : i < j => ~OpLess(SortOps(s)[j], SortOps(s)[i])
  BY <1>7, <1>8 DEF Q
<1> QED BY <1>9, <1>10

\* A permuted sequence has the same length and the same elements.
LEMMA PermutedIs ==
  ASSUME NEW S, NEW s \in Seq(S), NEW u, Permuted(s, u)
  PROVE  /\ u \in Seq(S) /\ Len(u) = Len(s) /\ DOMAIN u = DOMAIN s
         /\ \A i \in DOMAIN u : \E j \in DOMAIN s : u[i] = s[j]
         /\ \A j \in DOMAIN s : \E i \in DOMAIN u : u[i] = s[j]
<1>1. PICK p \in Bijection(DOMAIN s, DOMAIN s) : u = [i \in DOMAIN s |-> s[p[i]]]
  BY DEF Permuted
<1>2. /\ p \in [DOMAIN s -> DOMAIN s]
      /\ \A k \in DOMAIN s : \E i \in DOMAIN s : p[i] = k
  BY DEF Bijection, Injection, Surjection
<1>3. DOMAIN s = 1..Len(s) /\ Len(s) \in Nat
  OBVIOUS
<1>4. \A i \in 1..Len(s) : u[i] = s[p[i]] /\ u[i] \in S
  BY <1>1, <1>2, <1>3
<1>5. u \in [1..Len(s) -> S]
  BY <1>1, <1>2, <1>3, <1>4
<1>6. u \in Seq(S) /\ Len(u) = Len(s) /\ DOMAIN u = DOMAIN s
  BY <1>3, <1>5
<1>7. \A i \in DOMAIN u : \E j \in DOMAIN s : u[i] = s[j]
  BY <1>2, <1>3, <1>4, <1>6
<1>8. ASSUME NEW j \in DOMAIN s PROVE \E i \in DOMAIN u : u[i] = s[j]
  <2>1. PICK i \in DOMAIN s : p[i] = j
    BY <1>2
  <2>2. i \in DOMAIN u /\ u[i] = s[j]
    BY <1>3, <1>4, <1>6, <2>1
  <2> QED BY <2>2
<1> QED BY <1>6, <1>7, <1>8

-----------------------------------------------------------------------------
(***************************************************************************)
(* Trees.                                                                  *)
(***************************************************************************)

\* An op and what is under it.
Edge == [op : Op, stamp : Stamp]

\* Nodes with edges in E.
Lists(E) == [atts : Seq(Attestation), ops : Seq(E)]

\* The recursion limit is within the bound on nesting.
LEMMA Nesting == MaxNesting \in Nat /\ RecursionLimit \in Nat /\ RecursionLimit # 0 /\ RecursionLimit <= MaxNesting
BY NestingAssumption

\* The parts of a timestamp.
LEMMA NodeIs ==
  ASSUME NEW n \in Nat, NEW t \in Stamps[n]
  PROVE  /\ n # 0 /\ n - 1 \in Nat
         /\ t.atts \in Seq(Attestation) /\ t.ops \in Seq([op : Op, stamp : Stamps[n - 1]])
         /\ t = [atts |-> t.atts, ops |-> t.ops]
<1>1. n # 0
  BY StampsIs
<1>2. t \in Nodes(Stamps[n - 1])
  BY <1>1, StampsIs
<1> DEFINE X == Stamps[n - 1]
<1> HIDE DEF X
<1>3. t \in Nodes(X)
  BY <1>2 DEF X
<1>4. t.atts \in Seq(Attestation) /\ t.ops \in Seq([op : Op, stamp : X]) /\ t = [atts |-> t.atts, ops |-> t.ops]
  BY <1>3 DEF Nodes
<1> QED BY <1>1, <1>4 DEF X

\* What makes a timestamp.
LEMMA IsNode ==
  ASSUME NEW n \in Nat, n # 0, NEW a \in Seq(Attestation), NEW o \in Seq([op : Op, stamp : Stamps[n - 1]])
  PROVE  [atts |-> a, ops |-> o] \in Stamps[n]
<1>1. [atts |-> a, ops |-> o] \in Nodes(Stamps[n - 1])
  BY DEF Nodes
<1> QED BY <1>1, StampsIs

\* Sequences over a subset.
LEMMA SeqSubset ==
  ASSUME NEW C, NEW D, C \subseteq D, NEW s \in Seq(C)
  PROVE  s \in Seq(D)
<1>1. s \in [1..Len(s) -> C] /\ Len(s) \in Nat
  OBVIOUS
<1>2. s \in [1..Len(s) -> D]
  BY <1>1
<1> QED BY <1>1, <1>2

\* A child is nested one level less deep.
LEMMA ChildIn ==
  ASSUME NEW n \in Nat, NEW t \in Stamps[n], NEW i \in DOMAIN t.ops
  PROVE  /\ t.ops[i] \in [op : Op, stamp : Stamps[n - 1]] /\ t.ops[i].op \in Op
         /\ t.ops[i].stamp \in Stamps[n - 1] /\ n - 1 \in Nat /\ n # 0
<1> DEFINE X == Stamps[n - 1]
<1> HIDE DEF X
<1>1. t.ops \in Seq([op : Op, stamp : X]) /\ n - 1 \in Nat /\ n # 0
  BY NodeIs DEF X
<1>2. t.ops[i] \in [op : Op, stamp : X]
  <2> DEFINE C == [op : Op, stamp : X]
  <2> HIDE DEF C
  <2>1. t.ops \in Seq(C)
    BY <1>1 DEF C
  <2>2. t.ops[i] \in C
    BY <2>1
  <2> QED BY <2>2 DEF C
<1>3. t.ops[i].op \in Op /\ t.ops[i].stamp \in X
  BY <1>2
<1> QED BY <1>1, <1>2, <1>3 DEF X

\* The number of levels of t.
Level(t) == CHOOSE n \in Nat : t \in Stamps[n] /\ \A m \in Nat : t \in Stamps[m] => n <= m

\* Level is the depth.
LEMMA LevelIs ==
  ASSUME NEW k \in Nat, NEW t \in Stamps[k]
  PROVE  /\ Level(t) \in Nat /\ t \in Stamps[Level(t)] /\ Level(t) <= k
         /\ \A m \in Nat : t \in Stamps[m] => Level(t) <= m
<1> DEFINE N == {n \in Nat : t \in Stamps[n]}
<1>1. PICK n \in N : \A m \in N : n <= m
  <2>1. N \subseteq Nat /\ N # {}
    OBVIOUS
  <2> HIDE DEF N
  <2> QED BY <2>1, Least
<1>2. n \in Nat /\ t \in Stamps[n] /\ \A m \in Nat : t \in Stamps[m] => n <= m
  BY <1>1
<1>3. Level(t) \in Nat /\ t \in Stamps[Level(t)] /\ \A m \in Nat : t \in Stamps[m] => Level(t) <= m
  BY <1>2 DEF Level
<1> QED BY <1>3

\* A child is less deep than its parent: what recursion over trees rests on.
LEMMA ChildLevel ==
  ASSUME NEW t \in Stamp, NEW i \in DOMAIN t.ops
  PROVE  /\ t.ops[i] \in Edge /\ t.ops[i].op \in Op /\ t.ops[i].stamp \in Stamp
         /\ Level(t.ops[i].stamp) \in Nat /\ Level(t) \in Nat
         /\ Level(t.ops[i].stamp) < Level(t)
         /\ t.ops[i].stamp \in Stamps[Level(t) - 1] /\ Level(t) - 1 \in Nat
<1> DEFINE n == Level(t)
           c == t.ops[i].stamp
<1>1. MaxNesting \in Nat /\ t \in Stamps[MaxNesting]
  BY Nesting DEF Stamp
<1>2. n \in Nat /\ t \in Stamps[n] /\ n <= MaxNesting
  BY <1>1, LevelIs
<1> HIDE DEF n
<1>3. /\ t.ops[i] \in [op : Op, stamp : Stamps[n - 1]] /\ t.ops[i].op \in Op
      /\ c \in Stamps[n - 1] /\ n - 1 \in Nat /\ n # 0
  BY <1>2, ChildIn
<1>4. Stamps[n - 1] \subseteq Stamps[MaxNesting]
  BY <1>1, <1>2, <1>3, StampsMonotone
<1>5. c \in Stamp /\ t.ops[i] \in Edge
  BY <1>3, <1>4 DEF Stamp, Edge
<1> HIDE DEF c
<1>6. Level(c) \in Nat /\ Level(c) <= n - 1
  BY <1>3, LevelIs
<1>7. Level(c) < n
  BY <1>2, <1>6
<1> QED BY <1>2, <1>3, <1>5, <1>6, <1>7 DEF n, c

\* A timestamp, without regard to its depth.
LEMMA StampIs ==
  ASSUME NEW t \in Stamp
  PROVE  /\ t.atts \in Seq(Attestation) /\ t.ops \in Seq(Edge)
         /\ t = [atts |-> t.atts, ops |-> t.ops] /\ t \in Lists(Edge)
         /\ Level(t) \in Nat /\ t \in Stamps[Level(t)] /\ Level(t) <= MaxNesting
<1>1. MaxNesting \in Nat /\ t \in Stamps[MaxNesting]
  BY Nesting DEF Stamp
<1>2. Level(t) \in Nat /\ t \in Stamps[Level(t)] /\ Level(t) <= MaxNesting
  BY <1>1, LevelIs
<1> DEFINE X == [op : Op, stamp : Stamps[MaxNesting - 1]]
<1>3. /\ t.atts \in Seq(Attestation) /\ t.ops \in Seq(X) /\ t = [atts |-> t.atts, ops |-> t.ops]
      /\ MaxNesting - 1 \in Nat
  BY <1>1, NodeIs
<1>4. Stamps[MaxNesting - 1] \subseteq Stamps[MaxNesting]
  BY <1>1, <1>3, StampsMonotone
<1>5. X \subseteq Edge
  BY <1>4 DEF Edge, Stamp
<1> HIDE DEF X
<1>6. t.ops \in Seq(Edge)
  BY <1>3, <1>5, SeqSubset
<1>7. t \in Lists(Edge)
  BY <1>3, <1>6 DEF Lists
<1> QED BY <1>2, <1>3, <1>6, <1>7

\* The proof nested in e, one level up.
Mapped(s, g) == [i \in DOMAIN s |-> [op |-> s[i].op, stamp |-> g[s[i].stamp]]]

\* Mapped keeps the number of edges and their ops.
LEMMA MapTyped ==
  ASSUME NEW X, NEW Y, NEW s \in Seq([op : Op, stamp : X]), NEW g, \A x \in X : g[x] \in Y
  PROVE  /\ Mapped(s, g) \in Seq([op : Op, stamp : Y]) /\ Len(Mapped(s, g)) = Len(s)
         /\ DOMAIN Mapped(s, g) = DOMAIN s
<1> DEFINE C == [op : Op, stamp : X]
           D == [op : Op, stamp : Y]
<1>1. \A e \in C : [op |-> e.op, stamp |-> g[e.stamp]] \in D
  OBVIOUS
<1>2. s \in Seq(C)
  OBVIOUS
<1> HIDE DEF C, D
<1>2a. DOMAIN s = 1..Len(s) /\ Len(s) \in Nat /\ s \in [1..Len(s) -> C]
  BY <1>2
<1>3. Mapped(s, g) \in [1..Len(s) -> D]
  BY <1>1, <1>2a DEF Mapped
<1>4. Mapped(s, g) \in Seq(D) /\ Len(Mapped(s, g)) = Len(s) /\ DOMAIN Mapped(s, g) = DOMAIN s
  BY <1>2a, <1>3
<1> QED BY <1>4 DEF D

-----------------------------------------------------------------------------
(***************************************************************************)
(* Predicates on trees.                                                    *)
(***************************************************************************)

\* The parts of a pair.
LEMMA PairIs ==
  ASSUME NEW A, NEW B, NEW c \in A \X B
  PROVE  c[1] \in A /\ c[2] \in B /\ c = <<c[1], c[2]>>
OBVIOUS

\* There is a predicate that holds of a tree whose nodes are all in A.
LEMMA TreePredicate ==
  ASSUME NEW A
  PROVE  \E f \in [Stamp -> BOOLEAN] : \A t \in Stamp :
           f[t] <=> t \in A /\ \A i \in DOMAIN t.ops : f[t.ops[i].stamp]
<1> DEFINE D == Stamp
           S == BOOLEAN
           B(t, g) == t \in A /\ \A i \in DOMAIN t.ops : g[t.ops[i].stamp]
           depth == [t \in D |-> Level(t)]
           step == [p \in D \X [D -> S] |-> B(p[1], p[2])]
<1>1. \A t \in D, g \in [D -> S] : B(t, g) \in S
  OBVIOUS
<1>2. ASSUME NEW t \in D, NEW g \in [D -> S], NEW h \in [D -> S],
             \A y \in D : depth[y] < depth[t] => g[y] = h[y]
      PROVE  step[<<t, g>>] = step[<<t, h>>]
  <2>1. ASSUME NEW i \in DOMAIN t.ops
        PROVE  g[t.ops[i].stamp] = h[t.ops[i].stamp]
    <3>1. t.ops[i].stamp \in D /\ Level(t.ops[i].stamp) < Level(t)
      BY ChildLevel
    <3> QED BY <1>2, <3>1
  <2>2. B(t, g) = B(t, h)
    BY <2>1
  <2> HIDE DEF B
  <2> QED BY <2>2
<1>3. step \in [D \X [D -> S] -> S]
  <2> HIDE DEF B
  <2> QED BY <1>1
<1>4. S # {} /\ depth \in [D -> Nat]
  BY StampIs
<1>5. PICK g \in [D -> S] : \A t \in D : g[t] = step[<<t, g>>]
  <2>1. Local(D, [D -> S], depth, step)
    <3> HIDE DEF S, depth, step, D
    <3> QED BY <1>2 DEF Local
  <2> HIDE DEF S, depth, step, D
  <2>2. PlainRecursion(D, S, depth, step)
    BY <2>1, <1>3, <1>4 DEF PlainRecursion
  <2> QED BY <2>2, SimpleRecursion
<1>6. \A t \in D : g[t] = B(t, g)
  <2> HIDE DEF B, S
  <2> QED BY <1>5
<1> QED BY <1>6

\* The same, with a number that nx passes on to the children.
LEMMA TreePairPredicate ==
  ASSUME NEW A, NEW nx \in [Op \X Nat -> Nat]
  PROVE  \E f \in [Stamp \X Nat -> BOOLEAN] : \A t \in Stamp, k \in Nat :
           f[<<t, k>>] <=>
             /\ <<t, k>> \in A
             /\ \A i \in DOMAIN t.ops : f[<<t.ops[i].stamp, nx[<<t.ops[i].op, k>>]>>]
<1> DEFINE D == Stamp \X Nat
           S == BOOLEAN
           B(t, k, g) == /\ <<t, k>> \in A
                         /\ \A i \in DOMAIN t.ops : g[<<t.ops[i].stamp, nx[<<t.ops[i].op, k>>]>>]
           depth == [c \in D |-> Level(c[1])]
           step == [p \in D \X [D -> S] |-> B(p[1][1], p[1][2], p[2])]
<1>1. \A t \in Stamp, k \in Nat, g \in [D -> S] : B(t, k, g) \in S
  OBVIOUS
<1>2. ASSUME NEW c \in D, NEW g \in [D -> S], NEW h \in [D -> S],
             \A y \in D : depth[y] < depth[c] => g[y] = h[y]
      PROVE  step[<<c, g>>] = step[<<c, h>>]
  <2> DEFINE t == c[1]
             k == c[2]
  <2>0. t \in Stamp /\ k \in Nat /\ depth[c] = Level(t)
    OBVIOUS
  <2> HIDE DEF t, k
  <2>1. ASSUME NEW i \in DOMAIN t.ops
        PROVE  g[<<t.ops[i].stamp, nx[<<t.ops[i].op, k>>]>>] =
               h[<<t.ops[i].stamp, nx[<<t.ops[i].op, k>>]>>]
    <3> DEFINE u == t.ops[i].stamp
               o == t.ops[i].op
               y == <<u, nx[<<o, k>>]>>
    <3>2. u \in Stamp /\ o \in Op /\ Level(u) < Level(t)
      BY <2>0, ChildLevel
    <3> HIDE DEF u, o
    <3>3. y \in D /\ depth[y] = Level(u)
      BY <2>0, <3>2
    <3>4. g[y] = h[y]
      BY <1>2, <2>0, <3>2, <3>3
    <3> QED BY <3>4 DEF u, o
  <2>2. B(t, k, g) = B(t, k, h)
    BY <2>1
  <2>3. step[<<c, g>>] = B(c[1], c[2], g) /\ step[<<c, h>>] = B(c[1], c[2], h)
    <3> HIDE DEF B
    <3> QED OBVIOUS
  <2> HIDE DEF B, step
  <2> QED BY <2>2, <2>3 DEF t, k
<1>3. step \in [D \X [D -> S] -> S]
  <2> HIDE DEF B
  <2> QED BY <1>1
<1>4. S # {} /\ depth \in [D -> Nat]
  <2>1. \A c \in D : Level(c[1]) \in Nat
    BY StampIs
  <2> QED BY <2>1
<1>5. PICK g \in [D -> S] : \A c \in D : g[c] = step[<<c, g>>]
  <2>1. Local(D, [D -> S], depth, step)
    <3> HIDE DEF S, depth, step, D
    <3> QED BY <1>2 DEF Local
  <2> HIDE DEF S, depth, step, D
  <2>2. PlainRecursion(D, S, depth, step)
    BY <2>1, <1>3, <1>4 DEF PlainRecursion
  <2> QED BY <2>2, SimpleRecursion
<1>6. \A t \in Stamp, k \in Nat : g[<<t, k>>] = B(t, k, g)
  <2> HIDE DEF B, S
  <2>1. \A c \in D : g[c] = B(c[1], c[2], g)
    BY <1>5
  <2> QED BY <2>1
<1>7. ASSUME NEW t \in Stamp, NEW k \in Nat
      PROVE  g[<<t, k>>] <=>
               /\ <<t, k>> \in A
               /\ \A i \in DOMAIN t.ops : g[<<t.ops[i].stamp, nx[<<t.ops[i].op, k>>]>>]
  BY <1>6
<1> QED BY <1>7

\* Serializable is the predicate its definition says.
LEMMA SerializableIs ==
  \A t \in Stamp : Serializable[t] <=> t # Empty /\ \A i \in DOMAIN t.ops : Serializable[t.ops[i].stamp]
<1> DEFINE A == {t \in Stamp : t # Empty}
           B(t, g) == t # Empty /\ \A i \in DOMAIN t.ops : g[t.ops[i].stamp]
<1>1. PICK f \in [Stamp -> BOOLEAN] : \A t \in Stamp :
           f[t] <=> t \in A /\ \A i \in DOMAIN t.ops : f[t.ops[i].stamp]
  BY TreePredicate
<1>2. \A t \in Stamp : f[t] = B(t, f)
  BY <1>1
<1>3. f = [t \in Stamp |-> B(t, f)]
  <2> HIDE DEF B
  <2> QED BY <1>2
<1>4. Serializable = [t \in Stamp |-> B(t, Serializable)]
  BY <1>3 DEF Serializable
<1>5. \A t \in Stamp : Serializable[t] = B(t, Serializable)
  <2> HIDE DEF B
  <2> QED BY <1>4
<1> QED BY <1>5

\* The length of a result is a number.
LEMMA LengthIs ==
  ASSUME NEW o \in Op, NEW len \in Nat
  PROVE  ResultLength(o, len) \in Nat
<1>1. DigestLength \in Nat /\ DigestLength - 1 \in Nat
  BY SizesAssumption
<1>2. Len(o.arg) \in Nat
  BY OpIs, StringIs
<1> QED BY <1>1, <1>2 DEF ResultLength

\* Applicable is the predicate its definition says.
LEMMA ApplicableIs ==
  \A t \in Stamp, len \in Nat :
    Applicable[<<t, len>>] <=>
      /\ len <= MaxLength
      /\ \A i \in DOMAIN t.ops : Applicable[<<t.ops[i].stamp, ResultLength(t.ops[i].op, len)>>]
<1> DEFINE D == Stamp \X Nat
           A == {c \in D : c[2] <= MaxLength}
           nx == [c \in Op \X Nat |-> ResultLength(c[1], c[2])]
           B(t, k, g) == /\ k <= MaxLength
                         /\ \A i \in DOMAIN t.ops :
                              g[<<t.ops[i].stamp, ResultLength(t.ops[i].op, k)>>]
<1>1. nx \in [Op \X Nat -> Nat]
  BY LengthIs
<1>2. \A o \in Op, k \in Nat : nx[<<o, k>>] = ResultLength(o, k)
  OBVIOUS
<1>A. \A t \in Stamp, k \in Nat : <<t, k>> \in A <=> k <= MaxLength
  OBVIOUS
<1> HIDE DEF nx, A
<1>3. PICK f \in [Stamp \X Nat -> BOOLEAN] : \A t \in Stamp, k \in Nat :
           f[<<t, k>>] <=>
             /\ <<t, k>> \in A
             /\ \A i \in DOMAIN t.ops : f[<<t.ops[i].stamp, nx[<<t.ops[i].op, k>>]>>]
  BY <1>1, TreePairPredicate
<1>4. ASSUME NEW t \in Stamp, NEW k \in Nat
      PROVE  f[<<t, k>>] = B(t, k, f)
  <2>1. \A i \in DOMAIN t.ops : nx[<<t.ops[i].op, k>>] = ResultLength(t.ops[i].op, k)
    BY <1>2, ChildLevel
  <2>2. f[<<t, k>>] \in BOOLEAN /\ B(t, k, f) \in BOOLEAN
    OBVIOUS
  <2>3. f[<<t, k>>] <=> k <= MaxLength /\ \A i \in DOMAIN t.ops : f[<<t.ops[i].stamp, nx[<<t.ops[i].op, k>>]>>]
    BY <1>3, <1>A
  <2>4. (\A i \in DOMAIN t.ops : f[<<t.ops[i].stamp, nx[<<t.ops[i].op, k>>]>>])
          <=> (\A i \in DOMAIN t.ops : f[<<t.ops[i].stamp, ResultLength(t.ops[i].op, k)>>])
    BY <2>1
  <2>5. f[<<t, k>>] <=> B(t, k, f)
    BY <2>3, <2>4
  <2> HIDE DEF B
  <2> QED BY <2>2, <2>5
<1>5. f = [c \in D |-> B(c[1], c[2], f)]
  <2>1. \A c \in D : f[c] = B(c[1], c[2], f)
    <3> HIDE DEF B
    <3> SUFFICES ASSUME NEW c \in D PROVE f[c] = B(c[1], c[2], f)
      OBVIOUS
    <3>1. c[1] \in Stamp /\ c[2] \in Nat /\ c = <<c[1], c[2]>>
      OBVIOUS
    <3> QED BY <1>4, <3>1
  <2> HIDE DEF B
  <2> QED BY <2>1
<1>6. Applicable = [c \in D |-> B(c[1], c[2], Applicable)]
  BY <1>5 DEF Applicable
<1>7. \A t \in Stamp, k \in Nat : Applicable[<<t, k>>] = B(t, k, Applicable)
  <2> HIDE DEF B
  <2> QED BY <1>6
<1> QED BY <1>7

\* The attestations of unknown kinds in t have no payload.
Readable(t) == \A i \in DOMAIN t.atts : IsUnknown(t.atts[i].tag) => t.atts[i].val = <<>>

\* Supported is the predicate its definition says.
LEMMA SupportedIs ==
  \A t \in Stamp, d \in Nat :
    Supported[<<t, d>>] <=>
      /\ d > 0 /\ Readable(t)
      /\ \A i \in DOMAIN t.ops : Supported[<<t.ops[i].stamp, d - 1>>]
<1> DEFINE D == Stamp \X Nat
           A == {c \in D : c[2] > 0 /\ Readable(c[1])}
           nx == [c \in Op \X Nat |-> IF c[2] > 0 THEN c[2] - 1 ELSE 0]
           B(t, k, g) == /\ k > 0
                         /\ Readable(t)
                         /\ \A i \in DOMAIN t.ops : g[<<t.ops[i].stamp, k - 1>>]
<1>1. nx \in [Op \X Nat -> Nat]
  OBVIOUS
<1>2. \A o \in Op, k \in Nat : k > 0 => nx[<<o, k>>] = k - 1
  OBVIOUS
<1>A. \A t \in Stamp, k \in Nat : <<t, k>> \in A <=> k > 0 /\ Readable(t)
  OBVIOUS
<1> HIDE DEF nx, A
<1>3. PICK f \in [Stamp \X Nat -> BOOLEAN] : \A t \in Stamp, k \in Nat :
           f[<<t, k>>] <=>
             /\ <<t, k>> \in A
             /\ \A i \in DOMAIN t.ops : f[<<t.ops[i].stamp, nx[<<t.ops[i].op, k>>]>>]
  BY <1>1, TreePairPredicate
<1>4. ASSUME NEW t \in Stamp, NEW k \in Nat
      PROVE  f[<<t, k>>] = B(t, k, f)
  <2>1. k > 0 => \A i \in DOMAIN t.ops : nx[<<t.ops[i].op, k>>] = k - 1
    BY <1>2, ChildLevel
  <2>2. f[<<t, k>>] \in BOOLEAN /\ B(t, k, f) \in BOOLEAN
    OBVIOUS
  <2>3. f[<<t, k>>] <=> k > 0 /\ Readable(t) /\ \A i \in DOMAIN t.ops : f[<<t.ops[i].stamp, nx[<<t.ops[i].op, k>>]>>]
    BY <1>3, <1>A
  <2>4. k > 0 => ((\A i \in DOMAIN t.ops : f[<<t.ops[i].stamp, nx[<<t.ops[i].op, k>>]>>])
          <=> (\A i \in DOMAIN t.ops : f[<<t.ops[i].stamp, k - 1>>]))
    BY <2>1
  <2>5. f[<<t, k>>] <=> B(t, k, f)
    BY <2>3, <2>4
  <2> HIDE DEF B
  <2> QED BY <2>2, <2>5
<1>5. f = [c \in D |-> B(c[1], c[2], f)]
  <2>1. \A c \in D : f[c] = B(c[1], c[2], f)
    <3> HIDE DEF B
    <3> SUFFICES ASSUME NEW c \in D PROVE f[c] = B(c[1], c[2], f)
      OBVIOUS
    <3>1. c[1] \in Stamp /\ c[2] \in Nat /\ c = <<c[1], c[2]>>
      OBVIOUS
    <3> QED BY <1>4, <3>1
  <2> HIDE DEF B
  <2> QED BY <2>1
<1>6. Supported = [c \in D |-> B(c[1], c[2], Supported)]
  BY <1>5 DEF Supported, Readable
<1>7. \A t \in Stamp, k \in Nat : Supported[<<t, k>>] = B(t, k, Supported)
  <2> HIDE DEF B
  <2> QED BY <1>6
<1> QED BY <1>7

-----------------------------------------------------------------------------
(***************************************************************************)
(* What is written of a node.                                              *)
(***************************************************************************)

\* Marked is the function its definition says, and writes bytes.
LEMMA MarkedIs ==
  /\ Marked \in [Seq(Seq(Byte)) -> Seq(Byte)]
  /\ \A x \in Seq(Seq(Byte)) :
       Marked[x] = IF x = <<>> THEN <<>>
                   ELSE IF Len(x) = 1 THEN x[1]
                   ELSE <<forkMark>> \o x[1] \o Marked[Tail(x)]
<1> DEFINE Q == Seq(Byte)
           D == Seq(Q)
           B(x, g) == IF x = <<>> THEN <<>>
                      ELSE IF Len(x) = 1 THEN x[1]
                      ELSE <<forkMark>> \o x[1] \o g[Tail(x)]
           depth == [x \in D |-> Len(x)]
           step == [p \in D \X [D -> Q] |-> B(p[1], p[2])]
<1>0. /\ <<>> \in Q /\ <<forkMark>> \in Q /\ \A s, t \in Q : s \o t \in Q
  <2>1. forkMark \in Byte
    BY Sizes DEF forkMark, Byte
  <2> QED BY <2>1
<1>a. \A x \in D : /\ Len(x) \in Nat
                   /\ x # <<>> => x[1] \in Q /\ Tail(x) \in D /\ Len(Tail(x)) < Len(x)
  <2> HIDE DEF Q
  <2> QED OBVIOUS
<1> HIDE DEF Q
<1>1. \A x \in D, g \in [D -> Q] : B(x, g) \in Q
  <2> SUFFICES ASSUME NEW x \in D, NEW g \in [D -> Q] PROVE B(x, g) \in Q
    OBVIOUS
  <2>1. CASE x = <<>>
    BY <1>0, <2>1
  <2>2. CASE x # <<>>
    <3>1. x[1] \in Q /\ g[Tail(x)] \in Q
      BY <1>a, <2>2
    <3>2. <<forkMark>> \o x[1] \in Q
      BY <1>0, <3>1
    <3>3. <<forkMark>> \o x[1] \o g[Tail(x)] \in Q
      BY <1>0, <3>1, <3>2
    <3> QED BY <2>2, <3>1, <3>3
  <2> QED BY <2>1, <2>2
<1>2. ASSUME NEW x \in D, NEW g \in [D -> Q], NEW h \in [D -> Q],
             \A y \in D : depth[y] < depth[x] => g[y] = h[y]
      PROVE  step[<<x, g>>] = step[<<x, h>>]
  <2>1. x # <<>> => g[Tail(x)] = h[Tail(x)]
    BY <1>2, <1>a
  <2>2. B(x, g) = B(x, h)
    BY <2>1
  <2> HIDE DEF B
  <2> QED BY <2>2
<1>3. step \in [D \X [D -> Q] -> Q]
  <2> HIDE DEF B
  <2> QED BY <1>1
<1>4. Q # {} /\ depth \in [D -> Nat]
  BY <1>0, <1>a
<1>5. PICK g \in [D -> Q] : \A x \in D : g[x] = step[<<x, g>>]
  <2>1. Local(D, [D -> Q], depth, step)
    <3> HIDE DEF D, depth, step
    <3> QED BY <1>2 DEF Local
  <2> HIDE DEF D, depth, step
  <2>2. PlainRecursion(D, Q, depth, step)
    BY <2>1, <1>3, <1>4 DEF PlainRecursion
  <2> QED BY <2>2, SimpleRecursion
<1>6. \A x \in D : g[x] = B(x, g)
  <2> HIDE DEF B
  <2> QED BY <1>5
<1>7. g = [x \in D |-> B(x, g)]
  <2> HIDE DEF B
  <2> QED BY <1>5, <1>6
<1>8. Marked = [x \in D |-> B(x, Marked)]
  BY <1>7 DEF Marked, Q
<1>9. \A x \in D : Marked[x] = B(x, Marked)
  <2> HIDE DEF B
  <2> QED BY <1>8
<1>10. \A x \in D : Marked[x] \in Q
  <2> DEFINE P == {x \in D : Marked[x] \in Q}
  <2>1. ASSUME NEW x \in D, \A y \in D : depth[y] < depth[x] => y \in P PROVE x \in P
    <3>1. CASE x = <<>>
      BY <1>0, <1>9, <3>1
    <3>2. CASE x # <<>>
      <4>1. x[1] \in Q /\ Tail(x) \in D /\ depth[Tail(x)] < depth[x]
        BY <1>a, <3>2
      <4>2. Marked[Tail(x)] \in Q
        BY <2>1, <4>1
      <4>3. <<forkMark>> \o x[1] \in Q
        BY <1>0, <4>1
      <4>4. <<forkMark>> \o x[1] \o Marked[Tail(x)] \in Q
        BY <1>0, <4>2, <4>3
      <4>5. B(x, Marked) \in Q
        BY <3>2, <4>1, <4>4
      <4> QED BY <1>9, <4>5
    <3> QED BY <3>1, <3>2
  <2> HIDE DEF P, depth, D
  <2>2. Inductive(D, depth, P)
    BY <2>1, <1>4 DEF Inductive
  <2>3. \A x \in D : x \in P
    BY <2>2, SizeInduction
  <2> QED BY <2>3 DEF P
<1>11. Marked \in [D -> Q]
  <2> HIDE DEF B
  <2> QED BY <1>8, <1>10
<1> QED BY <1>9, <1>11 DEF Q

\* The marks are bytes, and not the same.
LEMMA ForkMark == forkMark \in Byte /\ attestationMark \in Byte /\ forkMark # attestationMark
BY Sizes DEF forkMark, attestationMark, Byte

\* Items of type Q.
LEMMA PushItem ==
  ASSUME NEW Q, NEW x \in Q, NEW s \in Seq(Q)
  PROVE  /\ <<x>> \in Seq(Q) /\ Len(<<x>>) = 1 /\ <<x>>[1] = x
         /\ <<x>> \o s \in Seq(Q) /\ Len(<<x>> \o s) = 1 + Len(s) /\ Len(s) \in Nat
         /\ \A i \in 1..(1 + Len(s)) : (<<x>> \o s)[i] = IF i = 1 THEN x ELSE s[i - 1]
         /\ Tail(<<x>> \o s) = s /\ <<x>> \o s # <<>> /\ <<x>> # <<>>
         /\ DOMAIN (<<x>> \o s) = 1..(1 + Len(s))
OBVIOUS

\* A single item has no fork mark.
LEMMA MarkedOne ==
  ASSUME NEW x \in Seq(Byte)
  PROVE  Marked[<<x>>] = x
<1> DEFINE Q == Seq(Byte)
           y == <<x>>
<1>1. <<>> \in Seq(Q)
  OBVIOUS
<1> HIDE DEF Q
<1>2. x \in Q
  BY DEF Q
<1>3. y \in Seq(Q) /\ Len(y) = 1 /\ y[1] = x /\ y # <<>>
  BY <1>1, <1>2, PushItem
<1> HIDE DEF y
<1>4. Marked[y] = x
  BY <1>3, MarkedIs DEF Q
<1> QED BY <1>4 DEF y

\* Any item but the last is announced by a fork mark.
LEMMA MarkedMore ==
  ASSUME NEW x \in Seq(Byte), NEW s \in Seq(Seq(Byte)), s # <<>>
  PROVE  /\ Marked[s] \in Seq(Byte)
         /\ Marked[<<x>> \o s] = Push(forkMark, x \o Marked[s])
<1> DEFINE Q == Seq(Byte)
           y == <<x>> \o s
<1> HIDE DEF Q
<1>1. x \in Q /\ s \in Seq(Q)
  BY DEF Q
<1>2. y \in Seq(Q) /\ Len(y) = 1 + Len(s) /\ Len(s) \in Nat /\ y # <<>> /\ Tail(y) = s
  BY <1>1, PushItem
<1>3. y[1] = x
  <2>1. 1 \in 1..(1 + Len(s))
    BY <1>2
  <2> QED BY <1>1, <2>1, PushItem
<1>4. Len(s) # 0
  BY <1>1
<1> HIDE DEF y
<1>5. Marked[y] = <<forkMark>> \o x \o Marked[s] /\ Marked[s] \in Q
  <2>1. /\ Marked \in [Seq(Q) -> Q]
        /\ Marked[y] = IF y = <<>> THEN <<>> ELSE IF Len(y) = 1 THEN y[1]
                       ELSE <<forkMark>> \o y[1] \o Marked[Tail(y)]
    BY <1>2, MarkedIs DEF Q
  <2>2. Len(y) # 1 /\ y # <<>>
    BY <1>2, <1>4
  <2> QED BY <1>1, <1>2, <1>3, <2>1, <2>2
<1>6. Push(forkMark, x) \o Marked[s] = Push(forkMark, x \o Marked[s])
  BY <1>5, ForkMark, PushConcat DEF Q
<1>7. Marked[y] = Push(forkMark, x \o Marked[s])
  BY <1>5, <1>6 DEF Push
<1> QED BY <1>5, <1>7 DEF y, Q

\* An attestation as an item of a node.
AttItem(a) == Push(attestationMark, SerializeAttestation(a))

\* An edge as an item of a node, the child written by g.
OpItem(e, g) == SerializeOp(e.op) \o g[e.stamp]

\* The items of attestations.
AttItems(s) == [i \in DOMAIN s |-> AttItem(s[i])]

\* The items of edges.
OpItems(s, g) == [i \in DOMAIN s |-> OpItem(s[i], g)]

\* What Serialize writes of a node whose children g writes.
Layout(n, g) == Marked[AttItems(n.atts) \o OpItems(n.ops, g)]

\* g writes every child of the edges in E.
Writes(E, g) == \A e \in E : g[e.stamp] \in Seq(Byte)

\* The item of an attestation is bytes.
LEMMA AttItemIs ==
  ASSUME NEW a \in Attestation
  PROVE  AttItem(a) \in Seq(Byte)
BY AttestationBytes, ForkMark, PushIs DEF AttItem

\* The item of an edge is bytes, the first of which is the tag of its op.
LEMMA OpItemIs ==
  ASSUME NEW E, E \subseteq Edge, NEW g, Writes(E, g), NEW e \in E
  PROVE  OpItem(e, g) \in Seq(Byte) /\ OpItem(e, g) = Push(e.op.tag, OpRest(e.op) \o g[e.stamp])
<1>1. e.op \in Op /\ g[e.stamp] \in Seq(Byte)
  BY DEF Writes, Edge
<1> DEFINE o == e.op
           c == g[e.stamp]
<1> HIDE DEF o, c
<1>2. o \in Op /\ c \in Seq(Byte) /\ o.tag \in Byte
  BY <1>1, OpIs DEF o, c
<1>3. OpRest(o) \in Seq(Byte) /\ SerializeOp(o) = Push(o.tag, OpRest(o))
  BY <1>2, OpBytes
<1>4. Push(o.tag, OpRest(o)) \o c = Push(o.tag, OpRest(o) \o c)
  BY <1>2, <1>3, PushConcat
<1>5. OpRest(o) \o c \in Seq(Byte)
  BY <1>2, <1>3, ConcatIs
<1>6. Push(o.tag, OpRest(o) \o c) \in Seq(Byte)
  BY <1>2, <1>5, PushIs
<1> QED BY <1>3, <1>4, <1>6 DEF OpItem, o, c

\* One item for each attestation.
LEMMA AttItemsIs ==
  ASSUME NEW s \in Seq(Attestation)
  PROVE  /\ AttItems(s) \in Seq(Seq(Byte)) /\ Len(AttItems(s)) = Len(s)
         /\ \A i \in 1..Len(s) : AttItems(s)[i] = AttItem(s[i])
<1> DEFINE Q == Seq(Byte)
<1>1. \A a \in Attestation : AttItem(a) \in Q
  BY AttItemIs
<1> HIDE DEF Q
<1>2. AttItems(s) \in [1..Len(s) -> Q] /\ Len(s) \in Nat
  BY <1>1 DEF AttItems
<1>3. AttItems(s) \in Seq(Q) /\ Len(AttItems(s)) = Len(s)
  BY <1>2
<1>4. \A i \in 1..Len(s) : AttItems(s)[i] = AttItem(s[i])
  BY DEF AttItems
<1> QED BY <1>3, <1>4 DEF Q

\* One item for each edge.
LEMMA OpItemsIs ==
  ASSUME NEW E, E \subseteq Edge, NEW g, Writes(E, g), NEW s \in Seq(E)
  PROVE  /\ OpItems(s, g) \in Seq(Seq(Byte)) /\ Len(OpItems(s, g)) = Len(s)
         /\ \A i \in 1..Len(s) : OpItems(s, g)[i] = OpItem(s[i], g)
<1> DEFINE Q == Seq(Byte)
<1>1. \A e \in E : OpItem(e, g) \in Q
  BY OpItemIs
<1> HIDE DEF Q
<1>2. OpItems(s, g) \in [1..Len(s) -> Q] /\ Len(s) \in Nat
  BY <1>1 DEF OpItems
<1>3. OpItems(s, g) \in Seq(Q) /\ Len(OpItems(s, g)) = Len(s)
  BY <1>2
<1>4. \A i \in 1..Len(s) : OpItems(s, g)[i] = OpItem(s[i], g)
  BY DEF OpItems
<1> QED BY <1>3, <1>4 DEF Q

\* The parts of a node.
LEMMA ListsIs ==
  ASSUME NEW E, NEW n \in Lists(E)
  PROVE  n.atts \in Seq(Attestation) /\ n.ops \in Seq(E) /\ n = [atts |-> n.atts, ops |-> n.ops]
BY DEF Lists

\* What is written of a node is bytes.
LEMMA LayoutIs ==
  ASSUME NEW E, E \subseteq Edge, NEW g, Writes(E, g), NEW n \in Lists(E)
  PROVE  Layout(n, g) \in Seq(Byte)
<1> DEFINE Q == Seq(Byte)
           x == AttItems(n.atts)
           y == OpItems(n.ops, g)
<1>1. x \in Seq(Q) /\ y \in Seq(Q)
  BY ListsIs, AttItemsIs, OpItemsIs
<1> HIDE DEF Q, x, y
<1>2. x \o y \in Seq(Q)
  BY <1>1
<1>3. Marked[x \o y] \in Q
  BY <1>2, MarkedIs DEF Q
<1> QED BY <1>3 DEF Layout, x, y, Q

-----------------------------------------------------------------------------
(***************************************************************************)
(* The items of a node, one by one.                                        *)
(***************************************************************************)

\* Lengths and the empty sequence.
LEMMA ListIs ==
  ASSUME NEW S, NEW s \in Seq(S)
  PROVE  /\ Len(s) \in Nat /\ (s = <<>> <=> Len(s) = 0) /\ <<>> \in Seq(S)
         /\ <<>> \o s = s /\ s \o <<>> = s
OBVIOUS

\* Concatenation.
LEMMA ListConcat ==
  ASSUME NEW S, NEW a \in Seq(S), NEW b \in Seq(S), NEW c \in Seq(S)
  PROVE  a \o b \in Seq(S) /\ Len(a \o b) = Len(a) + Len(b) /\ (a \o b) \o c = a \o (b \o c)
OBVIOUS

\* Sequences with the same elements are the same.
LEMMA SameList ==
  ASSUME NEW S, NEW a \in Seq(S), NEW b \in Seq(S), Len(a) = Len(b),
         \A i \in 1..Len(a) : a[i] = b[i]
  PROVE  a = b
OBVIOUS

\* The parts of Single.
LEMMA SingleIs ==
  ASSUME NEW a
  PROVE  Single(a).atts = <<a>> /\ Single(a).ops = <<>>
BY DEF Single

\* The parts of Under.
LEMMA UnderIs ==
  ASSUME NEW o, NEW t
  PROVE  Under(o, t).atts = <<>> /\ Under(o, t).ops = <<[op |-> o, stamp |-> t]>>
BY DEF Under

\* The parts of Join.
LEMMA JoinIs ==
  ASSUME NEW m, NEW n
  PROVE  Join(m, n).atts = m.atts \o n.atts /\ Join(m, n).ops = m.ops \o n.ops
BY DEF Join

\* An empty node has neither attestations nor edges.
LEMMA EmptyIs ==
  ASSUME NEW E, NEW n \in Lists(E)
  PROVE  n = Empty <=> n.atts = <<>> /\ n.ops = <<>>
BY DEF Lists, Empty

\* Every node is made of its first item and the others.
LEMMA NodeInduction ==
  ASSUME NEW E, NEW P,
         \A a \in Attestation : Single(a) \in P,
         \A a \in Attestation, n \in Lists(E) : n # Empty /\ n \in P => Join(Single(a), n) \in P,
         \A e \in E : [atts |-> <<>>, ops |-> <<e>>] \in P,
         \A e \in E, n \in Lists(E) : n # Empty /\ n.atts = <<>> /\ n \in P =>
            Join([atts |-> <<>>, ops |-> <<e>>], n) \in P
  PROVE  \A n \in Lists(E) : n # Empty => n \in P
<1> DEFINE D == Lists(E)
           depth == [n \in D |-> Len(n.atts) + Len(n.ops)]
           R == {n \in D : n # Empty => n \in P}
<1>0. depth \in [D -> Nat] /\ \A n \in D : depth[n] = Len(n.atts) + Len(n.ops)
  <2>1. ASSUME NEW n \in D PROVE Len(n.atts) + Len(n.ops) \in Nat
    <3> DEFINE j == Len(n.atts)
               k == Len(n.ops)
    <3>1. j \in Nat /\ k \in Nat
      BY ListsIs, ListIs
    <3> HIDE DEF j, k
    <3>2. j + k \in Nat
      BY <3>1
    <3> QED BY <3>2 DEF j, k
  <2> HIDE DEF D
  <2> QED BY <2>1
<1>1. ASSUME NEW n \in D, \A m \in D : depth[m] < depth[n] => m \in R, n # Empty
      PROVE  n \in P
  <2>1. n.atts \in Seq(Attestation) /\ n.ops \in Seq(E) /\ n = [atts |-> n.atts, ops |-> n.ops]
    BY ListsIs
  <2>2. CASE n.atts # <<>>
    <3> DEFINE a == n.atts[1]
               m == [atts |-> Tail(n.atts), ops |-> n.ops]
    <3>1. a \in Attestation /\ Tail(n.atts) \in Seq(Attestation) /\ n.atts = <<a>> \o Tail(n.atts)
          /\ Len(Tail(n.atts)) = Len(n.atts) - 1 /\ Len(n.atts) \in Nat /\ Len(n.ops) \in Nat
      BY <2>1, <2>2
    <3>2. m \in D /\ m.atts = Tail(n.atts) /\ m.ops = n.ops
      BY <2>1, <3>1 DEF Lists
    <3>3. depth[m] < depth[n]
      <4> HIDE DEF depth, m, D
      <4>1. depth[m] = Len(Tail(n.atts)) + Len(n.ops) /\ depth[n] = Len(n.atts) + Len(n.ops)
        BY <1>0, <3>2
      <4> DEFINE i == Len(Tail(n.atts))
                 j == Len(n.atts)
                 k == Len(n.ops)
      <4>2. i = j - 1 /\ j \in Nat /\ k \in Nat /\ depth[m] = i + k /\ depth[n] = j + k
        BY <3>1, <4>1
      <4> HIDE DEF i, j, k
      <4> QED BY <4>2
    <3> HIDE DEF depth, m, a
    <3>4. CASE m = Empty
      <4>1. m.atts = <<>> /\ m.ops = <<>>
        BY <3>4 DEF Empty
      <4>2. n.atts = <<a>> \o <<>> /\ n.ops = <<>>
        BY <3>1, <3>2, <4>1
      <4>3. n.atts = <<a>>
        BY <4>2, <3>1
      <4>4. n = Single(a)
        BY <2>1, <4>2, <4>3 DEF Single
      <4> QED BY <3>1, <4>4
    <3>5. CASE m # Empty
      <4>1. m \in P
        BY <1>1, <3>2, <3>3, <3>5
      <4>2. Join(Single(a), m) = [atts |-> <<a>> \o m.atts, ops |-> <<>> \o m.ops]
        BY DEF Join, Single
      <4>3. <<>> \o m.ops = n.ops
        BY <2>1, <3>2
      <4>4. Join(Single(a), m) = n
        BY <2>1, <3>1, <3>2, <4>2, <4>3
      <4> QED BY <3>1, <3>2, <3>5, <4>1, <4>4
    <3> QED BY <3>4, <3>5
  <2>3. CASE n.atts = <<>>
    <3> DEFINE e == n.ops[1]
               m == [atts |-> <<>>, ops |-> Tail(n.ops)]
               f == [atts |-> <<>>, ops |-> <<e>>]
    <3>0. n.ops # <<>>
      BY <1>1, <2>3, EmptyIs
    <3>1. e \in E /\ Tail(n.ops) \in Seq(E) /\ n.ops = <<e>> \o Tail(n.ops)
          /\ Len(Tail(n.ops)) = Len(n.ops) - 1 /\ Len(n.ops) \in Nat
      BY <2>1, <3>0
    <3>2. m \in D /\ m.atts = <<>> /\ m.ops = Tail(n.ops)
      BY <2>1, <3>1 DEF Lists
    <3>3. depth[m] < depth[n]
      <4> HIDE DEF depth, m, D
      <4>1. depth[m] = Len(<<>>) + Len(Tail(n.ops)) /\ depth[n] = Len(<<>>) + Len(n.ops)
        BY <1>0, <2>3, <3>2
      <4>2. Len(<<>>) = 0
        OBVIOUS
      <4> QED BY <3>1, <4>1, <4>2
    <3> HIDE DEF depth, m, e
    <3>4. CASE m = Empty
      <4>1. m.ops = <<>>
        BY <3>4 DEF Empty
      <4>2. n.ops = <<e>> \o <<>>
        BY <3>1, <3>2, <4>1
      <4>3. n.ops = <<e>>
        BY <4>2, <3>1
      <4>4. n = f
        BY <2>1, <2>3, <4>3
      <4> QED BY <3>1, <4>4
    <3>5. CASE m # Empty
      <4>1. m \in P
        BY <1>1, <3>2, <3>3, <3>5
      <4>2. Join(f, m) = [atts |-> <<>> \o m.atts, ops |-> <<e>> \o m.ops]
        BY DEF Join
      <4>3. <<>> \o m.atts = <<>>
        BY <3>2
      <4>4. Join(f, m) = n
        BY <2>1, <2>3, <3>1, <3>2, <4>2, <4>3
      <4> QED BY <3>1, <3>2, <3>5, <4>1, <4>4
    <3> QED BY <3>4, <3>5
  <2> QED BY <2>2, <2>3
<1>2. \A n \in D : (\A m \in D : depth[m] < depth[n] => m \in R) => n \in R
  BY <1>1
<1> HIDE DEF D, depth, R
<1>3. Inductive(D, depth, R)
  BY <1>0, <1>2 DEF Inductive
<1>4. \A n \in D : n \in R
  BY <1>3, SizeInduction
<1> QED BY <1>4 DEF R, D

\* Leading item.
LEMMA AttItemsPush ==
  ASSUME NEW a \in Attestation, NEW s \in Seq(Attestation)
  PROVE  AttItems(<<a>> \o s) = <<AttItem(a)>> \o AttItems(s)
<1> DEFINE Q == Seq(Byte)
           t == <<a>> \o s
           x == AttItem(a)
           y == AttItems(s)
<1>1. /\ t \in Seq(Attestation) /\ Len(t) = 1 + Len(s) /\ Len(s) \in Nat
      /\ \A i \in 1..(1 + Len(s)) : t[i] = IF i = 1 THEN a ELSE s[i - 1]
  BY PushItem
<1> HIDE DEF t
<1>2. /\ AttItems(t) \in Seq(Q) /\ Len(AttItems(t)) = 1 + Len(s)
      /\ \A i \in 1..(1 + Len(s)) : AttItems(t)[i] = AttItem(t[i])
  BY <1>1, AttItemsIs
<1>3. /\ y \in Seq(Q) /\ Len(y) = Len(s) /\ x \in Q
      /\ \A i \in 1..Len(s) : y[i] = AttItem(s[i])
  BY AttItemsIs, AttItemIs
<1> HIDE DEF Q, x, y
<1>4. /\ <<x>> \o y \in Seq(Q) /\ Len(<<x>> \o y) = 1 + Len(s)
      /\ \A i \in 1..(1 + Len(s)) : (<<x>> \o y)[i] = IF i = 1 THEN x ELSE y[i - 1]
  BY <1>3, PushItem
<1> DEFINE z == <<x>> \o y
<1> HIDE DEF z
<1>5. \A i \in 1..(1 + Len(s)) : AttItems(t)[i] = z[i]
  <2> SUFFICES ASSUME NEW i \in 1..(1 + Len(s)) PROVE AttItems(t)[i] = z[i]
    OBVIOUS
  <2>1. CASE i = 1
    BY <1>1, <1>2, <1>4, <2>1 DEF z, x
  <2>2. CASE i # 1
    <3>1. i - 1 \in 1..Len(s)
      BY <1>1, <2>2
    <3> QED BY <1>1, <1>2, <1>3, <1>4, <2>2, <3>1 DEF z
  <2> QED BY <2>1, <2>2
<1>6. AttItems(t) = z
  BY <1>2, <1>4, <1>5, SameList DEF z
<1> QED BY <1>6 DEF t, x, y, z

\* The items of edges, one by one.
LEMMA OpItemsPush ==
  ASSUME NEW E, E \subseteq Edge, NEW g, Writes(E, g), NEW e \in E, NEW s \in Seq(E)
  PROVE  OpItems(<<e>> \o s, g) = <<OpItem(e, g)>> \o OpItems(s, g)
<1> DEFINE Q == Seq(Byte)
           t == <<e>> \o s
           x == OpItem(e, g)
           y == OpItems(s, g)
<1>1. /\ t \in Seq(E) /\ Len(t) = 1 + Len(s) /\ Len(s) \in Nat
      /\ \A i \in 1..(1 + Len(s)) : t[i] = IF i = 1 THEN e ELSE s[i - 1]
  BY PushItem
<1> HIDE DEF t
<1>2. /\ OpItems(t, g) \in Seq(Q) /\ Len(OpItems(t, g)) = 1 + Len(s)
      /\ \A i \in 1..(1 + Len(s)) : OpItems(t, g)[i] = OpItem(t[i], g)
  BY <1>1, OpItemsIs
<1>3. /\ y \in Seq(Q) /\ Len(y) = Len(s) /\ x \in Q
      /\ \A i \in 1..Len(s) : y[i] = OpItem(s[i], g)
  BY OpItemsIs, OpItemIs
<1> HIDE DEF Q, x, y
<1>4. /\ <<x>> \o y \in Seq(Q) /\ Len(<<x>> \o y) = 1 + Len(s)
      /\ \A i \in 1..(1 + Len(s)) : (<<x>> \o y)[i] = IF i = 1 THEN x ELSE y[i - 1]
  BY <1>3, PushItem
<1> DEFINE z == <<x>> \o y
<1> HIDE DEF z
<1>5. \A i \in 1..(1 + Len(s)) : OpItems(t, g)[i] = z[i]
  <2> SUFFICES ASSUME NEW i \in 1..(1 + Len(s)) PROVE OpItems(t, g)[i] = z[i]
    OBVIOUS
  <2>1. CASE i = 1
    BY <1>1, <1>2, <1>4, <2>1 DEF z, x
  <2>2. CASE i # 1
    <3>1. i - 1 \in 1..Len(s)
      BY <1>1, <2>2
    <3> QED BY <1>1, <1>2, <1>3, <1>4, <2>2, <3>1 DEF z
  <2> QED BY <2>1, <2>2
<1>6. OpItems(t, g) = z
  BY <1>2, <1>4, <1>5, SameList DEF z
<1> QED BY <1>6 DEF t, x, y, z

\* The node with one child.
One(e) == [atts |-> <<>>, ops |-> <<e>>]

\* Nothing has no items.
LEMMA NoItems ==
  ASSUME NEW g
  PROVE  AttItems(<<>>) = <<>> /\ OpItems(<<>>, g) = <<>>
BY DEF AttItems, OpItems

\* What is written of one attestation.
LEMMA LayoutAtt ==
  ASSUME NEW a \in Attestation, NEW g
  PROVE  Layout(Single(a), g) = AttItem(a)
<1> DEFINE x == AttItem(a)
           Q == Seq(Byte)
<1>1. x \in Q /\ Marked[<<x>>] = x
  BY AttItemIs, MarkedOne
<1> DEFINE nil == <<>>
<1>2. nil \in Seq(Attestation) /\ <<a>> \in Seq(Attestation)
  OBVIOUS
<1>3. AttItems(<<a>> \o nil) = <<x>> \o AttItems(nil)
  <2> HIDE DEF nil
  <2> QED BY <1>2, AttItemsPush
<1>3a. <<a>> \o nil = <<a>>
  BY <1>2, ListIs
<1> HIDE DEF x, Q
<1>5. <<x>> \o <<>> = <<x>>
  <2>1. <<x>> \in Seq(Q)
    BY <1>1
  <2> QED BY <2>1, ListIs
<1>4. AttItems(<<a>>) = <<x>>
  <2>1. AttItems(nil) = <<>>
    BY NoItems
  <2> HIDE DEF nil
  <2> QED BY <1>3, <1>3a, <1>5, <2>1
<1>6. Layout(Single(a), g) = Marked[<<x>> \o <<>>]
  BY <1>4, NoItems, SingleIs DEF Layout
<1> QED BY <1>1, <1>5, <1>6 DEF x

\* What is written of an attestation and more items.
LEMMA LayoutAttMore ==
  ASSUME NEW E, E \subseteq Edge, NEW g, Writes(E, g),
         NEW a \in Attestation, NEW n \in Lists(E), n # Empty
  PROVE  Layout(Join(Single(a), n), g) = Push(forkMark, AttItem(a) \o Layout(n, g))
<1> DEFINE Q == Seq(Byte)
           x == AttItem(a)
           y == AttItems(n.atts)
           z == OpItems(n.ops, g)
<1>1. n.atts \in Seq(Attestation) /\ n.ops \in Seq(E)
  BY ListsIs
<1>2. x \in Q /\ y \in Seq(Q) /\ z \in Seq(Q) /\ Len(y) = Len(n.atts) /\ Len(z) = Len(n.ops)
  <2>1. x \in Q
    BY AttItemIs
  <2>2. y \in Seq(Q) /\ Len(y) = Len(n.atts)
    BY <1>1, AttItemsIs
  <2>3. z \in Seq(Q) /\ Len(z) = Len(n.ops)
    BY <1>1, OpItemsIs
  <2> HIDE DEF x, y, z, Q
  <2> QED BY <2>1, <2>2, <2>3
<1>3. AttItems(<<a>> \o n.atts) = <<x>> \o y
  BY <1>1, AttItemsPush
<1>4. <<>> \o n.ops = n.ops
  BY <1>1
<1>5. Layout(Join(Single(a), n), g) = Marked[(<<x>> \o y) \o z]
  <2> DEFINE j == Join(Single(a), n)
  <2>1. j.atts = <<a>> \o n.atts /\ j.ops = n.ops
    BY <1>4, JoinIs, SingleIs
  <2> HIDE DEF j, x, y, z
  <2>2. Layout(j, g) = Marked[AttItems(j.atts) \o OpItems(j.ops, g)]
    BY DEF Layout
  <2> QED BY <1>3, <2>1, <2>2 DEF j, z
<1>6. Layout(n, g) = Marked[y \o z]
  BY DEF Layout
<1> HIDE DEF x, y, z, Q
<1>7. (<<x>> \o y) \o z = <<x>> \o (y \o z) /\ y \o z \in Seq(Q)
  BY <1>2
<1>8. y \o z # <<>>
  <2>1. Len(n.atts) # 0 \/ Len(n.ops) # 0
    BY <1>1, EmptyIs, ListIs
  <2>2. Len(y \o z) = Len(y) + Len(z) /\ Len(y) \in Nat /\ Len(z) \in Nat
    BY <1>2, ListIs, ListConcat
  <2>3. Len(y \o z) # 0
    <3> DEFINE i == Len(y)
               j == Len(z)
    <3>1. i \in Nat /\ j \in Nat /\ (i # 0 \/ j # 0)
      BY <1>2, <2>1, <2>2
    <3> HIDE DEF i, j
    <3>2. i + j # 0
      BY <3>1
    <3> QED BY <2>2, <3>2 DEF i, j
  <2> QED BY <1>7, <2>3, ListIs
<1>9. Marked[<<x>> \o (y \o z)] = Push(forkMark, x \o Marked[y \o z])
  <2> DEFINE w == y \o z
  <2>1. x \in Seq(Byte) /\ w \in Seq(Seq(Byte)) /\ w # <<>>
    BY <1>2, <1>7, <1>8 DEF Q
  <2> HIDE DEF w
  <2>2. Marked[<<x>> \o w] = Push(forkMark, x \o Marked[w])
    BY <2>1, MarkedMore
  <2> QED BY <2>2 DEF w
<1> QED BY <1>5, <1>6, <1>7, <1>9 DEF x

\* What is written of one edge.
LEMMA LayoutOp ==
  ASSUME NEW E, E \subseteq Edge, NEW g, Writes(E, g), NEW e \in E
  PROVE  Layout(One(e), g) = OpItem(e, g)
<1> DEFINE x == OpItem(e, g)
           Q == Seq(Byte)
<1>1. x \in Q /\ Marked[<<x>>] = x
  BY OpItemIs, MarkedOne
<1> DEFINE nil == <<>>
<1>2. nil \in Seq(E) /\ <<e>> \in Seq(E)
  OBVIOUS
<1>3. OpItems(<<e>> \o nil, g) = <<x>> \o OpItems(nil, g)
  <2> HIDE DEF nil
  <2> QED BY <1>2, OpItemsPush
<1>3a. <<e>> \o nil = <<e>>
  BY <1>2, ListIs
<1> HIDE DEF x, Q
<1>5. <<x>> \o <<>> = <<x>> /\ <<>> \o <<x>> = <<x>>
  <2>1. <<x>> \in Seq(Q)
    BY <1>1
  <2> QED BY <2>1, ListIs
<1>4. OpItems(<<e>>, g) = <<x>>
  <2>1. OpItems(nil, g) = <<>>
    BY NoItems
  <2> HIDE DEF nil
  <2> QED BY <1>3, <1>3a, <1>5, <2>1
<1>6. Layout(One(e), g) = Marked[<<>> \o <<x>>]
  BY <1>4, NoItems DEF Layout, One
<1> QED BY <1>1, <1>5, <1>6 DEF x

\* What is written of an edge and more edges.
LEMMA LayoutOpMore ==
  ASSUME NEW E, E \subseteq Edge, NEW g, Writes(E, g),
         NEW e \in E, NEW n \in Lists(E), n # Empty, n.atts = <<>>
  PROVE  Layout(Join(One(e), n), g) = Push(forkMark, OpItem(e, g) \o Layout(n, g))
<1> DEFINE Q == Seq(Byte)
           x == OpItem(e, g)
           z == OpItems(n.ops, g)
<1>1. n.ops \in Seq(E) /\ n.ops # <<>>
  BY ListsIs, EmptyIs
<1>2. x \in Q /\ z \in Seq(Q) /\ Len(z) = Len(n.ops)
  BY <1>1, OpItemIs, OpItemsIs
<1>3. OpItems(<<e>> \o n.ops, g) = <<x>> \o z
  BY <1>1, OpItemsPush
<1>4. Layout(Join(One(e), n), g) = Marked[<<>> \o (<<x>> \o z)]
  <2> DEFINE j == Join(One(e), n)
  <2>0. One(e).atts = <<>> /\ One(e).ops = <<e>>
    BY DEF One
  <2>1. j.atts = <<>> \o <<>> /\ j.ops = <<e>> \o n.ops
    BY <2>0, JoinIs
  <2>2. j.atts = <<>>
    BY <2>1
  <2> HIDE DEF j, x, z
  <2>3. Layout(j, g) = Marked[AttItems(j.atts) \o OpItems(j.ops, g)]
    BY DEF Layout
  <2> QED BY <1>3, <2>1, <2>2, <2>3, NoItems DEF j, z
<1>5. Layout(n, g) = Marked[<<>> \o z]
  BY NoItems DEF Layout
<1> HIDE DEF x, z, Q
<1>6. <<>> \o z = z /\ <<x>> \o z \in Seq(Q)
  BY <1>2
<1>7. <<>> \o (<<x>> \o z) = <<x>> \o z
  BY <1>6
<1>8. z # <<>>
  BY <1>1, <1>2
<1>9. Marked[<<x>> \o z] = Push(forkMark, x \o Marked[z])
  BY <1>2, <1>8, MarkedMore DEF Q
<1> QED BY <1>4, <1>5, <1>6, <1>7, <1>9 DEF x

-----------------------------------------------------------------------------
(***************************************************************************)
(* Serialize, and what is made of a tree by sorting its nodes.             *)
(***************************************************************************)

\* t with its items in the order Serialize writes them in.
SortNode(t) == [atts |-> SortAttestations(t.atts), ops |-> SortOps(t.ops)]

\* The edges of t.
Kids(t) == {t.ops[i] : i \in DOMAIN t.ops}

\* What is under the edges of a timestamp is less deep.
LEMMA KidsIs ==
  ASSUME NEW t \in Stamp
  PROVE  /\ Kids(t) \subseteq Edge
         /\ \A e \in Kids(t) : /\ e.stamp \in Stamp /\ e.op \in Op
                               /\ Level(e.stamp) \in Nat /\ Level(e.stamp) < Level(t)
                               /\ e.stamp \in Stamps[Level(t) - 1] /\ Level(t) - 1 \in Nat
BY ChildLevel DEF Kids

\* Sorting the items of a node keeps all of them.
LEMMA SortNodeIs ==
  ASSUME NEW t \in Stamp
  PROVE  /\ SortNode(t) \in Lists(Kids(t)) /\ SortNode(t) \in Lists(Edge)
         /\ Permuted(t.atts, SortNode(t).atts) /\ Permuted(t.ops, SortNode(t).ops)
         /\ SortNode(t) = Empty <=> t = Empty
<1> DEFINE a == SortAttestations(t.atts)
           o == SortOps(t.ops)
<1>1. t.atts \in Seq(Attestation) /\ t.ops \in Seq(Edge) /\ t = [atts |-> t.atts, ops |-> t.ops]
  BY StampIs
<1>2. Permuted(t.atts, a) /\ Permuted(t.ops, o)
  BY <1>1, SortAttestationsIs, SortOpsIs DEF Edge
<1>3. t.ops \in Seq(Kids(t))
  <2>1. t.ops \in [1..Len(t.ops) -> Kids(t)] /\ Len(t.ops) \in Nat
    BY <1>1 DEF Kids
  <2> QED BY <2>1
<1> HIDE DEF a, o
<1>4. a \in Seq(Attestation) /\ o \in Seq(Kids(t)) /\ o \in Seq(Edge) /\ Len(a) = Len(t.atts) /\ Len(o) = Len(t.ops)
  BY <1>1, <1>2, <1>3, PermutedIs
<1>5. SortNode(t) = [atts |-> a, ops |-> o]
  BY DEF SortNode, a, o
<1>6. SortNode(t) \in Lists(Kids(t)) /\ SortNode(t) \in Lists(Edge)
  BY <1>4, <1>5 DEF Lists
<1>7. (a = <<>> <=> t.atts = <<>>) /\ (o = <<>> <=> t.ops = <<>>)
  BY <1>1, <1>4, ListIs
<1>8. SortNode(t) = Empty <=> t = Empty
  <2>1. t \in Lists(Edge) /\ SortNode(t).atts = a /\ SortNode(t).ops = o
    BY <1>5, StampIs
  <2> QED BY <1>6, <1>7, <2>1, EmptyIs
<1> QED BY <1>2, <1>5, <1>6, <1>8

\* What is written of a node depends on what is written of its children only.
LEMMA SameLayout ==
  ASSUME NEW E, NEW n \in Lists(E), NEW g, NEW h, \A e \in E : g[e.stamp] = h[e.stamp]
  PROVE  Layout(n, g) = Layout(n, h)
<1>1. n.ops \in Seq(E)
  BY ListsIs
<1>2. \A i \in DOMAIN n.ops : OpItem(n.ops[i], g) = OpItem(n.ops[i], h)
  <2>1. \A i \in DOMAIN n.ops : n.ops[i] \in E
    BY <1>1
  <2> QED BY <2>1 DEF OpItem
<1>3. OpItems(n.ops, g) = OpItems(n.ops, h)
  BY <1>2 DEF OpItems
<1> QED BY <1>3 DEF Layout

\* Serialize is the function its definition says: the sorted node, laid out.
LEMMA SerializeIs ==
  /\ Serialize \in [Stamp -> Seq(Byte)]
  /\ \A t \in Stamp : Serialize[t] = Layout(SortNode(t), Serialize)
<1> DEFINE D == Stamp
           S == Seq(Byte)
           B(t, g) == Marked[AttItems(SortAttestations(t.atts)) \o OpItems(SortOps(t.ops), g)]
           depth == [t \in D |-> Level(t)]
           step == [p \in D \X [D -> S] |-> B(p[1], p[2])]
<1>0. \A t, g : B(t, g) = Layout(SortNode(t), g)
  BY DEF Layout, SortNode
<1>1. ASSUME NEW t \in D, NEW g, \A e \in Kids(t) : g[e.stamp] \in S
      PROVE  B(t, g) \in S
  <2>1. Writes(Kids(t), g)
    BY <1>1 DEF Writes
  <2>2. Layout(SortNode(t), g) \in S
    BY <2>1, SortNodeIs, KidsIs, LayoutIs
  <2> HIDE DEF B
  <2> QED BY <1>0, <2>2
<1>2. ASSUME NEW t \in D, NEW g \in [D -> S], NEW h \in [D -> S],
             \A y \in D : depth[y] < depth[t] => g[y] = h[y]
      PROVE  step[<<t, g>>] = step[<<t, h>>]
  <2>1. \A e \in Kids(t) : g[e.stamp] = h[e.stamp]
    BY <1>2, KidsIs
  <2>2. B(t, g) = B(t, h)
    <3>1. SortNode(t) \in Lists(Kids(t))
      BY SortNodeIs
    <3>2. Layout(SortNode(t), g) = Layout(SortNode(t), h)
      BY <2>1, <3>1, SameLayout
    <3> HIDE DEF B
    <3> QED BY <1>0, <3>2
  <2> HIDE DEF B
  <2> QED BY <2>2
<1>3. step \in [D \X [D -> S] -> S]
  <2>1. \A t \in D, g \in [D -> S] : B(t, g) \in S
    <3> HIDE DEF B, S
    <3> QED BY <1>1, KidsIs
  <2> HIDE DEF B
  <2> QED BY <2>1
<1>4. S # {} /\ depth \in [D -> Nat]
  BY StampIs, StringIs
<1>5. PICK g \in [D -> S] : \A t \in D : g[t] = step[<<t, g>>]
  <2>1. Local(D, [D -> S], depth, step)
    <3> HIDE DEF S, depth, step, D
    <3> QED BY <1>2 DEF Local
  <2> HIDE DEF S, depth, step, D
  <2>2. PlainRecursion(D, S, depth, step)
    BY <2>1, <1>3, <1>4 DEF PlainRecursion
  <2> QED BY <2>2, SimpleRecursion
<1>6. \A t \in D : g[t] = B(t, g)
  <2> HIDE DEF B, S
  <2> QED BY <1>5
<1>7. g = [t \in D |-> B(t, g)]
  <2> HIDE DEF B, S
  <2> QED BY <1>5, <1>6
<1>8. Serialize = [t \in D |-> B(t, Serialize)]
  BY <1>7 DEF Serialize, AttItems, OpItems, AttItem, OpItem, Push
<1>9. \A t \in D : Serialize[t] = B(t, Serialize)
  <2> HIDE DEF B
  <2> QED BY <1>8
<1>10. \A t \in D : Serialize[t] \in S
  <2> DEFINE P == {t \in D : Serialize[t] \in S}
  <2>1. ASSUME NEW t \in D, \A y \in D : depth[y] < depth[t] => y \in P PROVE t \in P
    <3>1. \A e \in Kids(t) : e.stamp \in D /\ depth[e.stamp] < depth[t]
      BY KidsIs
    <3>2. \A e \in Kids(t) : Serialize[e.stamp] \in S
      BY <2>1, <3>1
    <3> HIDE DEF B, S
    <3>3. B(t, Serialize) \in S
      BY <1>1, <3>2
    <3> QED BY <1>9, <3>3
  <2> HIDE DEF P, depth, D
  <2>2. Inductive(D, depth, P)
    BY <2>1, <1>4 DEF Inductive
  <2>3. \A t \in D : t \in P
    BY <2>2, SizeInduction
  <2> QED BY <2>3 DEF P
<1>11. Serialize \in [D -> S]
  <2> HIDE DEF B
  <2> QED BY <1>8, <1>10
<1> HIDE DEF B
<1> QED BY <1>0, <1>9, <1>11

\* The node with its children replaced by what g has for them.
Renewed(n, g) == [atts |-> n.atts, ops |-> Mapped(n.ops, g)]

\* What Deserialize makes of t: every node sorted.
Normal[t \in Stamp] == Renewed(SortNode(t), Normal)

\* Replacing children.
LEMMA RenewedIs ==
  ASSUME NEW n \in Nat, n # 0, NEW X, NEW E, E \subseteq [op : Op, stamp : X], NEW t \in Lists(E),
         NEW g, \A x \in X : g[x] \in Stamps[n - 1]
  PROVE  Renewed(t, g) \in Stamps[n]
<1>1. t.atts \in Seq(Attestation) /\ t.ops \in Seq(E)
  BY ListsIs
<1>2. t.ops \in Seq([op : Op, stamp : X])
  <2> DEFINE C == [op : Op, stamp : X]
  <2> HIDE DEF C
  <2>1. E \subseteq C
    BY DEF C
  <2>2. t.ops \in Seq(C)
    BY <1>1, <2>1, SeqSubset
  <2> QED BY <2>2 DEF C
<1>3. Mapped(t.ops, g) \in Seq([op : Op, stamp : Stamps[n - 1]])
  BY <1>2, MapTyped
<1> QED BY <1>1, <1>3, IsNode DEF Renewed

\* Renewed depends on the children only.
LEMMA SameRenewed ==
  ASSUME NEW E, NEW n \in Lists(E), NEW g, NEW h, \A e \in E : g[e.stamp] = h[e.stamp]
  PROVE  Renewed(n, g) = Renewed(n, h)
<1>1. n.ops \in Seq(E)
  BY ListsIs
<1>2. \A i \in DOMAIN n.ops : g[n.ops[i].stamp] = h[n.ops[i].stamp]
  <2>1. \A i \in DOMAIN n.ops : n.ops[i] \in E
    BY <1>1
  <2> QED BY <2>1
<1>3. Mapped(n.ops, g) = Mapped(n.ops, h)
  BY <1>2 DEF Mapped
<1> QED BY <1>3 DEF Renewed

\* The depth of a timestamp is within the bound.
LEMMA LevelRange ==
  ASSUME NEW t \in Stamp
  PROVE  Level(t) \in Nat /\ t \in Stamps[Level(t)] /\ Stamps[Level(t)] \subseteq Stamp
<1>1. Level(t) \in Nat /\ t \in Stamps[Level(t)] /\ Level(t) <= MaxNesting
  BY StampIs
<1> QED BY <1>1, Nesting, StampsMonotone DEF Stamp

\* With children no deeper than its own, a node is no deeper than it was.
LEMMA RenewedLevel ==
  ASSUME NEW t \in Stamp, NEW m \in Lists(Kids(t)),
         NEW g, \A e \in Kids(t) : g[e.stamp] \in Stamps[Level(e.stamp)]
  PROVE  Renewed(m, g) \in Stamps[Level(t)]
<1> DEFINE n == Level(t)
           X == {e.stamp : e \in Kids(t)}
<1>1. n \in Nat /\ Kids(t) \subseteq Edge
  BY LevelRange, KidsIs
<1>2. Kids(t) \subseteq [op : Op, stamp : X]
  <2>1. \A e \in Kids(t) : e \in Edge
    BY <1>1
  <2> QED BY <2>1 DEF Edge
<1>3. ASSUME NEW x \in X PROVE n # 0 /\ g[x] \in Stamps[n - 1]
  <2>1. PICK e \in Kids(t) : x = e.stamp
    OBVIOUS
  <2>2. /\ Level(x) \in Nat /\ Level(x) < n /\ n - 1 \in Nat
        /\ g[x] \in Stamps[Level(x)]
    BY <2>1, KidsIs
  <2>3. Level(x) <= n - 1
    BY <1>1, <2>2
  <2>4. Stamps[Level(x)] \subseteq Stamps[n - 1]
    BY <2>2, <2>3, StampsMonotone
  <2> QED BY <2>2, <2>4
<1>4. n # 0
  BY LevelRange, NodeIs
<1> HIDE DEF X, n
<1>5. Renewed(m, g) \in Stamps[n]
  BY <1>1, <1>2, <1>3, <1>4, RenewedIs
<1> QED BY <1>5 DEF n

\* N rearranges the items of every node.
Rearranges(N) == \A t \in Stamp : N[t] \in Lists(Kids(t))

\* g rearranges every node of a tree as N does.
MapsBy(g, N) == g = [t \in Stamp |-> Renewed(N[t], g)]

\* There is such a g.
LEMMA TreeMap ==
  ASSUME NEW N, Rearranges(N)
  PROVE  \E g : MapsBy(g, N)
<1> DEFINE D == Stamp
           S == Stamp
           T == [t \in D |-> Stamps[Level(t)]]
           G == Typed(D, S, T)
           B(t, g) == Renewed(N[t], g)
           depth == [t \in D |-> Level(t)]
           step == [p \in D \X G |-> B(p[1], p[2])]
<1>1. T \in [D -> SUBSET S] /\ \A t \in D : T[t] # {} /\ T[t] = Stamps[Level(t)]
  BY LevelRange
<1>2. \A t \in D : N[t] \in Lists(Kids(t))
  BY DEF Rearranges
<1>3. ASSUME NEW t \in D, NEW g \in G
      PROVE  B(t, g) \in T[t] /\ B(t, g) \in S
  <2>1. \A x \in D : g[x] \in Stamps[Level(x)]
    BY <1>1 DEF Typed
  <2>2. \A e \in Kids(t) : g[e.stamp] \in Stamps[Level(e.stamp)]
    BY <2>1, KidsIs
  <2>3. B(t, g) \in Stamps[Level(t)]
    BY <1>2, <2>2, RenewedLevel
  <2> HIDE DEF B, T
  <2> QED BY LevelRange, <1>1, <2>3
<1>4. ASSUME NEW t \in D, NEW g \in G, NEW h \in G,
             \A y \in D : depth[y] < depth[t] => g[y] = h[y]
      PROVE  step[<<t, g>>] = step[<<t, h>>]
  <2>1. \A e \in Kids(t) : g[e.stamp] = h[e.stamp]
    BY <1>4, KidsIs
  <2>2. B(t, g) = B(t, h)
    BY <1>2, <2>1, SameRenewed
  <2> HIDE DEF B, G
  <2> QED BY <2>2
<1>5. step \in [D \X G -> S] /\ \A t \in D, g \in G : step[<<t, g>>] \in T[t]
  <2> HIDE DEF B, G, T
  <2> QED BY <1>3
<1>6. depth \in [D -> Nat]
  BY LevelRange
<1>7. PICK g \in G : \A t \in D : g[t] = step[<<t, g>>]
  <2>1. Local(D, G, depth, step)
    <3> HIDE DEF S, depth, step, D, G
    <3> QED BY <1>4 DEF Local
  <2> HIDE DEF S, depth, step, D, T
  <2>2. Recursion(D, S, T, depth, step)
    BY <2>1, <1>1, <1>5, <1>6 DEF Recursion
  <2> QED BY <2>2, RecursiveFunction
<1>8. \A t \in D : g[t] = B(t, g)
  <2> HIDE DEF B, S, G
  <2> QED BY <1>7
<1>9. g = [t \in D |-> B(t, g)]
  <2>1. g \in [D -> S]
    BY DEF Typed
  <2> HIDE DEF B, S, G
  <2> QED BY <1>8, <2>1
<1>10. MapsBy(g, N)
  BY <1>9 DEF MapsBy
<1> QED BY <1>10

\* Such a g makes no tree deeper.
LEMMA TreeMapIs ==
  ASSUME NEW N, Rearranges(N), NEW g, MapsBy(g, N)
  PROVE  \A t \in Stamp : /\ g[t] = Renewed(N[t], g)
                          /\ g[t] \in Stamps[Level(t)] /\ g[t] \in Stamp
<1> DEFINE D == Stamp
           depth == [t \in D |-> Level(t)]
           P == {t \in D : g[t] \in Stamps[Level(t)]}
<1>1. \A t \in D : g[t] = Renewed(N[t], g)
  BY DEF MapsBy
<1>2. depth \in [D -> Nat]
  BY LevelRange
<1>3. ASSUME NEW t \in D, \A y \in D : depth[y] < depth[t] => y \in P PROVE t \in P
  <2>1. \A e \in Kids(t) : e.stamp \in D /\ depth[e.stamp] < depth[t]
    BY KidsIs
  <2>2. \A e \in Kids(t) : g[e.stamp] \in Stamps[Level(e.stamp)]
    BY <1>3, <2>1
  <2>3. N[t] \in Lists(Kids(t))
    BY DEF Rearranges
  <2>4. Renewed(N[t], g) \in Stamps[Level(t)]
    BY <2>2, <2>3, RenewedLevel
  <2> QED BY <1>1, <2>4
<1> HIDE DEF P, depth, D
<1>4. Inductive(D, depth, P)
  BY <1>2, <1>3 DEF Inductive
<1>5. \A t \in D : t \in P
  BY <1>4, SizeInduction
<1> QED BY <1>1, <1>5, LevelRange DEF P, D

\* Normal is the function its definition says, and makes no tree deeper.
LEMMA NormalIs ==
  \A t \in Stamp : Normal[t] = Renewed(SortNode(t), Normal) /\ Normal[t] \in Stamps[Level(t)] /\ Normal[t] \in Stamp
<1> DEFINE N == [t \in Stamp |-> SortNode(t)]
           B(t, g) == Renewed(SortNode(t), g)
<1>1. Rearranges(N)
  BY SortNodeIs DEF Rearranges
<1>2. PICK h : MapsBy(h, N)
  <2> HIDE DEF N
  <2> QED BY <1>1, TreeMap
<1>3. h = [t \in Stamp |-> B(t, h)]
  BY <1>2 DEF MapsBy
<1>4. Normal = [t \in Stamp |-> B(t, Normal)]
  <2> HIDE DEF B
  <2> QED BY <1>3 DEF Normal, B
<1>5. MapsBy(Normal, N)
  BY <1>4 DEF MapsBy
<1>6. \A t \in Stamp : N[t] = SortNode(t)
  OBVIOUS
<1> HIDE DEF N
<1> QED BY <1>1, <1>5, <1>6, TreeMapIs

-----------------------------------------------------------------------------
(***************************************************************************)
(* Deserialize.                                                            *)
(***************************************************************************)

\* Single is a timestamp.
LEMMA SingleTyped ==
  ASSUME NEW n \in Nat, n # 0, NEW a \in Attestation
  PROVE  Single(a) \in Stamps[n]
<1> DEFINE C == [op : Op, stamp : Stamps[n - 1]]
<1> HIDE DEF C
<1>1. <<a>> \in Seq(Attestation) /\ <<>> \in Seq(C)
  OBVIOUS
<1> QED BY <1>1, IsNode DEF Single, C

\* Under is a timestamp one level deeper.
LEMMA UnderTyped ==
  ASSUME NEW n \in Nat, n # 0, NEW o \in Op, NEW t \in Stamps[n - 1]
  PROVE  Under(o, t) \in Stamps[n]
<1> DEFINE C == [op : Op, stamp : Stamps[n - 1]]
           e == [op |-> o, stamp |-> t]
<1>1. e \in C
  OBVIOUS
<1> HIDE DEF C, e
<1>2. <<e>> \in Seq(C) /\ <<>> \in Seq(Attestation)
  BY <1>1
<1> QED BY <1>2, IsNode DEF Under, C, e

\* Join is a timestamp no deeper.
LEMMA JoinTyped ==
  ASSUME NEW n \in Nat, NEW t \in Stamps[n], NEW u \in Stamps[n]
  PROVE  Join(t, u) \in Stamps[n]
<1> DEFINE C == [op : Op, stamp : Stamps[n - 1]]
<1>1. /\ n # 0 /\ t.atts \in Seq(Attestation) /\ t.ops \in Seq(C)
      /\ u.atts \in Seq(Attestation) /\ u.ops \in Seq(C)
  BY NodeIs
<1> HIDE DEF C
<1>2. t.atts \o u.atts \in Seq(Attestation) /\ t.ops \o u.ops \in Seq(C)
  BY <1>1, ListConcat
<1> QED BY <1>1, <1>2, IsNode DEF Join, C

(* The body of Deserialize, with g for the recursive calls. *)
Attested(a) == IF a.st = "ok" THEN Ok(Single(a.val), a.rest) ELSE a

\* Deserialize after a child.
ChildOf(o, r) == IF r.st = "ok" THEN Ok(Under(o, r.val), r.rest) ELSE r

\* Deserialize after an op, the child being read by g.
Applied(g, o, len, d) ==
  IF o.st # "ok" THEN o
  ELSE IF ResultLength(o.val, len) > MaxLength THEN Failed
  ELSE ChildOf(o.val, g[<<o.rest, ResultLength(o.val, len), d - 1>>])

\* Deserialize of one item.
Item(g, tag, s, len, d) ==
  IF tag = attestationMark THEN Attested(DeserializeAttestation(s))
  ELSE Applied(g, DeserializeFromTag(s, tag), len, d)

\* Deserialize after the items that follow.
Both(t, r) == IF r.st = "ok" THEN Ok(Join(t, r.val), r.rest) ELSE r

\* Deserialize after a forked item.
More(g, r, len, d) == IF r.st = "ok" THEN Both(r.val, g[<<r.rest, len, d>>]) ELSE r

\* Deserialize of a node, the recursive calls being g.
Body(g, b, len, d) ==
  IF d = 0 \/ len > MaxLength \/ b = <<>> THEN Failed
  ELSE IF b[1] # forkMark THEN Item(g, b[1], Tail(b), len, d)
  ELSE IF Len(b) = 1 THEN Failed
  ELSE More(g, Item(g, b[2], Tail(Tail(b)), len, d), len, d)

\* A result that leaves less than n bytes.
Shorter(n, d) == {r \in Results(Stamps[d]) : r.st = "ok" => Len(r.rest) < n}

\* g reads what is shorter than n.
Reads(g, n) == \A b \in Seq(Byte), l \in Nat, d \in Nat : Len(b) < n => g[<<b, l, d>>] \in Shorter(Len(b), d)

\* g and h agree on what is shorter than n.
Agree(g, h, n) == \A b \in Seq(Byte), l \in Nat, d \in Nat : Len(b) < n => g[<<b, l, d>>] = h[<<b, l, d>>]

\* Results of reading that consumed something.
LEMMA ShorterIs ==
  ASSUME NEW n, NEW d
  PROVE  /\ Failed \in Shorter(n, d) /\ Panicked \in Shorter(n, d)
         /\ \A t \in Stamps[d], rest \in Seq(Byte) : Len(rest) < n => Ok(t, rest) \in Shorter(n, d)
         /\ \A r \in Shorter(n, d) : /\ r.st = "ok" => /\ r.val \in Stamps[d] /\ r.rest \in Seq(Byte)
                                                       /\ Len(r.rest) < n /\ r = Ok(r.val, r.rest)
                                     /\ r.st # "ok" => r \in {Failed, Panicked}
<1>1. Failed \in Shorter(n, d) /\ Panicked \in Shorter(n, d)
  BY FailedIs DEF Shorter
<1>2. \A t \in Stamps[d], rest \in Seq(Byte) : Len(rest) < n => Ok(t, rest) \in Shorter(n, d)
  BY OkIs DEF Shorter
<1>3. ASSUME NEW r \in Shorter(n, d)
      PROVE  /\ r.st = "ok" => /\ r.val \in Stamps[d] /\ r.rest \in Seq(Byte)
                               /\ Len(r.rest) < n /\ r = Ok(r.val, r.rest)
             /\ r.st # "ok" => r \in {Failed, Panicked}
  BY ResultIs DEF Shorter
<1> QED BY <1>1, <1>2, <1>3

\* Reading an item consumes bytes and returns a timestamp.
LEMMA ItemTyped ==
  ASSUME NEW g, NEW n \in Nat, NEW s \in Seq(Byte), Len(s) < n, Reads(g, n),
         NEW tag, NEW len \in Nat, NEW d \in Nat, d # 0
  PROVE  Item(g, tag, s, len, d) \in Shorter(n, d)
<1>0. Len(s) \in Nat
  BY StringIs
<1>1. CASE tag = attestationMark
  <2> DEFINE r == DeserializeAttestation(s)
  <2>1. r \in Results(Attestation) /\ (r.st = "ok" => Len(r.rest) < Len(s))
    BY DeserializeAttestationIs
  <2>2. Item(g, tag, s, len, d) = IF r.st = "ok" THEN Ok(Single(r.val), r.rest) ELSE r
    BY <1>1 DEF Item, Attested
  <2> HIDE DEF r
  <2>3. CASE r.st = "ok"
    <3>1. r.val \in Attestation /\ r.rest \in Seq(Byte)
      BY <2>1, <2>3, ResultIs
    <3>2. Len(r.rest) \in Nat
      BY <3>1, StringIs
    <3>3. Len(r.rest) < n
      BY <1>0, <2>1, <2>3, <3>2
    <3>4. Single(r.val) \in Stamps[d]
      BY <3>1, SingleTyped
    <3> QED BY <2>2, <2>3, <3>1, <3>3, <3>4, ShorterIs
  <2>4. CASE r.st # "ok"
    <3>1. r \in {Failed, Panicked}
      BY <2>1, <2>4, ResultIs
    <3> QED BY <2>2, <2>4, <3>1, ShorterIs
  <2> QED BY <2>3, <2>4
<1>2. CASE tag # attestationMark
  <2> DEFINE o == DeserializeFromTag(s, tag)
             l == ResultLength(o.val, len)
             r == g[<<o.rest, l, d - 1>>]
  <2>1. o \in Results(Op) /\ (o.st = "ok" => Len(o.rest) <= Len(s))
    BY DeserializeFromTagIs
  <2>2. Item(g, tag, s, len, d) =
          IF o.st # "ok" THEN o ELSE IF l > MaxLength THEN Failed
          ELSE IF r.st = "ok" THEN Ok(Under(o.val, r.val), r.rest) ELSE r
    BY <1>2 DEF Item, Applied, ChildOf
  <2> HIDE DEF o
  <2>3. CASE o.st # "ok"
    <3>1. o \in {Failed, Panicked}
      BY <2>1, <2>3, ResultIs
    <3> QED BY <2>2, <2>3, <3>1, ShorterIs
  <2>4. CASE o.st = "ok" /\ l > MaxLength
    BY <2>2, <2>4, ShorterIs
  <2>5. CASE o.st = "ok" /\ ~(l > MaxLength)
    <3>1. o.val \in Op /\ o.rest \in Seq(Byte) /\ d - 1 \in Nat
      BY <2>1, <2>5, ResultIs
    <3>2. l \in Nat /\ Len(o.rest) \in Nat
      BY <3>1, LengthIs, StringIs
    <3>3. Len(o.rest) < n
      BY <1>0, <2>1, <2>5, <3>2
    <3> HIDE DEF l
    <3>4. r \in Shorter(Len(o.rest), d - 1)
      BY <3>1, <3>2, <3>3 DEF Reads
    <3> HIDE DEF r
    <3>5. CASE r.st = "ok"
      <4>1. r.val \in Stamps[d - 1] /\ r.rest \in Seq(Byte) /\ Len(r.rest) < Len(o.rest)
        BY <3>4, <3>5, ShorterIs
      <4>2. Len(r.rest) \in Nat
        BY <4>1, StringIs
      <4>3. Len(r.rest) < n
        BY <3>2, <3>3, <4>1, <4>2
      <4>4. Under(o.val, r.val) \in Stamps[d]
        BY <3>1, <4>1, UnderTyped
      <4> QED BY <2>2, <2>5, <3>5, <4>1, <4>3, <4>4, ShorterIs
    <3>6. CASE r.st # "ok"
      <4>1. r \in {Failed, Panicked}
        BY <3>4, <3>6, ShorterIs
      <4> QED BY <2>2, <2>5, <3>6, <4>1, ShorterIs
    <3> QED BY <3>5, <3>6
  <2> QED BY <2>3, <2>4, <2>5
<1> QED BY <1>1, <1>2

\* Reading an item recurses on shorter strings only.
LEMMA ItemLocal ==
  ASSUME NEW g, NEW h, NEW n \in Nat, NEW s \in Seq(Byte), Len(s) < n, Agree(g, h, n),
         NEW tag, NEW len \in Nat, NEW d \in Nat, d # 0
  PROVE  Item(g, tag, s, len, d) = Item(h, tag, s, len, d)
<1>1. CASE tag = attestationMark
  BY <1>1 DEF Item
<1>2. CASE tag # attestationMark
  <2> DEFINE o == DeserializeFromTag(s, tag)
             l == ResultLength(o.val, len)
  <2>1. o \in Results(Op) /\ (o.st = "ok" => Len(o.rest) <= Len(s))
    BY DeserializeFromTagIs
  <2> HIDE DEF o
  <2>2. CASE o.st # "ok"
    <3>1. Applied(g, o, len, d) = Applied(h, o, len, d)
      BY <2>2 DEF Applied
    <3> QED BY <1>2, <3>1 DEF Item, o
  <2>3. CASE o.st = "ok"
    <3>1. o.val \in Op /\ o.rest \in Seq(Byte) /\ d - 1 \in Nat
      BY <2>1, <2>3, ResultIs
    <3>2. l \in Nat /\ Len(o.rest) \in Nat /\ Len(s) \in Nat
      BY <3>1, LengthIs, StringIs
    <3>3. Len(o.rest) < n
      BY <2>1, <2>3, <3>2
    <3> HIDE DEF l
    <3>4. g[<<o.rest, l, d - 1>>] = h[<<o.rest, l, d - 1>>]
      BY <3>1, <3>2, <3>3 DEF Agree
    <3>5. Applied(g, o, len, d) = Applied(h, o, len, d)
      BY <3>4 DEF Applied, l
    <3> QED BY <1>2, <3>5 DEF Item, o
  <2> QED BY <2>2, <2>3
<1> QED BY <1>1, <1>2

\* The first bytes of a node.
LEMMA BodyCases ==
  ASSUME NEW b \in Seq(Byte), b # <<>>
  PROVE  /\ b[1] \in Byte /\ Tail(b) \in Seq(Byte) /\ Len(Tail(b)) < Len(b) /\ Len(b) \in Nat
         /\ Len(b) # 1 => /\ b[2] \in Byte /\ Tail(Tail(b)) \in Seq(Byte)
                          /\ Len(Tail(Tail(b))) < Len(Tail(b)) /\ Len(Tail(Tail(b))) < Len(b)
                          /\ b[2] = Tail(b)[1]
<1>1. b[1] \in Byte /\ Tail(b) \in Seq(Byte) /\ Len(Tail(b)) = Len(b) - 1 /\ Len(b) \in Nat
  OBVIOUS
<1>2. ASSUME Len(b) # 1
      PROVE  /\ b[2] \in Byte /\ b[2] = Tail(b)[1] /\ Tail(b) # <<>>
  <2>1. Len(b) # 0
    OBVIOUS
  <2>2. Len(Tail(b)) # 0 /\ 2 \in 1..Len(b)
    BY <1>1, <1>2, <2>1
  <2>3. b[2] \in Byte
    BY <2>2
  <2>4. b[2] = Tail(b)[1]
    BY <1>1, <2>2
  <2>5. Tail(b) # <<>>
    <3> DEFINE c == Tail(b)
    <3>1. Len(c) # 0
      BY <2>2
    <3> HIDE DEF c
    <3>2. c # <<>>
      BY <3>1
    <3> QED BY <3>2 DEF c
  <2> QED BY <2>3, <2>4, <2>5
<1> DEFINE c == Tail(b)
<1> HIDE DEF c
<1>3. ASSUME c \in Seq(Byte), c # <<>>
      PROVE  Tail(c) \in Seq(Byte) /\ Len(Tail(c)) = Len(c) - 1 /\ Len(c) \in Nat
  BY <1>3
<1> QED BY <1>1, <1>2, <1>3 DEF c

\* Reading a node consumes bytes and returns a timestamp no deeper than
\* allowed.
LEMMA BodyTyped ==
  ASSUME NEW g, NEW b \in Seq(Byte), Reads(g, Len(b)), NEW len \in Nat, NEW d \in Nat
  PROVE  Body(g, b, len, d) \in Shorter(Len(b), d)
<1>1. CASE d = 0 \/ len > MaxLength \/ b = <<>>
  BY <1>1, ShorterIs DEF Body
<1>2. CASE ~(d = 0 \/ len > MaxLength \/ b = <<>>)
  <2>1. CASE b[1] # forkMark
    <3>1. Body(g, b, len, d) = Item(g, b[1], Tail(b), len, d)
      BY <1>2, <2>1 DEF Body
    <3>2. Tail(b) \in Seq(Byte) /\ Len(Tail(b)) < Len(b) /\ Len(b) \in Nat /\ d # 0
      BY <1>2, BodyCases
    <3>3. Item(g, b[1], Tail(b), len, d) \in Shorter(Len(b), d)
      BY <3>2, ItemTyped
    <3> QED BY <3>1, <3>3
  <2>2. CASE b[1] = forkMark /\ Len(b) = 1
    BY <1>2, <2>2, ShorterIs DEF Body
  <2>3. CASE b[1] = forkMark /\ Len(b) # 1
    <3> DEFINE r == Item(g, b[2], Tail(Tail(b)), len, d)
               q == g[<<r.rest, len, d>>]
    <3>1. Body(g, b, len, d) = IF r.st # "ok" THEN r
                               ELSE IF q.st = "ok" THEN Ok(Join(r.val, q.val), q.rest) ELSE q
      BY <1>2, <2>3 DEF Body, More, Both
    <3>2. r \in Shorter(Len(b), d)
      BY <1>2, <2>3, BodyCases, ItemTyped
    <3> HIDE DEF r
    <3>3. CASE r.st # "ok"
      BY <3>1, <3>2, <3>3
    <3>4. CASE r.st = "ok"
      <4>1. r.val \in Stamps[d] /\ r.rest \in Seq(Byte) /\ Len(r.rest) < Len(b)
        BY <3>2, <3>4, ShorterIs
      <4>2. q \in Shorter(Len(r.rest), d)
        BY <4>1 DEF Reads
      <4> HIDE DEF q
      <4>3. CASE q.st = "ok"
        <5>1. q.val \in Stamps[d] /\ q.rest \in Seq(Byte) /\ Len(q.rest) < Len(r.rest)
          BY <4>2, <4>3, ShorterIs
        <5>2. Len(q.rest) < Len(b)
          BY <4>1, <5>1, StringIs
        <5>3. Join(r.val, q.val) \in Stamps[d]
          BY <4>1, <5>1, JoinTyped
        <5> QED BY <3>1, <3>4, <4>3, <5>1, <5>2, <5>3, ShorterIs
      <4>4. CASE q.st # "ok"
        <5>1. q \in {Failed, Panicked}
          BY <4>2, <4>4, ShorterIs
        <5> QED BY <3>1, <3>4, <4>4, <5>1, ShorterIs
      <4> QED BY <4>3, <4>4
    <3> QED BY <3>3, <3>4
  <2> QED BY <2>1, <2>2, <2>3
<1> QED BY <1>1, <1>2

\* Reading a node recurses on shorter strings only.
LEMMA BodyLocal ==
  ASSUME NEW g, NEW h, NEW b \in Seq(Byte), Reads(g, Len(b)), Agree(g, h, Len(b)),
         NEW len \in Nat, NEW d \in Nat
  PROVE  Body(g, b, len, d) = Body(h, b, len, d)
<1>0. ASSUME NEW s \in Seq(Byte), NEW n \in Nat, Len(s) < n, n = Len(b), NEW tag, d # 0
      PROVE  Item(g, tag, s, len, d) = Item(h, tag, s, len, d)
  BY <1>0, ItemLocal
<1>1. CASE d = 0 \/ len > MaxLength \/ b = <<>>
  BY <1>1 DEF Body
<1>2. CASE ~(d = 0 \/ len > MaxLength \/ b = <<>>)
  <2>1. CASE b[1] # forkMark
    <3>1. Item(g, b[1], Tail(b), len, d) = Item(h, b[1], Tail(b), len, d)
      <4>1. Tail(b) \in Seq(Byte) /\ Len(Tail(b)) < Len(b) /\ Len(b) \in Nat /\ d # 0
        BY <1>2, BodyCases
      <4> QED BY <4>1, <1>0
    <3> QED BY <1>2, <2>1, <3>1 DEF Body
  <2>2. CASE b[1] = forkMark /\ Len(b) = 1
    BY <1>2, <2>2 DEF Body
  <2>3. CASE b[1] = forkMark /\ Len(b) # 1
    <3> DEFINE r == Item(g, b[2], Tail(Tail(b)), len, d)
    <3>1. r = Item(h, b[2], Tail(Tail(b)), len, d)
      <4>1. Tail(Tail(b)) \in Seq(Byte) /\ Len(Tail(Tail(b))) < Len(b) /\ Len(b) \in Nat /\ d # 0
        BY <1>2, <2>3, BodyCases
      <4> QED BY <4>1, <1>0
    <3>2. r \in Shorter(Len(b), d)
      BY <1>2, <2>3, BodyCases, ItemTyped
    <3>3. Body(g, b, len, d) = More(g, r, len, d) /\ Body(h, b, len, d) = More(h, r, len, d)
      BY <1>2, <2>3, <3>1 DEF Body
    <3> HIDE DEF r
    <3>4. CASE r.st # "ok"
      BY <3>3, <3>4 DEF More
    <3>5. CASE r.st = "ok"
      <4>1. r.rest \in Seq(Byte) /\ Len(r.rest) < Len(b)
        BY <3>2, <3>5, ShorterIs
      <4>2. g[<<r.rest, len, d>>] = h[<<r.rest, len, d>>]
        BY <4>1 DEF Agree
      <4> QED BY <3>3, <4>2 DEF More
    <3> QED BY <3>4, <3>5
  <2> QED BY <2>1, <2>2, <2>3
<1> QED BY <1>1, <1>2

\* Deserialize is the function its definition says: it always ends, and what
\* it accepts is a timestamp no deeper than allowed, of at least one byte.
LEMMA DeserializeIs ==
  \A b \in Seq(Byte), len \in Nat, d \in Nat :
    /\ Deserialize[<<b, len, d>>] = Body(Deserialize, b, len, d)
    /\ Deserialize[<<b, len, d>>] \in Shorter(Len(b), d)
<1> DEFINE D == Seq(Byte) \X Nat \X Nat
           All == UNION {Stamps[n] : n \in Nat}
           S == Results(All)
           T == [c \in D |-> Shorter(Len(c[1]), c[3])]
           G == Typed(D, S, T)
           depth == [c \in D |-> Len(c[1])]
           step == [p \in D \X G |-> Body(p[2], p[1][1], p[1][2], p[1][3])]
<1>0. ASSUME NEW c \in D
      PROVE  /\ c[1] \in Seq(Byte) /\ c[2] \in Nat /\ c[3] \in Nat /\ c = <<c[1], c[2], c[3]>>
             /\ Len(c[1]) \in Nat
  <2>1. c[1] \in Seq(Byte) /\ c[2] \in Nat /\ c[3] \in Nat /\ c = <<c[1], c[2], c[3]>>
    OBVIOUS
  <2> QED BY <2>1, StringIs
<1>1. ASSUME NEW n \in Nat, NEW d \in Nat
      PROVE  Shorter(n, d) \subseteq S /\ Shorter(n, d) # {}
  <2>1. Stamps[d] \subseteq All
    OBVIOUS
  <2> HIDE DEF All
  <2>2. Results(Stamps[d]) \subseteq Results(All)
    BY <2>1 DEF Results
  <2> QED BY <2>2, ShorterIs DEF Shorter
<1> HIDE DEF S
<1>2. T \in [D -> SUBSET S] /\ \A c \in D : T[c] # {} /\ T[c] = Shorter(Len(c[1]), c[3])
  <2>1. \A c \in D : Shorter(Len(c[1]), c[3]) \in SUBSET S /\ Shorter(Len(c[1]), c[3]) # {}
    BY <1>0, <1>1
  <2> HIDE DEF D
  <2> QED BY <2>1
<1>3. ASSUME NEW g \in G, NEW b \in Seq(Byte), NEW l \in Nat, NEW d \in Nat
      PROVE  g[<<b, l, d>>] \in Shorter(Len(b), d)
  <2> DEFINE c == <<b, l, d>>
  <2>1. c \in D /\ c[1] = b /\ c[3] = d
    OBVIOUS
  <2> HIDE DEF c, D, T
  <2>2. g[c] \in T[c]
    BY <2>1 DEF Typed
  <2> QED BY <1>2, <2>1, <2>2 DEF c
<1> HIDE DEF T
<1>4. ASSUME NEW c \in D, NEW g \in G
      PROVE  Body(g, c[1], c[2], c[3]) \in T[c] /\ Body(g, c[1], c[2], c[3]) \in S
  <2>1. Reads(g, Len(c[1]))
    BY <1>3 DEF Reads
  <2>2. Body(g, c[1], c[2], c[3]) \in Shorter(Len(c[1]), c[3])
    BY <1>0, <2>1, BodyTyped
  <2> QED BY <1>0, <1>1, <1>2, <2>2
<1>5. ASSUME NEW c \in D, NEW g \in G, NEW h \in G,
             \A y \in D : depth[y] < depth[c] => g[y] = h[y]
      PROVE  step[<<c, g>>] = step[<<c, h>>]
  <2>1. Reads(g, Len(c[1]))
    BY <1>3 DEF Reads
  <2>2. Agree(g, h, Len(c[1]))
    <3> SUFFICES ASSUME NEW b \in Seq(Byte), NEW l \in Nat, NEW d \in Nat, Len(b) < Len(c[1])
                 PROVE  g[<<b, l, d>>] = h[<<b, l, d>>]
      BY DEF Agree
    <3> DEFINE y == <<b, l, d>>
    <3>1. y \in D /\ depth[y] = Len(b) /\ depth[c] = Len(c[1])
      OBVIOUS
    <3> HIDE DEF y, depth
    <3>2. g[y] = h[y]
      BY <1>5, <3>1
    <3> QED BY <3>2 DEF y
  <2>3. Body(g, c[1], c[2], c[3]) = Body(h, c[1], c[2], c[3])
    BY <1>0, <2>1, <2>2, BodyLocal
  <2> HIDE DEF G
  <2> QED BY <2>3
<1>6. step \in [D \X G -> S] /\ \A c \in D, g \in G : step[<<c, g>>] \in T[c]
  <2> HIDE DEF D, G
  <2> QED BY <1>4
<1>7. depth \in [D -> Nat]
  BY <1>0
<1>8. PICK g \in G : \A c \in D : g[c] = step[<<c, g>>]
  <2>1. Local(D, G, depth, step)
    <3> HIDE DEF S, depth, step, D, G
    <3> QED BY <1>5 DEF Local
  <2> HIDE DEF depth, step, D
  <2>2. Recursion(D, S, T, depth, step)
    BY <2>1, <1>2, <1>6, <1>7 DEF Recursion
  <2> QED BY <2>2, RecursiveFunction
<1>9. g = [c \in D |-> Body(g, c[1], c[2], c[3])]
  <2>1. g \in [D -> S]
    BY DEF Typed
  <2>2. \A c \in D : g[c] = Body(g, c[1], c[2], c[3])
    <3> HIDE DEF D, G
    <3> QED BY <1>8
  <2> HIDE DEF D, G
  <2> QED BY <2>1, <2>2
<1>10. Deserialize = [c \in D |-> Body(Deserialize, c[1], c[2], c[3])]
  BY <1>9 DEF Deserialize, Body, More, Both, Item, Applied, ChildOf, Attested
<1>11. ASSUME NEW b \in Seq(Byte), NEW l \in Nat, NEW d \in Nat
       PROVE  Deserialize[<<b, l, d>>] = Body(Deserialize, b, l, d)
  <2> DEFINE c == <<b, l, d>>
  <2>1. c \in D /\ c[1] = b /\ c[2] = l /\ c[3] = d
    OBVIOUS
  <2> HIDE DEF c, D
  <2>2. Deserialize[c] = Body(Deserialize, c[1], c[2], c[3])
    BY <1>10, <2>1
  <2> QED BY <2>1, <2>2 DEF c
<1>12. \A c \in D : Deserialize[c] \in T[c]
  <2> DEFINE P == {c \in D : Deserialize[c] \in T[c]}
  <2>1. ASSUME NEW c \in D, \A y \in D : depth[y] < depth[c] => y \in P PROVE c \in P
    <3>1. Reads(Deserialize, Len(c[1]))
      <4> SUFFICES ASSUME NEW b \in Seq(Byte), NEW l \in Nat, NEW d \in Nat, Len(b) < Len(c[1])
                   PROVE  Deserialize[<<b, l, d>>] \in Shorter(Len(b), d)
        BY DEF Reads
      <4> DEFINE y == <<b, l, d>>
      <4>1. y \in D /\ depth[y] = Len(b) /\ depth[c] = Len(c[1]) /\ y[1] = b /\ y[3] = d
        OBVIOUS
      <4> HIDE DEF y, depth, D
      <4>2. Deserialize[y] \in T[y]
        BY <2>1, <4>1
      <4> QED BY <1>2, <4>1, <4>2 DEF y
    <3>2. Body(Deserialize, c[1], c[2], c[3]) \in Shorter(Len(c[1]), c[3])
      BY <1>0, <3>1, BodyTyped
    <3>3. Deserialize[c] = Body(Deserialize, c[1], c[2], c[3])
      <4> HIDE DEF D
      <4> QED BY <1>10
    <3> HIDE DEF D
    <3> QED BY <1>2, <3>2, <3>3
  <2> HIDE DEF P, depth, D
  <2>2. Inductive(D, depth, P)
    BY <2>1, <1>7 DEF Inductive
  <2>3. \A c \in D : c \in P
    BY <2>2, SizeInduction
  <2> QED BY <2>3 DEF P
<1>13. ASSUME NEW b \in Seq(Byte), NEW l \in Nat, NEW d \in Nat
       PROVE  Deserialize[<<b, l, d>>] \in Shorter(Len(b), d)
  <2> DEFINE c == <<b, l, d>>
  <2>1. c \in D /\ c[1] = b /\ c[2] = l /\ c[3] = d
    OBVIOUS
  <2> HIDE DEF c, D
  <2> QED BY <1>2, <1>12, <2>1 DEF c
<1> QED BY <1>11, <1>13

-----------------------------------------------------------------------------
(***************************************************************************)
(* Deserialize of what was written, item by item.                          *)
(***************************************************************************)

\* A node that does not start with a fork mark is one item.
LEMMA ReadOne ==
  ASSUME NEW tag \in Byte, tag # forkMark, NEW s \in Seq(Byte),
         NEW len \in Nat, len <= MaxLength, NEW d \in Nat, d # 0
  PROVE  Deserialize[<<Push(tag, s), len, d>>] = Item(Deserialize, tag, s, len, d)
<1> DEFINE b == Push(tag, s)
<1>1. b \in Seq(Byte) /\ b # <<>> /\ b[1] = tag /\ Tail(b) = s
  BY PushIs
<1> HIDE DEF b
<1>2. Deserialize[<<b, len, d>>] = Body(Deserialize, b, len, d)
  BY <1>1, DeserializeIs
<1>3. ~(d = 0 \/ len > MaxLength \/ b = <<>>)
  BY <1>1, Limits
<1>4. Body(Deserialize, b, len, d) = Item(Deserialize, tag, s, len, d)
  BY <1>1, <1>3 DEF Body
<1> QED BY <1>2, <1>4 DEF b

\* A node that starts with a fork mark is an item and another node.
LEMMA ReadFork ==
  ASSUME NEW tag \in Byte, NEW s \in Seq(Byte),
         NEW len \in Nat, len <= MaxLength, NEW d \in Nat, d # 0
  PROVE  Deserialize[<<Push(forkMark, Push(tag, s)), len, d>>] =
           More(Deserialize, Item(Deserialize, tag, s, len, d), len, d)
<1> DEFINE q == Push(tag, s)
           b == Push(forkMark, q)
<1>1. q \in Seq(Byte) /\ q # <<>> /\ q[1] = tag /\ Tail(q) = s /\ Len(q) = 1 + Len(s) /\ Len(s) \in Nat
  BY PushIs, StringIs
<1> HIDE DEF q
<1>2. b \in Seq(Byte) /\ b # <<>> /\ b[1] = forkMark /\ Tail(b) = q /\ Len(b) = 1 + Len(q)
  BY <1>1, PushIs, ForkMark
<1> HIDE DEF b
<1>3. Len(b) # 1
  BY <1>1, <1>2
<1>4. b[2] = tag
  BY <1>1, <1>2, <1>3, BodyCases
<1>5. Deserialize[<<b, len, d>>] = Body(Deserialize, b, len, d)
  BY <1>2, DeserializeIs
<1>6. ~(d = 0 \/ len > MaxLength \/ b = <<>>)
  BY <1>2, Limits
<1>7. Body(Deserialize, b, len, d) = More(Deserialize, Item(Deserialize, tag, s, len, d), len, d)
  BY <1>1, <1>2, <1>3, <1>4, <1>6 DEF Body
<1> QED BY <1>5, <1>7 DEF b, q

\* Nothing is no node.
LEMMA ReadEnd ==
  ASSUME NEW len \in Nat, NEW d \in Nat
  PROVE  Deserialize[<<<<>>, len, d>>] = Failed
<1> DEFINE b == <<>>
<1>1. b \in Seq(Byte) /\ b = <<>>
  OBVIOUS
<1> HIDE DEF b
<1>2. Deserialize[<<b, len, d>>] = Failed
  BY <1>1, DeserializeIs DEF Body
<1> QED BY <1>2 DEF b

\* A fork mark alone is no node.
LEMMA ReadFork1 ==
  ASSUME NEW len \in Nat, NEW d \in Nat
  PROVE  Deserialize[<<Push(forkMark, <<>>), len, d>>] = Failed
<1> DEFINE b == Push(forkMark, <<>>)
<1>1. b \in Seq(Byte) /\ b # <<>> /\ b[1] = forkMark /\ Len(b) = 1
  <2> DEFINE nil == <<>>
  <2>1. nil \in Seq(Byte) /\ Len(nil) = 0
    OBVIOUS
  <2> HIDE DEF nil
  <2>2. LET p == Push(forkMark, nil) IN p \in Seq(Byte) /\ p # <<>> /\ p[1] = forkMark /\ Len(p) = 1 + Len(nil)
    BY <2>1, PushIs, ForkMark
  <2>3. 1 + Len(nil) = 1
    BY <2>1
  <2> QED BY <2>2, <2>3 DEF nil
<1> HIDE DEF b
<1>2. Deserialize[<<b, len, d>>] = Failed
  BY <1>1, DeserializeIs DEF Body
<1> QED BY <1>2 DEF b

\* notary.Deserialize takes a.
Plain(a) == IsUnknown(a.tag) => a.val = <<>>

\* The item of an attestation is read back.
LEMMA AttItemWhole ==
  ASSUME NEW g, NEW a \in Attestation, NEW rest \in Seq(Byte), NEW len, NEW d
  PROVE  Item(g, attestationMark, SerializeAttestation(a) \o rest, len, d) =
           IF Plain(a) THEN Ok(Single(a), rest) ELSE Failed
<1> DEFINE r == DeserializeAttestation(SerializeAttestation(a) \o rest)
<1>1. r = IF Plain(a) THEN Ok(a, rest) ELSE Failed
  BY AttestationWhole DEF Plain
<1>2. Item(g, attestationMark, SerializeAttestation(a) \o rest, len, d) = Attested(r)
  BY DEF Item
<1> HIDE DEF r
<1> QED BY <1>1, <1>2, OkIs, FailedIs DEF Attested

\* The tag of an op is no mark.
LEMMA OpMark ==
  ASSUME NEW o \in Op
  PROVE  o.tag \in Byte /\ o.tag # attestationMark /\ o.tag # forkMark
BY OpIs DEF attestationMark, forkMark

\* The item of an edge is read back if its child is.
LEMMA OpItemWhole ==
  ASSUME NEW g, NEW o \in Op, NEW s \in Seq(Byte), NEW len \in Nat, NEW d \in Nat,
         ResultLength(o, len) <= MaxLength
  PROVE  Item(g, o.tag, OpRest(o) \o s, len, d) = ChildOf(o, g[<<s, ResultLength(o, len), d - 1>>])
<1> DEFINE r == DeserializeFromTag(OpRest(o) \o s, o.tag)
           l == ResultLength(o, len)
           c == g[<<s, l, d - 1>>]
<1>1. r = Ok(o, s)
  BY OpWhole
<1>2. Item(g, o.tag, OpRest(o) \o s, len, d) = Applied(g, r, len, d)
  BY OpMark DEF Item
<1>3. l \in Nat /\ ~(l > MaxLength)
  BY LengthIs, Limits
<1> HIDE DEF r
<1>4. r.st = "ok" /\ r.val = o /\ r.rest = s
  BY <1>1, OkIs
<1>5. Applied(g, r, len, d) = ChildOf(o, c)
  BY <1>3, <1>4 DEF Applied
<1> QED BY <1>2, <1>5

\* Items and what follows them.
LEMMA ConcatPush ==
  ASSUME NEW e \in Byte, NEW s \in Seq(Byte), NEW x \in Seq(Byte), NEW y \in Seq(Byte)
  PROVE  /\ Push(e, s \o x) \o y = Push(e, s \o (x \o y))
         /\ Push(e, x) \o y = Push(e, x \o y)
         /\ x \o y \in Seq(Byte) /\ s \o (x \o y) \in Seq(Byte)
<1>1. s \o x \in Seq(Byte) /\ x \o y \in Seq(Byte)
  BY ConcatIs
<1>2. s \o (x \o y) \in Seq(Byte)
  BY <1>1, ConcatIs
<1>3. Push(e, s \o x) \o y = Push(e, (s \o x) \o y) /\ Push(e, x) \o y = Push(e, x \o y)
  BY <1>1, PushConcat
<1>4. (s \o x) \o y = s \o (x \o y)
  BY ConcatAssoc
<1> QED BY <1>1, <1>2, <1>3, <1>4

\* An attestation has no children.
LEMMA RenewedSingle ==
  ASSUME NEW g, NEW a
  PROVE  Renewed(Single(a), g) = Single(a)
BY DEF Renewed, Single, Mapped

\* An edge with its child replaced.
LEMMA RenewedOne ==
  ASSUME NEW g, NEW e
  PROVE  Renewed(One(e), g) = Under(e.op, g[e.stamp])
<1>1. Mapped(<<e>>, g) = <<[op |-> e.op, stamp |-> g[e.stamp]]>>
  <2> DEFINE x == <<e>>
             y == [op |-> e.op, stamp |-> g[e.stamp]]
  <2>1. DOMAIN x = 1..1 /\ x[1] = e
    OBVIOUS
  <2> HIDE DEF x
  <2>2. Mapped(x, g) = [i \in 1..1 |-> y]
    <3>1. \A i \in DOMAIN x : [op |-> x[i].op, stamp |-> g[x[i].stamp]] = y
      BY <2>1
    <3> HIDE DEF y
    <3> QED BY <2>1, <3>1 DEF Mapped
  <2> HIDE DEF y
  <2>3. [i \in 1..1 |-> y] = <<y>>
    OBVIOUS
  <2> QED BY <2>2, <2>3 DEF x, y
<1> QED BY <1>1 DEF Renewed, One, Under

\* The elements of a concatenation.
LEMMA ListAt ==
  ASSUME NEW S, NEW a \in Seq(S), NEW b \in Seq(S), NEW i \in 1..(Len(a) + Len(b))
  PROVE  (a \o b)[i] = IF i <= Len(a) THEN a[i] ELSE b[i - Len(a)]
OBVIOUS

\* Mapped of a concatenation.
LEMMA MappedConcat ==
  ASSUME NEW E, NEW s \in Seq(E), NEW u \in Seq(E), NEW g
  PROVE  Mapped(s \o u, g) = Mapped(s, g) \o Mapped(u, g)
<1> DEFINE f(e) == [op |-> e.op, stamp |-> g[e.stamp]]
           F == {f(e) : e \in E}
           m == Len(s)
           n == Len(u)
           v == s \o u
<1>1. /\ m \in Nat /\ n \in Nat /\ v \in Seq(E) /\ Len(v) = m + n
      /\ DOMAIN s = 1..m /\ DOMAIN u = 1..n /\ DOMAIN v = 1..(m + n)
      /\ \A i \in 1..m : v[i] = s[i] /\ s[i] \in E
      /\ \A i \in (m + 1)..(m + n) : v[i] = u[i - m] /\ u[i - m] \in E
      /\ \A i \in 1..n : u[i] \in E
  OBVIOUS
<1>2. Mapped(s, g) = [i \in 1..m |-> f(s[i])] /\ Mapped(u, g) = [i \in 1..n |-> f(u[i])]
      /\ Mapped(v, g) = [i \in 1..(m + n) |-> f(v[i])]
  BY <1>1 DEF Mapped
<1> HIDE DEF f, m, n, v
<1> DEFINE x == [i \in 1..m |-> f(s[i])]
           y == [i \in 1..n |-> f(u[i])]
           z == [i \in 1..(m + n) |-> f(v[i])]
<1>3. x \in Seq(F) /\ y \in Seq(F) /\ z \in Seq(F) /\ Len(x) = m /\ Len(y) = n /\ Len(z) = m + n
  <2>1. \A i \in 1..m : f(s[i]) \in F
    BY <1>1
  <2>2. \A i \in 1..n : f(u[i]) \in F
    BY <1>1
  <2>3. \A i \in 1..(m + n) : f(v[i]) \in F
    <3> SUFFICES ASSUME NEW i \in 1..(m + n) PROVE v[i] \in E
      OBVIOUS
    <3>1. i \in 1..m \/ i \in (m + 1)..(m + n)
      BY <1>1
    <3> QED BY <1>1, <3>1
  <2> HIDE DEF F
  <2> QED BY <1>1, <2>1, <2>2, <2>3
<1>4. \A i \in 1..m : z[i] = x[i]
  BY <1>1
<1>5. \A i \in (m + 1)..(m + n) : z[i] = y[i - m]
  <2> SUFFICES ASSUME NEW i \in (m + 1)..(m + n) PROVE z[i] = y[i - m]
    OBVIOUS
  <2>1. i \in 1..(m + n) /\ i - m \in 1..n
    BY <1>1
  <2> QED BY <1>1, <2>1
<1> HIDE DEF x, y, z, F
<1>6. z = x \o y
  <2>1. /\ x \o y \in Seq(F) /\ Len(x \o y) = m + n
        /\ \A i \in 1..m : (x \o y)[i] = x[i]
        /\ \A i \in (m + 1)..(m + n) : (x \o y)[i] = y[i - m]
    <3>1. /\ x \o y \in Seq(F) /\ Len(x \o y) = Len(x) + Len(y)
          /\ \A i \in 1..(Len(x) + Len(y)) : (x \o y)[i] = IF i <= Len(x) THEN x[i] ELSE y[i - Len(x)]
      BY <1>3, ListConcat, ListAt
    <3> DEFINE w == x \o y
    <3> HIDE DEF w
    <3>2. /\ w \in Seq(F) /\ Len(w) = m + n
          /\ \A i \in 1..(m + n) : w[i] = IF i <= m THEN x[i] ELSE y[i - m]
      BY <1>3, <3>1 DEF w
    <3>3. /\ \A i \in 1..m : i \in 1..(m + n) /\ i <= m
          /\ \A i \in (m + 1)..(m + n) : i \in 1..(m + n) /\ ~(i <= m)
      BY <1>1
    <3> QED BY <3>2, <3>3 DEF w
  <2> DEFINE w == x \o y
  <2> HIDE DEF w
  <2>2. \A i \in 1..(m + n) : z[i] = w[i]
    <3> SUFFICES ASSUME NEW i \in 1..(m + n) PROVE z[i] = w[i]
      OBVIOUS
    <3>1. i \in 1..m \/ i \in (m + 1)..(m + n)
      BY <1>1
    <3> QED BY <1>4, <1>5, <2>1, <3>1 DEF w
  <2>3. z = w
    BY <1>3, <2>1, <2>2, SameList DEF w
  <2> QED BY <2>3 DEF w
<1> QED BY <1>2, <1>6 DEF x, y, z, v

\* Renewed of a node with more items.
LEMMA RenewedJoin ==
  ASSUME NEW E, NEW m \in Lists(E), NEW n \in Lists(E), NEW g
  PROVE  Renewed(Join(m, n), g) = Join(Renewed(m, g), Renewed(n, g))
<1>1. Mapped(m.ops \o n.ops, g) = Mapped(m.ops, g) \o Mapped(n.ops, g)
  <2>1. m.ops \in Seq(E) /\ n.ops \in Seq(E)
    BY ListsIs
  <2> DEFINE s == m.ops
             u == n.ops
  <2> HIDE DEF s, u
  <2>2. Mapped(s \o u, g) = Mapped(s, g) \o Mapped(u, g)
    <3>1. s \in Seq(E) /\ u \in Seq(E)
      BY <2>1 DEF s, u
    <3> QED BY <3>1, MappedConcat
  <2> QED BY <2>2 DEF s, u
<1> QED BY <1>1 DEF Renewed, Join

\* b is read as v if ok, and refused otherwise, whatever follows it.
Back(b, len, d, ok, v) ==
  \A rest \in Seq(Byte) : Deserialize[<<b \o rest, len, d>>] = IF ok THEN Ok(v, rest) ELSE Failed

\* The same for an item.
ItemBack(tag, s, len, d, ok, v) ==
  \A rest \in Seq(Byte) : Item(Deserialize, tag, s \o rest, len, d) = IF ok THEN Ok(v, rest) ELSE Failed

\* A node of one item is read back if the item is.
LEMMA BackOne ==
  ASSUME NEW tag \in Byte, tag # forkMark, NEW s \in Seq(Byte),
         NEW len \in Nat, len <= MaxLength, NEW d \in Nat, d # 0,
         NEW ok, NEW v, ItemBack(tag, s, len, d, ok, v)
  PROVE  Back(Push(tag, s), len, d, ok, v)
<1> SUFFICES ASSUME NEW rest \in Seq(Byte)
             PROVE  Deserialize[<<Push(tag, s) \o rest, len, d>>] = IF ok THEN Ok(v, rest) ELSE Failed
  BY DEF Back
<1>1. Push(tag, s) \o rest = Push(tag, s \o rest) /\ s \o rest \in Seq(Byte)
  BY PushConcat, ConcatIs
<1> DEFINE q == s \o rest
<1> HIDE DEF q
<1>2. Deserialize[<<Push(tag, q), len, d>>] = Item(Deserialize, tag, q, len, d)
  BY <1>1, ReadOne DEF q
<1>3. Item(Deserialize, tag, q, len, d) = IF ok THEN Ok(v, rest) ELSE Failed
  BY DEF ItemBack, q
<1> QED BY <1>1, <1>2, <1>3 DEF q

\* A node of an item and more is read back if both are.
LEMMA BackMore ==
  ASSUME NEW tag \in Byte, tag # forkMark, NEW s \in Seq(Byte), NEW y \in Seq(Byte),
         NEW len \in Nat, len <= MaxLength, NEW d \in Nat, d # 0,
         NEW ok, NEW v, ItemBack(tag, s, len, d, ok, v),
         NEW ok2, NEW v2, Back(y, len, d, ok2, v2)
  PROVE  Back(Push(forkMark, Push(tag, s) \o y), len, d, ok /\ ok2, Join(v, v2))
<1> SUFFICES ASSUME NEW rest \in Seq(Byte)
             PROVE  Deserialize[<<Push(forkMark, Push(tag, s) \o y) \o rest, len, d>>] =
                      IF ok /\ ok2 THEN Ok(Join(v, v2), rest) ELSE Failed
  BY DEF Back
<1> DEFINE x == y \o rest
           q == s \o x
           r == Item(Deserialize, tag, q, len, d)
<1>1. x \in Seq(Byte)
  BY ConcatIs
<1>2. q \in Seq(Byte)
  BY <1>1, ConcatIs
<1>3. Push(forkMark, Push(tag, s) \o y) \o rest = Push(forkMark, Push(tag, q))
  <2> DEFINE h == Push(tag, s)
  <2>1. h \in Seq(Byte)
    BY PushIs
  <2>2. h \o x = Push(tag, q)
    BY <1>1, PushConcat
  <2> HIDE DEF h
  <2>3. h \o y \in Seq(Byte)
    BY <2>1, ConcatIs
  <2>4. Push(forkMark, h \o y) \o rest = Push(forkMark, (h \o y) \o rest)
    BY <2>3, ForkMark, PushConcat
  <2>5. (h \o y) \o rest = h \o x
    BY <2>1, ConcatAssoc
  <2> QED BY <2>2, <2>4, <2>5 DEF h
<1> HIDE DEF x
<1>4. r = IF ok THEN Ok(v, x) ELSE Failed
  BY <1>1 DEF ItemBack
<1> HIDE DEF q
<1>5. Deserialize[<<Push(forkMark, Push(tag, q)), len, d>>] = More(Deserialize, r, len, d)
  BY <1>2, ReadFork
<1> HIDE DEF r
<1>6. Deserialize[<<x, len, d>>] = IF ok2 THEN Ok(v2, rest) ELSE Failed
  BY DEF Back, x
<1> DEFINE z == Deserialize[<<x, len, d>>]
<1>7. CASE ~ok
  <2>1. r.st # "ok" /\ r = Failed
    BY <1>4, <1>7, FailedIs
  <2> QED BY <1>3, <1>5, <1>7, <2>1 DEF More
<1>8. CASE ok
  <2>1. r.st = "ok" /\ r.val = v /\ r.rest = x
    BY <1>4, <1>8, OkIs
  <2>2. More(Deserialize, r, len, d) = Both(v, z)
    BY <2>1 DEF More
  <2> HIDE DEF z
  <2>3. Both(v, z) = IF ok2 THEN Ok(Join(v, v2), rest) ELSE Failed
    <3>1. CASE ok2
      <4>1. z.st = "ok" /\ z.val = v2 /\ z.rest = rest
        BY <1>6, <3>1, OkIs DEF z
      <4> QED BY <3>1, <4>1 DEF Both
    <3>2. CASE ~ok2
      <4>1. z.st # "ok" /\ z = Failed
        BY <1>6, <3>2, FailedIs DEF z
      <4> QED BY <3>2, <4>1 DEF Both
    <3> QED BY <3>1, <3>2
  <2> QED BY <1>3, <1>5, <1>8, <2>2, <2>3
<1> QED BY <1>7, <1>8

\* An attestation is read back.
LEMMA AttBack ==
  ASSUME NEW a \in Attestation, NEW len, NEW d
  PROVE  ItemBack(attestationMark, SerializeAttestation(a), len, d, Plain(a), Single(a))
BY AttItemWhole DEF ItemBack

\* An edge is read back if its child is.
LEMMA OpBack ==
  ASSUME NEW o \in Op, NEW y \in Seq(Byte), NEW len \in Nat, NEW d \in Nat,
         ResultLength(o, len) <= MaxLength,
         NEW ok, NEW v, Back(y, ResultLength(o, len), d - 1, ok, v)
  PROVE  ItemBack(o.tag, OpRest(o) \o y, len, d, ok, Under(o, v))
<1> SUFFICES ASSUME NEW rest \in Seq(Byte)
             PROVE  Item(Deserialize, o.tag, (OpRest(o) \o y) \o rest, len, d) =
                      IF ok THEN Ok(Under(o, v), rest) ELSE Failed
  BY DEF ItemBack
<1> DEFINE x == y \o rest
           z == Deserialize[<<x, ResultLength(o, len), d - 1>>]
<1>1. OpRest(o) \in Seq(Byte) /\ x \in Seq(Byte)
  BY OpBytes, ConcatIs
<1>2. (OpRest(o) \o y) \o rest = OpRest(o) \o x
  BY <1>1, ConcatAssoc
<1>3. z = IF ok THEN Ok(v, rest) ELSE Failed
  BY DEF Back
<1> HIDE DEF x
<1>4. Item(Deserialize, o.tag, OpRest(o) \o x, len, d) = ChildOf(o, z)
  BY <1>1, OpItemWhole
<1> HIDE DEF z
<1>5. ChildOf(o, z) = IF ok THEN Ok(Under(o, v), rest) ELSE Failed
  <2>1. CASE ok
    <3>1. z.st = "ok" /\ z.val = v /\ z.rest = rest
      BY <1>3, <2>1, OkIs
    <3> QED BY <2>1, <3>1 DEF ChildOf
  <2>2. CASE ~ok
    <3>1. z.st # "ok" /\ z = Failed
      BY <1>3, <2>2, FailedIs
    <3> QED BY <2>2, <3>1 DEF ChildOf
  <2> QED BY <2>1, <2>2
<1> QED BY <1>2, <1>4, <1>5

\* Supported, of the items of a node.
Fits(n, d) == Readable(n) /\ \A i \in DOMAIN n.ops : Supported[<<n.ops[i].stamp, d - 1>>]

\* Fits, of one item.
LEMMA FitsItem ==
  ASSUME NEW d, NEW a, NEW e
  PROVE  /\ Fits(Single(a), d) <=> Plain(a)
         /\ Fits(One(e), d) <=> Supported[<<e.stamp, d - 1>>]
<1> DEFINE x == <<a>>
           y == <<e>>
           nil == <<>>
<1>1. DOMAIN x = {1} /\ x[1] = a /\ DOMAIN y = {1} /\ y[1] = e /\ DOMAIN nil = {}
  OBVIOUS
<1>2. Single(a).atts = x /\ Single(a).ops = nil /\ One(e).atts = nil /\ One(e).ops = y
  BY DEF Single, One
<1> HIDE DEF x, y, nil
<1> QED BY <1>1, <1>2 DEF Fits, Readable, Plain

\* Fits, of more items.
LEMMA FitsJoin ==
  ASSUME NEW E, NEW m \in Lists(E), NEW n \in Lists(E), NEW d
  PROVE  Fits(Join(m, n), d) <=> Fits(m, d) /\ Fits(n, d)
<1>0. ASSUME NEW S, NEW s \in Seq(S), NEW u \in Seq(S), NEW P
      PROVE  (\A i \in DOMAIN (s \o u) : (s \o u)[i] \in P) <=>
               (\A i \in DOMAIN s : s[i] \in P) /\ (\A i \in DOMAIN u : u[i] \in P)
  <2> DEFINE v == s \o u
             j == Len(s)
             k == Len(u)
  <2>1. /\ j \in Nat /\ k \in Nat /\ DOMAIN s = 1..j /\ DOMAIN u = 1..k /\ DOMAIN v = 1..(j + k)
    OBVIOUS
  <2>2. \A i \in 1..(j + k) : v[i] = IF i <= j THEN s[i] ELSE u[i - j]
    BY ListAt
  <2> HIDE DEF v, j, k
  <2>3. ASSUME \A i \in DOMAIN v : v[i] \in P
        PROVE  (\A i \in DOMAIN s : s[i] \in P) /\ (\A i \in DOMAIN u : u[i] \in P)
    <3>1. ASSUME NEW i \in 1..j PROVE s[i] \in P
      <4>1. i \in 1..(j + k) /\ i <= j
        BY <2>1
      <4> QED BY <2>1, <2>2, <2>3, <4>1
    <3>2. ASSUME NEW i \in 1..k PROVE u[i] \in P
      <4>1. i + j \in 1..(j + k) /\ ~(i + j <= j) /\ (i + j) - j = i
        BY <2>1
      <4> QED BY <2>1, <2>2, <2>3, <4>1
    <3> QED BY <2>1, <3>1, <3>2
  <2>4. ASSUME \A i \in DOMAIN s : s[i] \in P, \A i \in DOMAIN u : u[i] \in P
        PROVE  \A i \in DOMAIN v : v[i] \in P
    <3> SUFFICES ASSUME NEW i \in 1..(j + k) PROVE v[i] \in P
      BY <2>1
    <3>1. CASE i <= j
      <4>1. i \in 1..j
        BY <2>1, <3>1
      <4> QED BY <2>1, <2>2, <2>4, <3>1, <4>1
    <3>2. CASE ~(i <= j)
      <4>1. i - j \in 1..k
        BY <2>1, <3>2
      <4> QED BY <2>1, <2>2, <2>4, <3>2, <4>1
    <3> QED BY <3>1, <3>2
  <2> QED BY <2>3, <2>4 DEF v
<1> DEFINE A == {a \in Attestation : Plain(a)}
           B == {e \in E : Supported[<<e.stamp, d - 1>>]}
<1>1. ASSUME NEW s \in Seq(Attestation)
      PROVE  (\A i \in DOMAIN s : s[i] \in A) <=> (\A i \in DOMAIN s : IsUnknown(s[i].tag) => s[i].val = <<>>)
  <2>1. \A i \in DOMAIN s : s[i] \in Attestation
    OBVIOUS
  <2> QED BY <2>1 DEF Plain
<1>2. ASSUME NEW s \in Seq(E)
      PROVE  (\A i \in DOMAIN s : s[i] \in B) <=> (\A i \in DOMAIN s : Supported[<<s[i].stamp, d - 1>>])
  <2>1. \A i \in DOMAIN s : s[i] \in E
    OBVIOUS
  <2> QED BY <2>1
<1>3. ASSUME NEW x, x.atts \in Seq(Attestation), x.ops \in Seq(E)
      PROVE  Fits(x, d) <=> (\A i \in DOMAIN x.atts : x.atts[i] \in A) /\ (\A i \in DOMAIN x.ops : x.ops[i] \in B)
  BY <1>1, <1>2, <1>3 DEF Fits, Readable
<1>4. /\ m.atts \in Seq(Attestation) /\ n.atts \in Seq(Attestation)
      /\ m.ops \in Seq(E) /\ n.ops \in Seq(E)
      /\ Join(m, n).atts = m.atts \o n.atts /\ Join(m, n).ops = m.ops \o n.ops
  BY ListsIs, JoinIs
<1>5. m.atts \o n.atts \in Seq(Attestation) /\ m.ops \o n.ops \in Seq(E)
  BY <1>4, ListConcat
<1> DEFINE j == Join(m, n)
<1> HIDE DEF A, B, j
<1>6. j.atts \in Seq(Attestation) /\ j.ops \in Seq(E) /\ j.atts = m.atts \o n.atts /\ j.ops = m.ops \o n.ops
  BY <1>4, <1>5 DEF j
<1>7. Fits(j, d) <=> (\A i \in DOMAIN j.atts : j.atts[i] \in A) /\ (\A i \in DOMAIN j.ops : j.ops[i] \in B)
  BY <1>3, <1>6
<1>8. /\ (\A i \in DOMAIN j.atts : j.atts[i] \in A) <=>
           (\A i \in DOMAIN m.atts : m.atts[i] \in A) /\ (\A i \in DOMAIN n.atts : n.atts[i] \in A)
      /\ (\A i \in DOMAIN j.ops : j.ops[i] \in B) <=>
           (\A i \in DOMAIN m.ops : m.ops[i] \in B) /\ (\A i \in DOMAIN n.ops : n.ops[i] \in B)
  <2> DEFINE s == m.atts
             u == n.atts
             v == m.ops
             w == n.ops
  <2>1. s \in Seq(Attestation) /\ u \in Seq(Attestation) /\ v \in Seq(E) /\ w \in Seq(E)
        /\ j.atts = s \o u /\ j.ops = v \o w
    BY <1>4, <1>6
  <2> HIDE DEF s, u, v, w
  <2>2. (\A i \in DOMAIN (s \o u) : (s \o u)[i] \in A) <=>
           (\A i \in DOMAIN s : s[i] \in A) /\ (\A i \in DOMAIN u : u[i] \in A)
    BY <1>0, <2>1
  <2>3. (\A i \in DOMAIN (v \o w) : (v \o w)[i] \in B) <=>
           (\A i \in DOMAIN v : v[i] \in B) /\ (\A i \in DOMAIN w : w[i] \in B)
    BY <1>0, <2>1
  <2>4. (\A i \in DOMAIN j.atts : j.atts[i] \in A) <=>
           (\A i \in DOMAIN s : s[i] \in A) /\ (\A i \in DOMAIN u : u[i] \in A)
    BY <2>1, <2>2
  <2>5. (\A i \in DOMAIN j.ops : j.ops[i] \in B) <=>
           (\A i \in DOMAIN v : v[i] \in B) /\ (\A i \in DOMAIN w : w[i] \in B)
    BY <2>1, <2>3
  <2> QED BY <2>4, <2>5 DEF s, u, v, w
<1>9. /\ Fits(m, d) <=> (\A i \in DOMAIN m.atts : m.atts[i] \in A) /\ (\A i \in DOMAIN m.ops : m.ops[i] \in B)
      /\ Fits(n, d) <=> (\A i \in DOMAIN n.atts : n.atts[i] \in A) /\ (\A i \in DOMAIN n.ops : n.ops[i] \in B)
  BY <1>3, <1>4
<1>10. Fits(j, d) <=> Fits(m, d) /\ Fits(n, d)
  BY <1>7, <1>8, <1>9
<1> QED BY <1>10 DEF j

-----------------------------------------------------------------------------
(***************************************************************************)
(* Deserialize of what Serialize wrote.                                    *)
(***************************************************************************)

\* The children of E are read back.
Reread(E, len, d) ==
  \A e \in E : /\ ResultLength(e.op, len) <= MaxLength
               /\ Back(Serialize[e.stamp], ResultLength(e.op, len), d - 1,
                       Supported[<<e.stamp, d - 1>>], Normal[e.stamp])

\* A single item is a node that is not empty.
LEMMA ItemIn ==
  ASSUME NEW E
  PROVE  /\ \A a \in Attestation : Single(a) \in Lists(E) /\ Single(a) # Empty
         /\ \A e \in E : One(e) \in Lists(E) /\ One(e) # Empty
<1>1. ASSUME NEW a \in Attestation PROVE Single(a) \in Lists(E) /\ Single(a) # Empty
  <2>1. <<a>> \in Seq(Attestation) /\ <<>> \in Seq(E) /\ <<a>> # <<>>
    OBVIOUS
  <2>2. Single(a) \in Lists(E)
    BY <2>1 DEF Single, Lists
  <2> QED BY <2>1, <2>2, SingleIs, EmptyIs
<1>2. ASSUME NEW e \in E PROVE One(e) \in Lists(E) /\ One(e) # Empty
  <2>1. <<e>> \in Seq(E) /\ <<>> \in Seq(Attestation) /\ <<e>> # <<>>
    OBVIOUS
  <2>2. One(e) \in Lists(E) /\ One(e).ops = <<e>>
    BY <2>1 DEF One, Lists
  <2> QED BY <2>1, <2>2, EmptyIs
<1> QED BY <1>1, <1>2

\* More items are a node.
LEMMA JoinIn ==
  ASSUME NEW E, NEW m \in Lists(E), NEW n \in Lists(E)
  PROVE  Join(m, n) \in Lists(E)
<1>1. /\ m.atts \in Seq(Attestation) /\ n.atts \in Seq(Attestation)
      /\ m.ops \in Seq(E) /\ n.ops \in Seq(E)
  BY ListsIs
<1>2. m.atts \o n.atts \in Seq(Attestation) /\ m.ops \o n.ops \in Seq(E)
  BY <1>1, ListConcat
<1> QED BY <1>2 DEF Join, Lists

\* What is written of a node is read back if its children are.
LEMMA NodeBack ==
  ASSUME NEW E, E \subseteq Edge, NEW len \in Nat, len <= MaxLength, NEW d \in Nat, d # 0,
         Reread(E, len, d)
  PROVE  \A n \in Lists(E) : n # Empty =>
           Back(Layout(n, Serialize), len, d, Fits(n, d), Renewed(n, Normal))
<1> DEFINE P == {n \in Lists(E) : Back(Layout(n, Serialize), len, d, Fits(n, d), Renewed(n, Normal))}
           AttBytes(a) == SerializeAttestation(a)
           OpBytes_(e) == OpRest(e.op) \o Serialize[e.stamp]
<1>0. Writes(E, Serialize)
  BY SerializeIs DEF Writes, Edge
<1>1. ASSUME NEW n \in Lists(E) PROVE Layout(n, Serialize) \in Seq(Byte)
  BY <1>0, LayoutIs
<1>2. ASSUME NEW a \in Attestation
      PROVE  /\ AttBytes(a) \in Seq(Byte) /\ AttItem(a) = Push(attestationMark, AttBytes(a))
             /\ ItemBack(attestationMark, AttBytes(a), len, d, Plain(a), Single(a))
             /\ attestationMark \in Byte /\ attestationMark # forkMark
  BY AttestationBytes, AttBack, ForkMark DEF AttItem
<1>3. ASSUME NEW e \in E
      PROVE  /\ OpBytes_(e) \in Seq(Byte) /\ OpItem(e, Serialize) = Push(e.op.tag, OpBytes_(e))
             /\ ItemBack(e.op.tag, OpBytes_(e), len, d, Supported[<<e.stamp, d - 1>>],
                         Under(e.op, Normal[e.stamp]))
             /\ e.op.tag \in Byte /\ e.op.tag # forkMark
  <2>1. e.op \in Op /\ Serialize[e.stamp] \in Seq(Byte)
    BY <1>0 DEF Edge, Writes
  <2>2. OpRest(e.op) \in Seq(Byte)
    BY <2>1, OpBytes
  <2>3. OpBytes_(e) \in Seq(Byte)
    BY <2>1, <2>2, ConcatIs
  <2>4. OpItem(e, Serialize) = Push(e.op.tag, OpBytes_(e))
    BY <1>0, OpItemIs
  <2>5. ItemBack(e.op.tag, OpBytes_(e), len, d, Supported[<<e.stamp, d - 1>>],
                 Under(e.op, Normal[e.stamp]))
    BY <2>1, OpBack DEF Reread
  <2> QED BY <2>1, <2>3, <2>4, <2>5, OpMark
<1> HIDE DEF AttBytes, OpBytes_
<1>4. ASSUME NEW a \in Attestation PROVE Single(a) \in P
  <2>1. Back(AttItem(a), len, d, Plain(a), Single(a))
    BY <1>2, BackOne
  <2>2. Layout(Single(a), Serialize) = AttItem(a) /\ Renewed(Single(a), Normal) = Single(a)
    BY LayoutAtt, RenewedSingle
  <2>3. Fits(Single(a), d) = Plain(a)
    BY FitsItem DEF Fits, Plain, Readable
  <2>4. Single(a) \in Lists(E)
    BY ItemIn
  <2> QED BY <2>1, <2>2, <2>3, <2>4
<1>5. ASSUME NEW e \in E PROVE One(e) \in P
  <2>1. Back(OpItem(e, Serialize), len, d, Supported[<<e.stamp, d - 1>>], Under(e.op, Normal[e.stamp]))
    BY <1>3, BackOne
  <2>2. Layout(One(e), Serialize) = OpItem(e, Serialize)
        /\ Renewed(One(e), Normal) = Under(e.op, Normal[e.stamp])
    BY <1>0, LayoutOp, RenewedOne
  <2>3. Back(OpItem(e, Serialize), len, d, Fits(One(e), d), Under(e.op, Normal[e.stamp]))
    BY <2>1, FitsItem DEF Back
  <2>4. One(e) \in Lists(E)
    BY ItemIn
  <2> QED BY <2>2, <2>3, <2>4
<1>6. ASSUME NEW a \in Attestation, NEW n \in Lists(E), n # Empty, n \in P
      PROVE  Join(Single(a), n) \in P
  <2> DEFINE y == Layout(n, Serialize)
             f == Fits(n, d)
             v == Renewed(n, Normal)
             j == Join(Single(a), n)
  <2>1. y \in Seq(Byte) /\ Back(y, len, d, f, v)
    BY <1>1, <1>6
  <2>2. Layout(j, Serialize) = Push(forkMark, AttItem(a) \o y)
    BY <1>0, <1>6, LayoutAttMore
  <2>3. Single(a) \in Lists(E)
    BY ItemIn
  <2>4. Renewed(j, Normal) = Join(Single(a), v)
    BY <2>3, RenewedJoin, RenewedSingle
  <2>5. Fits(j, d) <=> Plain(a) /\ f
    BY <2>3, FitsJoin, FitsItem
  <2> HIDE DEF y, f, v
  <2>6. Back(Push(forkMark, AttItem(a) \o y), len, d, Plain(a) /\ f, Join(Single(a), v))
    BY <1>2, <2>1, BackMore
  <2>7. j \in Lists(E)
    BY <2>3, JoinIn
  <2> HIDE DEF j
  <2>8. Back(Layout(j, Serialize), len, d, Fits(j, d), Renewed(j, Normal))
    BY <2>2, <2>4, <2>5, <2>6 DEF Back
  <2> QED BY <2>7, <2>8 DEF j
<1>7. ASSUME NEW e \in E, NEW n \in Lists(E), n # Empty, n.atts = <<>>, n \in P
      PROVE  Join(One(e), n) \in P
  <2> DEFINE y == Layout(n, Serialize)
             f == Fits(n, d)
             v == Renewed(n, Normal)
             j == Join(One(e), n)
             o == Supported[<<e.stamp, d - 1>>]
             u == Under(e.op, Normal[e.stamp])
  <2>1. y \in Seq(Byte) /\ Back(y, len, d, f, v)
    BY <1>1, <1>7
  <2>2. Layout(j, Serialize) = Push(forkMark, OpItem(e, Serialize) \o y)
    BY <1>0, <1>7, LayoutOpMore
  <2>3. One(e) \in Lists(E)
    BY ItemIn
  <2>4. Renewed(j, Normal) = Join(u, v)
    BY <2>3, RenewedJoin, RenewedOne
  <2>5. Fits(j, d) <=> o /\ f
    BY <2>3, FitsJoin, FitsItem
  <2> HIDE DEF y, f, v
  <2>6. Back(Push(forkMark, OpItem(e, Serialize) \o y), len, d, o /\ f, Join(u, v))
    BY <1>3, <2>1, BackMore
  <2>7. j \in Lists(E)
    BY <2>3, JoinIn
  <2> HIDE DEF j, o, u
  <2>8. Back(Layout(j, Serialize), len, d, Fits(j, d), Renewed(j, Normal))
    BY <2>2, <2>4, <2>5, <2>6 DEF Back
  <2> QED BY <2>7, <2>8 DEF j
<1>8. \A n \in Lists(E) : n # Empty => n \in P
  <2> HIDE DEF P
  <2> QED BY <1>4, <1>5, <1>6, <1>7, NodeInduction DEF One
<1> QED BY <1>8

\* Sorting changes nothing about what is supported.
LEMMA FitsIs ==
  ASSUME NEW t \in Stamp, NEW d \in Nat, d # 0
  PROVE  Fits(SortNode(t), d) <=> Supported[<<t, d>>]
<1> DEFINE u == SortNode(t)
<1>1. t.atts \in Seq(Attestation) /\ t.ops \in Seq(Edge)
      /\ Permuted(t.atts, u.atts) /\ Permuted(t.ops, u.ops)
  BY StampIs, SortNodeIs
<1> HIDE DEF u
<1>2. /\ \A i \in DOMAIN u.atts : \E j \in DOMAIN t.atts : u.atts[i] = t.atts[j]
      /\ \A j \in DOMAIN t.atts : \E i \in DOMAIN u.atts : u.atts[i] = t.atts[j]
  BY <1>1, PermutedIs
<1>3. /\ \A i \in DOMAIN u.ops : \E j \in DOMAIN t.ops : u.ops[i] = t.ops[j]
      /\ \A j \in DOMAIN t.ops : \E i \in DOMAIN u.ops : u.ops[i] = t.ops[j]
  <2> DEFINE s == t.ops
             v == u.ops
  <2>1. s \in Seq(Edge) /\ Permuted(s, v)
    BY <1>1
  <2> HIDE DEF s, v
  <2>2. /\ \A i \in DOMAIN v : \E j \in DOMAIN s : v[i] = s[j]
        /\ \A j \in DOMAIN s : \E i \in DOMAIN v : v[i] = s[j]
    BY <2>1, PermutedIs
  <2> QED BY <2>2 DEF s, v
<1>4. Readable(u) <=> Readable(t)
  BY <1>2 DEF Readable
<1>5. (\A i \in DOMAIN u.ops : Supported[<<u.ops[i].stamp, d - 1>>]) <=>
        (\A i \in DOMAIN t.ops : Supported[<<t.ops[i].stamp, d - 1>>])
  BY <1>3
<1>6. d > 0
  OBVIOUS
<1>7. Fits(u, d) <=> Supported[<<t, d>>]
  BY <1>4, <1>5, <1>6, SupportedIs DEF Fits
<1> QED BY <1>7 DEF u

\* Deserialize reads what Serialize wrote of t, and leaves what follows.
LEMMA TreeBack ==
  ASSUME NEW t \in Stamp, Serializable[t], NEW len \in Nat, Applicable[<<t, len>>], NEW d \in Nat
  PROVE  Back(Serialize[t], len, d, Supported[<<t, d>>], Normal[t])
<1> DEFINE D == Stamp
           depth == [x \in D |-> Level(x)]
           Good(x, l, k) == Serializable[x] /\ Applicable[<<x, l>>] =>
                              Back(Serialize[x], l, k, Supported[<<x, k>>], Normal[x])
           P == {x \in D : \A l \in Nat, k \in Nat : Good(x, l, k)}
<1>1. ASSUME NEW x \in D, \A y \in D : depth[y] < depth[x] => y \in P
      PROVE  x \in P
  <2> SUFFICES ASSUME NEW l \in Nat, NEW k \in Nat, Serializable[x], Applicable[<<x, l>>]
               PROVE  Back(Serialize[x], l, k, Supported[<<x, k>>], Normal[x])
    OBVIOUS
  <2>0. l <= MaxLength /\ x # Empty
    BY ApplicableIs, SerializableIs
  <2>1. CASE k = 0
    <3>1. ~Supported[<<x, k>>]
      BY <2>1, SupportedIs
    <3>2. ASSUME NEW rest \in Seq(Byte)
          PROVE  Deserialize[<<Serialize[x] \o rest, l, k>>] = Failed
      <4> DEFINE b == Serialize[x] \o rest
      <4>1. b \in Seq(Byte)
        BY SerializeIs, ConcatIs
      <4> HIDE DEF b
      <4>2. Deserialize[<<b, l, k>>] = Failed
        BY <2>1, <4>1, DeserializeIs DEF Body
      <4> QED BY <4>2 DEF b
    <3> QED BY <3>1, <3>2 DEF Back
  <2>2. CASE k # 0
    <3> DEFINE E == Kids(x)
    <3>1. E \subseteq Edge /\ SortNode(x) \in Lists(E) /\ SortNode(x) # Empty
      BY <2>0, KidsIs, SortNodeIs
    <3>2. Reread(E, l, k)
      <4> SUFFICES ASSUME NEW e \in E
                   PROVE  /\ ResultLength(e.op, l) <= MaxLength
                          /\ Back(Serialize[e.stamp], ResultLength(e.op, l), k - 1,
                                  Supported[<<e.stamp, k - 1>>], Normal[e.stamp])
        BY DEF Reread
      <4> DEFINE c == e.stamp
                 m == ResultLength(e.op, l)
      <4>1. c \in D /\ e.op \in Op /\ depth[c] < depth[x]
        BY KidsIs
      <4>2. Serializable[c] /\ Applicable[<<c, m>>]
        BY ApplicableIs, SerializableIs DEF Kids
      <4>3. m \in Nat /\ k - 1 \in Nat
        BY <2>2, <4>1, LengthIs
      <4> HIDE DEF m
      <4>4. m <= MaxLength
        BY <4>1, <4>2, <4>3, ApplicableIs
      <4>5. Good(c, m, k - 1)
        BY <1>1, <4>1, <4>3
      <4> QED BY <4>2, <4>4, <4>5 DEF m
    <3> HIDE DEF E
    <3>3. Back(Layout(SortNode(x), Serialize), l, k, Fits(SortNode(x), k), Renewed(SortNode(x), Normal))
      BY <2>0, <2>2, <3>1, <3>2, NodeBack
    <3>4. Layout(SortNode(x), Serialize) = Serialize[x] /\ Renewed(SortNode(x), Normal) = Normal[x]
      BY SerializeIs, NormalIs
    <3>5. Fits(SortNode(x), k) <=> Supported[<<x, k>>]
      BY <2>2, FitsIs
    <3> QED BY <3>3, <3>4, <3>5 DEF Back
  <2> QED BY <2>1, <2>2
<1>2. depth \in [D -> Nat]
  BY StampIs
<1> HIDE DEF P, depth, D
<1>3. Inductive(D, depth, P)
  BY <1>1, <1>2 DEF Inductive
<1>4. t \in P
  BY <1>3, SizeInduction DEF D
<1> QED BY <1>4 DEF P

-----------------------------------------------------------------------------
(***************************************************************************)
(* Equal.                                                                  *)
(***************************************************************************)

\* Distinct is the predicate its definition says.
LEMMA DistinctIs ==
  \A t \in Stamp : Distinct[t] <=> Apart(t) /\ \A i \in DOMAIN t.ops : Distinct[t.ops[i].stamp]
<1> DEFINE A == {t \in Stamp : Apart(t)}
           B(t, g) == Apart(t) /\ \A i \in DOMAIN t.ops : g[t.ops[i].stamp]
<1>1. PICK f \in [Stamp -> BOOLEAN] : \A t \in Stamp :
           f[t] <=> t \in A /\ \A i \in DOMAIN t.ops : f[t.ops[i].stamp]
  BY TreePredicate
<1>2. \A t \in Stamp : f[t] = B(t, f)
  <2> SUFFICES ASSUME NEW t \in Stamp PROVE f[t] = B(t, f)
    OBVIOUS
  <2>1. f[t] \in BOOLEAN /\ B(t, f) \in BOOLEAN
    OBVIOUS
  <2>2. f[t] <=> B(t, f)
    BY <1>1
  <2> HIDE DEF B
  <2> QED BY <2>1, <2>2
<1>3. f = [t \in Stamp |-> B(t, f)]
  <2> HIDE DEF B
  <2> QED BY <1>2
<1>4. Distinct = [t \in Stamp |-> B(t, Distinct)]
  BY <1>3 DEF Distinct
<1>5. \A t \in Stamp : Distinct[t] = B(t, Distinct)
  <2> HIDE DEF B
  <2> QED BY <1>4
<1> QED BY <1>5

\* The edge of u under the op o.
Match(u, o) == CHOOSE j \in DOMAIN u.ops : u.ops[j].op = o

\* u has an edge under o.
Has(u, o) == \E j \in DOMAIN u.ops : u.ops[j].op = o

\* Equal, the recursive calls being g.
EqualBody(t, u, g) ==
  /\ Len(t.atts) = Len(u.atts) /\ Len(t.ops) = Len(u.ops)
  /\ ToSet(t.atts) \subseteq ToSet(u.atts)
  /\ \A i \in DOMAIN t.ops :
       /\ Has(u, t.ops[i].op)
       /\ g[<<t.ops[i].stamp, u.ops[Match(u, t.ops[i].op)].stamp>>]

\* Match finds an edge.
LEMMA MatchIs ==
  ASSUME NEW u, NEW o, Has(u, o)
  PROVE  Match(u, o) \in DOMAIN u.ops /\ u.ops[Match(u, o)].op = o
BY DEF Has, Match

\* TreeEqual is the predicate its definition says.
LEMMA TreeEqualIs ==
  \A t \in Stamp, u \in Stamp : TreeEqual[<<t, u>>] = EqualBody(t, u, TreeEqual)
<1> DEFINE D == Stamp \X Stamp
           S == BOOLEAN
           depth == [c \in D |-> Level(c[1])]
           step == [p \in D \X [D -> S] |-> EqualBody(p[1][1], p[1][2], p[2])]
<1>0. ASSUME NEW c \in D PROVE c[1] \in Stamp /\ c[2] \in Stamp /\ c = <<c[1], c[2]>>
  OBVIOUS
<1>1. \A t, u, g : EqualBody(t, u, g) \in S
  BY DEF EqualBody
<1>2. ASSUME NEW c \in D, NEW g \in [D -> S], NEW h \in [D -> S],
             \A y \in D : depth[y] < depth[c] => g[y] = h[y]
      PROVE  step[<<c, g>>] = step[<<c, h>>]
  <2> DEFINE t == c[1]
             u == c[2]
  <2>0. t \in Stamp /\ u \in Stamp /\ depth[c] = Level(t)
    BY <1>0
  <2> HIDE DEF t, u
  <2>1. ASSUME NEW i \in DOMAIN t.ops, Has(u, t.ops[i].op)
        PROVE  g[<<t.ops[i].stamp, u.ops[Match(u, t.ops[i].op)].stamp>>] =
               h[<<t.ops[i].stamp, u.ops[Match(u, t.ops[i].op)].stamp>>]
    <3> DEFINE j == Match(u, t.ops[i].op)
               y == <<t.ops[i].stamp, u.ops[j].stamp>>
    <3>1. j \in DOMAIN u.ops
      BY <2>1, MatchIs
    <3> HIDE DEF j
    <3>2. t.ops[i].stamp \in Stamp /\ Level(t.ops[i].stamp) < Level(t)
      BY <2>0, ChildLevel
    <3>3. u.ops[j].stamp \in Stamp
      BY <2>0, <3>1, ChildLevel
    <3>4. y \in D /\ depth[y] = Level(t.ops[i].stamp)
      BY <3>2, <3>3
    <3> HIDE DEF y, depth
    <3>5. g[y] = h[y]
      BY <1>2, <2>0, <3>2, <3>4
    <3> QED BY <3>5 DEF y, j
  <2>2. EqualBody(t, u, g) = EqualBody(t, u, h)
    BY <2>1 DEF EqualBody
  <2> QED BY <2>2 DEF t, u
<1>3. step \in [D \X [D -> S] -> S]
  BY <1>1
<1>4. S # {} /\ depth \in [D -> Nat]
  <2>1. \A c \in D : Level(c[1]) \in Nat
    BY <1>0, StampIs
  <2> HIDE DEF D
  <2> QED BY <2>1
<1>5. PICK g \in [D -> S] : \A c \in D : g[c] = step[<<c, g>>]
  <2>1. Local(D, [D -> S], depth, step)
    <3> HIDE DEF S, depth, step, D
    <3> QED BY <1>2 DEF Local
  <2> HIDE DEF S, depth, step, D
  <2>2. PlainRecursion(D, S, depth, step)
    BY <2>1, <1>3, <1>4 DEF PlainRecursion
  <2> QED BY <2>2, SimpleRecursion
<1>6. \A c \in D : g[c] = EqualBody(c[1], c[2], g)
  <2> HIDE DEF S, D
  <2> QED BY <1>5
<1>7. g = [c \in D |-> EqualBody(c[1], c[2], g)]
  <2> HIDE DEF S, D
  <2> QED BY <1>5, <1>6
<1>8. TreeEqual = [c \in D |-> EqualBody(c[1], c[2], TreeEqual)]
  BY <1>7 DEF TreeEqual, EqualBody, Has, Match
<1> SUFFICES ASSUME NEW t \in Stamp, NEW u \in Stamp
             PROVE  TreeEqual[<<t, u>>] = EqualBody(t, u, TreeEqual)
  OBVIOUS
<1> DEFINE c == <<t, u>>
<1>9. c \in D /\ c[1] = t /\ c[2] = u
  OBVIOUS
<1> HIDE DEF c, D
<1>10. TreeEqual[c] = EqualBody(c[1], c[2], TreeEqual)
  BY <1>8, <1>9
<1> QED BY <1>9, <1>10 DEF c

\* Sorting does not change what is in a proof.
LEMMA NormalEqual ==
  ASSUME NEW t \in Stamp, Distinct[t]
  PROVE  TreeEqual[<<t, Normal[t]>>]
<1> DEFINE D == Stamp
           depth == [x \in D |-> Level(x)]
           P == {x \in D : Distinct[x] => TreeEqual[<<x, Normal[x]>>]}
<1>1. ASSUME NEW x \in D, \A y \in D : depth[y] < depth[x] => y \in P, Distinct[x]
      PROVE  TreeEqual[<<x, Normal[x]>>]
  <2> DEFINE u == Normal[x]
             w == SortNode(x)
             v == w.ops
             s == x.ops
  <2>1. u \in Stamp /\ u = Renewed(w, Normal)
    BY NormalIs
  <2>2. /\ x.atts \in Seq(Attestation) /\ s \in Seq(Edge)
        /\ Permuted(x.atts, w.atts) /\ Permuted(s, v)
    BY StampIs, SortNodeIs
  <2> HIDE DEF w
  <2>3. u.atts = w.atts /\ u.ops = Mapped(v, Normal)
    BY <2>1 DEF Renewed
  <2> HIDE DEF u, v, s
  <2>4. /\ Len(w.atts) = Len(x.atts)
        /\ \A j \in DOMAIN x.atts : \E i \in DOMAIN w.atts : w.atts[i] = x.atts[j]
    BY <2>2, PermutedIs
  <2>5. /\ v \in Seq(Edge) /\ Len(v) = Len(s)
        /\ \A i \in DOMAIN v : \E j \in DOMAIN s : v[i] = s[j]
        /\ \A j \in DOMAIN s : \E i \in DOMAIN v : v[i] = s[j]
    BY <2>2, PermutedIs
  <2>6. /\ DOMAIN u.ops = DOMAIN v /\ Len(u.ops) = Len(v)
        /\ \A k \in DOMAIN v : u.ops[k].op = v[k].op /\ u.ops[k].stamp = Normal[v[k].stamp]
    <3>1. Len(Mapped(v, Normal)) = Len(v) /\ DOMAIN Mapped(v, Normal) = DOMAIN v
      <4> DEFINE f == [i \in DOMAIN v |-> [op |-> v[i].op, stamp |-> Normal[v[i].stamp]]]
      <4>1. DOMAIN v = 1..Len(v) /\ Len(v) \in Nat
        BY <2>5
      <4>2. DOMAIN f = 1..Len(v)
        BY <4>1
      <4> HIDE DEF f
      <4>3. Len(f) = Len(v)
        BY <4>1, <4>2
      <4> QED BY <4>1, <4>2, <4>3 DEF f, Mapped
    <3>2. \A k \in DOMAIN v : Mapped(v, Normal)[k] = [op |-> v[k].op, stamp |-> Normal[v[k].stamp]]
      BY DEF Mapped
    <3> QED BY <2>3, <3>1, <3>2
  <2>7. /\ Len(x.atts) = Len(u.atts) /\ Len(x.ops) = Len(u.ops)
        /\ ToSet(x.atts) \subseteq ToSet(u.atts)
    <3>1. ToSet(x.atts) \subseteq ToSet(u.atts)
      BY <2>3, <2>4 DEF ToSet
    <3> QED BY <2>3, <2>4, <2>5, <2>6, <3>1 DEF s
  <2>8. Apart(x) /\ \A i \in DOMAIN s : Distinct[s[i].stamp]
    BY <1>1, DistinctIs DEF s
  <2>9. ASSUME NEW i \in DOMAIN s
        PROVE  Has(u, s[i].op) /\ TreeEqual[<<s[i].stamp, u.ops[Match(u, s[i].op)].stamp>>]
    <3>1. PICK j \in DOMAIN v : v[j] = s[i]
      BY <2>5
    <3>2. Has(u, s[i].op)
      BY <2>6, <3>1 DEF Has
    <3> DEFINE k == Match(u, s[i].op)
    <3>3. k \in DOMAIN v /\ u.ops[k].op = s[i].op
      BY <2>6, <3>2, MatchIs
    <3> HIDE DEF k
    <3>4. v[k].op = s[i].op
      BY <2>6, <3>3
    <3>5. PICK m \in DOMAIN s : v[k] = s[m]
      BY <2>5, <3>3
    <3>6. m = i
      BY <2>8, <3>4, <3>5 DEF Apart, s
    <3>7. u.ops[k].stamp = Normal[s[i].stamp]
      BY <2>6, <3>3, <3>5, <3>6
    <3>8. s[i].stamp \in D /\ depth[s[i].stamp] < depth[x]
      BY ChildLevel DEF s
    <3>9. TreeEqual[<<s[i].stamp, Normal[s[i].stamp]>>]
      BY <1>1, <2>8, <3>8
    <3> QED BY <3>2, <3>7, <3>9 DEF k
  <2>10. EqualBody(x, u, TreeEqual)
    BY <2>7, <2>9 DEF EqualBody, s
  <2>11. TreeEqual[<<x, u>>] = EqualBody(x, u, TreeEqual)
    BY <2>1, TreeEqualIs
  <2> QED BY <2>10, <2>11 DEF u
<1>2. depth \in [D -> Nat]
  BY StampIs
<1>3. \A x \in D : (\A y \in D : depth[y] < depth[x] => y \in P) => x \in P
  BY <1>1
<1> HIDE DEF P, depth, D
<1>4. Inductive(D, depth, P)
  BY <1>2, <1>3 DEF Inductive
<1>5. t \in P
  BY <1>4, SizeInduction DEF D
<1> QED BY <1>5 DEF P

\* A single attestation has no edges.
LEMMA SingleDistinct ==
  ASSUME NEW a \in Attestation
  PROVE  Single(a) \in Stamp /\ Distinct[Single(a)]
<1>1. MaxNesting \in Nat /\ MaxNesting # 0
  BY Nesting
<1>2. Single(a) \in Stamp
  BY <1>1, SingleTyped DEF Stamp
<1>3. DOMAIN Single(a).ops = {}
  BY SingleIs
<1> QED BY <1>2, <1>3, DistinctIs DEF Apart

-----------------------------------------------------------------------------
(***************************************************************************)
(* Bytes that are cut.                                                     *)
(***************************************************************************)

\* LastHeightLower, the recursive calls being g.
LowerBody(t, u, g) ==
  IF t.ops = <<>>
  THEN /\ u.ops = <<>> /\ Len(u.atts) = Len(t.atts)
       /\ Front(u.atts) = Front(t.atts)
       /\ Last(u.atts).tag = Last(t.atts).tag /\ HasHeight(Last(t.atts).tag)
       /\ Last(u.atts).val[1] < Last(t.atts).val[1]
  ELSE /\ u.atts = t.atts /\ Len(u.ops) = Len(t.ops)
       /\ Front(u.ops) = Front(t.ops)
       /\ Last(u.ops).op = Last(t.ops).op
       /\ g[<<Last(t.ops).stamp, Last(u.ops).stamp>>]

\* The last element.
LEMMA LastIs ==
  ASSUME NEW S, NEW s \in Seq(S), s # <<>>
  PROVE  Len(s) \in DOMAIN s /\ Last(s) = s[Len(s)] /\ Last(s) \in S
BY DEF Last

\* LastHeightLower is the predicate its definition says.
LEMMA LowerIs ==
  \A t \in Stamp, u \in Stamp : LastHeightLower[<<t, u>>] = LowerBody(t, u, LastHeightLower)
<1> DEFINE D == Stamp \X Stamp
           S == BOOLEAN
           depth == [c \in D |-> Level(c[1])]
           step == [p \in D \X [D -> S] |-> LowerBody(p[1][1], p[1][2], p[2])]
<1>0. ASSUME NEW c \in D PROVE c[1] \in Stamp /\ c[2] \in Stamp /\ c = <<c[1], c[2]>>
  OBVIOUS
<1>a. ASSUME NEW t \in Stamp, NEW u \in Stamp, t.ops # <<>>, Len(u.ops) = Len(t.ops)
      PROVE  /\ Last(t.ops).stamp \in Stamp /\ Last(u.ops).stamp \in Stamp
             /\ Level(Last(t.ops).stamp) < Level(t)
  <2>1. t.ops \in Seq(Edge) /\ u.ops \in Seq(Edge)
    BY StampIs
  <2> DEFINE v == t.ops
             w == u.ops
  <2>2. v \in Seq(Edge) /\ w \in Seq(Edge) /\ v # <<>> /\ Len(w) = Len(v)
    BY <1>a, <2>1
  <2> HIDE DEF v, w
  <2>3. w # <<>>
    BY <2>2
  <2>4. Len(v) \in DOMAIN v /\ Last(v) = v[Len(v)] /\ Len(w) \in DOMAIN w /\ Last(w) = w[Len(w)]
    BY <2>2, <2>3, LastIs
  <2> QED BY <2>4, ChildLevel DEF v, w
<1>1. ASSUME NEW t \in Stamp, NEW u \in Stamp, NEW g \in [D -> S] PROVE LowerBody(t, u, g) \in S
  BY DEF LowerBody
<1>2. ASSUME NEW c \in D, NEW g \in [D -> S], NEW h \in [D -> S],
             \A y \in D : depth[y] < depth[c] => g[y] = h[y]
      PROVE  step[<<c, g>>] = step[<<c, h>>]
  <2> DEFINE t == c[1]
             u == c[2]
  <2>0. t \in Stamp /\ u \in Stamp /\ depth[c] = Level(t)
    BY <1>0
  <2> HIDE DEF t, u
  <2>1. ASSUME t.ops # <<>>, Len(u.ops) = Len(t.ops)
        PROVE  g[<<Last(t.ops).stamp, Last(u.ops).stamp>>] = h[<<Last(t.ops).stamp, Last(u.ops).stamp>>]
    <3> DEFINE y == <<Last(t.ops).stamp, Last(u.ops).stamp>>
    <3>1. y \in D /\ depth[y] = Level(Last(t.ops).stamp) /\ Level(Last(t.ops).stamp) < Level(t)
      BY <1>a, <2>0, <2>1
    <3> HIDE DEF y, depth
    <3>2. g[y] = h[y]
      BY <1>2, <2>0, <3>1
    <3> QED BY <3>2 DEF y
  <2>2. LowerBody(t, u, g) = LowerBody(t, u, h)
    BY <2>1 DEF LowerBody
  <2> QED BY <2>2 DEF t, u
<1>3. step \in [D \X [D -> S] -> S]
  <2>1. \A c \in D, g \in [D -> S] : LowerBody(c[1], c[2], g) \in S
    BY <1>0, <1>1
  <2> HIDE DEF S, D
  <2> QED BY <2>1
<1>4. S # {} /\ depth \in [D -> Nat]
  <2>1. \A c \in D : Level(c[1]) \in Nat
    BY <1>0, StampIs
  <2> HIDE DEF D
  <2> QED BY <2>1
<1>5. PICK g \in [D -> S] : \A c \in D : g[c] = step[<<c, g>>]
  <2>1. Local(D, [D -> S], depth, step)
    <3> HIDE DEF S, depth, step, D
    <3> QED BY <1>2 DEF Local
  <2> HIDE DEF S, depth, step, D
  <2>2. PlainRecursion(D, S, depth, step)
    BY <2>1, <1>3, <1>4 DEF PlainRecursion
  <2> QED BY <2>2, SimpleRecursion
<1>6. \A c \in D : g[c] = LowerBody(c[1], c[2], g)
  <2> HIDE DEF S, D
  <2> QED BY <1>5
<1>7. g = [c \in D |-> LowerBody(c[1], c[2], g)]
  <2> HIDE DEF S, D
  <2> QED BY <1>5, <1>6
<1>8. LastHeightLower = [c \in D |-> LowerBody(c[1], c[2], LastHeightLower)]
  BY <1>7 DEF LastHeightLower, LowerBody
<1> SUFFICES ASSUME NEW t \in Stamp, NEW u \in Stamp
             PROVE  LastHeightLower[<<t, u>>] = LowerBody(t, u, LastHeightLower)
  OBVIOUS
<1> DEFINE c == <<t, u>>
<1>9. c \in D /\ c[1] = t /\ c[2] = u
  OBVIOUS
<1> HIDE DEF c, D
<1>10. LastHeightLower[c] = LowerBody(c[1], c[2], LastHeightLower)
  BY <1>8, <1>9
<1> QED BY <1>9, <1>10 DEF c

\* The last of one element.
LEMMA OneLast ==
  ASSUME NEW x
  PROVE  Last(<<x>>) = x /\ Front(<<x>>) = <<>> /\ Len(<<x>>) = 1 /\ <<x>> # <<>>
<1>1. <<x>> \in Seq({x}) /\ Len(<<x>>) = 1 /\ <<x>>[1] = x /\ <<x>> # <<>>
  OBVIOUS
<1> DEFINE y == <<x>>
<1> HIDE DEF y
<1>2. Last(y) = x
  BY <1>1 DEF Last, y
<1>3. Front(y) = <<>>
  <2>1. Front(y) \in Seq({x}) /\ Len(Front(y)) = 0
    BY <1>1 DEF Front, y
  <2> QED BY <2>1
<1> QED BY <1>1, <1>2, <1>3 DEF y

\* The first k elements.
LEMMA SubIs ==
  ASSUME NEW S, NEW s \in Seq(S), NEW k \in 0..Len(s)
  PROVE  /\ SubSeq(s, 1, k) \in Seq(S) /\ Len(SubSeq(s, 1, k)) = k
         /\ \A i \in 1..k : SubSeq(s, 1, k)[i] = s[i]
OBVIOUS

\* An element in front changes nothing about the last.
LEMMA PushLast ==
  ASSUME NEW S, NEW x \in S, NEW s \in Seq(S), s # <<>>
  PROVE  /\ Last(<<x>> \o s) = Last(s) /\ Front(<<x>> \o s) = <<x>> \o Front(s)
         /\ Len(<<x>> \o s) = 1 + Len(s) /\ <<x>> \o s # <<>> /\ <<x>> \o s \in Seq(S)
<1> DEFINE y == <<x>> \o s
           n == Len(s)
<1>1. /\ y \in Seq(S) /\ Len(y) = 1 + n /\ n \in Nat /\ y # <<>>
      /\ \A i \in 1..(1 + n) : y[i] = IF i = 1 THEN x ELSE s[i - 1]
  BY PushItem
<1>2. n # 0
  OBVIOUS
<1> HIDE DEF y
<1>3. Last(y) = Last(s)
  <2> HIDE DEF n
  <2>1. 1 + n \in 1..(1 + n) /\ 1 + n # 1 /\ (1 + n) - 1 = n
    BY <1>1, <1>2
  <2>2. y[1 + n] = s[n]
    BY <1>1, <2>1
  <2> QED BY <1>1, <2>2 DEF Last, n
<1> DEFINE f == SubSeq(s, 1, n - 1)
           k == SubSeq(y, 1, n)
<1>4. f \in Seq(S) /\ Len(f) = n - 1 /\ \A i \in 1..(n - 1) : f[i] = s[i]
  <2> DEFINE h == n - 1
  <2>1. h \in 0..Len(s)
    BY <1>1, <1>2
  <2> HIDE DEF h
  <2>2. LET q == SubSeq(s, 1, h) IN q \in Seq(S) /\ Len(q) = h /\ \A i \in 1..h : q[i] = s[i]
    BY <2>1, SubIs
  <2> QED BY <2>2 DEF h
<1>5. k \in Seq(S) /\ Len(k) = n /\ \A i \in 1..n : k[i] = y[i]
  <2> HIDE DEF n
  <2>1. y \in Seq(S) /\ n \in 0..Len(y)
    BY <1>1
  <2> QED BY <2>1, SubIs
<1> HIDE DEF f, k, n
<1> DEFINE z == <<x>> \o f
<1>6. /\ z \in Seq(S) /\ Len(z) = 1 + Len(f)
      /\ \A i \in 1..(1 + Len(f)) : z[i] = IF i = 1 THEN x ELSE f[i - 1]
  BY <1>4, PushItem
<1> HIDE DEF z
<1>7. \A i \in 1..n : k[i] = z[i]
  <2> SUFFICES ASSUME NEW i \in 1..n PROVE k[i] = z[i]
    OBVIOUS
  <2>1. i \in 1..(1 + n) /\ i \in 1..(1 + Len(f))
    BY <1>1, <1>4
  <2>2. CASE i = 1
    BY <1>1, <1>5, <1>6, <2>1, <2>2
  <2>3. CASE i # 1
    <3>1. i - 1 \in 1..(n - 1)
      BY <1>1, <2>3
    <3> QED BY <1>1, <1>4, <1>5, <1>6, <2>1, <2>3, <3>1
  <2> QED BY <2>2, <2>3
<1>8. Len(k) = Len(z)
  BY <1>1, <1>4, <1>5, <1>6
<1>9. k = z
  BY <1>5, <1>6, <1>7, <1>8, SameList
<1>10. Front(y) = k /\ Front(s) = f
  <2>1. Len(y) - 1 = n
    BY <1>1
  <2> QED BY <2>1 DEF Front, k, f, n
<1> QED BY <1>1, <1>3, <1>9, <1>10 DEF y, z, n

\* LastHeightLower, of timestamps.
Lower(t, u) == t \in Stamp /\ u \in Stamp /\ LastHeightLower[<<t, u>>]

\* A lower height in the only attestation.
LEMMA LowerSingle ==
  ASSUME NEW a \in Attestation, HasHeight(a.tag), NEW w \in 0..(a.val[1] - 1),
         NEW b, b = [tag |-> a.tag, val |-> <<w>>], b \in Attestation
  PROVE  Lower(Single(a), Single(b))
<1>1. Single(a) \in Stamp /\ Single(b) \in Stamp
  BY SingleDistinct
<1>2. a.val[1] \in Nat
  BY AttestationIs
<1>3. b.tag = a.tag /\ b.val[1] = w /\ w < a.val[1]
  BY <1>2
<1>4. LowerBody(Single(a), Single(b), LastHeightLower)
  BY <1>3, SingleIs, OneLast DEF LowerBody
<1> QED BY <1>1, <1>4, LowerIs DEF Lower

\* A lower height under the only edge.
LEMMA LowerUnder ==
  ASSUME NEW o \in Op, NEW t \in Stamps[MaxNesting - 1], NEW u \in Stamps[MaxNesting - 1],
         LastHeightLower[<<t, u>>]
  PROVE  Lower(Under(o, t), Under(o, u))
<1>1. Under(o, t) \in Stamp /\ Under(o, u) \in Stamp
  BY Nesting, UnderTyped DEF Stamp
<1> DEFINE e == [op |-> o, stamp |-> t]
           f == [op |-> o, stamp |-> u]
<1>2. e.op = f.op /\ e.stamp = t /\ f.stamp = u
  OBVIOUS
<1>3. /\ Under(o, t).atts = <<>> /\ Under(o, u).atts = <<>>
      /\ Under(o, t).ops = <<e>> /\ Under(o, u).ops = <<f>>
  BY UnderIs
<1> HIDE DEF e, f
<1>4. LowerBody(Under(o, t), Under(o, u), LastHeightLower)
  BY <1>2, <1>3, OneLast DEF LowerBody
<1> QED BY <1>1, <1>4, LowerIs DEF Lower

\* A lower height after another attestation.
LEMMA LowerAtt ==
  ASSUME NEW a \in Attestation, NEW t, NEW u, Lower(t, u), t # Empty
  PROVE  Lower(Join(Single(a), t), Join(Single(a), u))
<1> DEFINE x == Join(Single(a), t)
           y == Join(Single(a), u)
<1>1. t \in Stamp /\ u \in Stamp /\ Single(a) \in Stamp
  BY SingleDistinct DEF Lower
<1>2. x \in Stamp /\ y \in Stamp
  BY <1>1, Nesting, JoinTyped DEF Stamp
<1>3. /\ t.atts \in Seq(Attestation) /\ u.atts \in Seq(Attestation)
      /\ t.ops \in Seq(Edge) /\ u.ops \in Seq(Edge) /\ t \in Lists(Edge)
  BY <1>1, StampIs
<1>4. x.atts = <<a>> \o t.atts /\ x.ops = t.ops /\ y.atts = <<a>> \o u.atts /\ y.ops = u.ops
  <2>1. <<>> \o t.ops = t.ops /\ <<>> \o u.ops = u.ops
    BY <1>3, ListIs
  <2> QED BY <2>1, JoinIs, SingleIs
<1> HIDE DEF x, y
<1>5. LowerBody(t, u, LastHeightLower)
  BY <1>1, LowerIs DEF Lower
<1>6. LowerBody(x, y, LastHeightLower)
  <2>1. CASE t.ops = <<>>
    <3>1. t.atts # <<>>
      BY <1>3, <2>1, EmptyIs
    <3>2. u.atts # <<>>
      <4>1. Len(u.atts) = Len(t.atts)
        BY <1>5, <2>1 DEF LowerBody
      <4> QED BY <1>3, <3>1, <4>1, ListIs
    <3>3. /\ Last(x.atts) = Last(t.atts) /\ Front(x.atts) = <<a>> \o Front(t.atts)
          /\ Len(x.atts) = 1 + Len(t.atts)
      <4> DEFINE s == t.atts
      <4>1. s \in Seq(Attestation) /\ s # <<>> /\ x.atts = <<a>> \o s
        BY <1>3, <1>4, <3>1
      <4> HIDE DEF s
      <4>2. /\ Last(<<a>> \o s) = Last(s) /\ Front(<<a>> \o s) = <<a>> \o Front(s)
            /\ Len(<<a>> \o s) = 1 + Len(s)
        BY <4>1, PushLast
      <4> QED BY <4>1, <4>2 DEF s
    <3>4. /\ Last(y.atts) = Last(u.atts) /\ Front(y.atts) = <<a>> \o Front(u.atts)
          /\ Len(y.atts) = 1 + Len(u.atts)
      <4> DEFINE s == u.atts
      <4>1. s \in Seq(Attestation) /\ s # <<>> /\ y.atts = <<a>> \o s
        BY <1>3, <1>4, <3>2
      <4> HIDE DEF s
      <4>2. /\ Last(<<a>> \o s) = Last(s) /\ Front(<<a>> \o s) = <<a>> \o Front(s)
            /\ Len(<<a>> \o s) = 1 + Len(s)
        BY <4>1, PushLast
      <4> QED BY <4>1, <4>2 DEF s
    <3> QED BY <1>4, <1>5, <2>1, <3>3, <3>4 DEF LowerBody
  <2>2. CASE t.ops # <<>>
    BY <1>4, <1>5, <2>2 DEF LowerBody
  <2> QED BY <2>1, <2>2
<1> QED BY <1>2, <1>6, LowerIs DEF Lower, x, y

\* A lower height after another edge.
LEMMA LowerOp ==
  ASSUME NEW o \in Op, NEW c \in Stamps[MaxNesting - 1], NEW t, NEW u, Lower(t, u),
         t # Empty, t.atts = <<>>
  PROVE  Lower(Join(Under(o, c), t), Join(Under(o, c), u))
<1> DEFINE x == Join(Under(o, c), t)
           y == Join(Under(o, c), u)
           e == [op |-> o, stamp |-> c]
<1>1. t \in Stamp /\ u \in Stamp /\ Under(o, c) \in Stamp
  BY Nesting, UnderTyped DEF Lower, Stamp
<1>2. x \in Stamp /\ y \in Stamp
  BY <1>1, Nesting, JoinTyped DEF Stamp
<1>3. /\ t.atts \in Seq(Attestation) /\ u.atts \in Seq(Attestation)
      /\ t.ops \in Seq(Edge) /\ u.ops \in Seq(Edge) /\ t \in Lists(Edge)
  BY <1>1, StampIs
<1>3a. e \in Edge
  <2>1. Stamps[MaxNesting - 1] \subseteq Stamp
    BY Nesting, StampsMonotone, MaxNesting - 1 \in Nat DEF Stamp
  <2> QED BY <2>1 DEF Edge
<1>4. x.atts = t.atts /\ x.ops = <<e>> \o t.ops /\ y.atts = u.atts /\ y.ops = <<e>> \o u.ops
  <2>1. <<>> \o t.atts = t.atts /\ <<>> \o u.atts = u.atts
    BY <1>3, ListIs
  <2> DEFINE p == Under(o, c)
  <2>2. p.atts = <<>> /\ p.ops = <<e>>
    BY UnderIs
  <2> HIDE DEF p, e
  <2>3. x = Join(p, t) /\ y = Join(p, u)
    BY DEF p
  <2> HIDE DEF x, y
  <2> QED BY <2>1, <2>2, <2>3, JoinIs
<1> HIDE DEF x, y, e
<1>5. LowerBody(t, u, LastHeightLower)
  BY <1>1, LowerIs DEF Lower
<1>6. t.ops # <<>>
  BY <1>3, EmptyIs
<1>7. u.ops # <<>>
  <2>1. Len(u.ops) = Len(t.ops)
    BY <1>5, <1>6 DEF LowerBody
  <2> QED BY <1>3, <1>6, <2>1, ListIs
<1>8. /\ Last(x.ops) = Last(t.ops) /\ Front(x.ops) = <<e>> \o Front(t.ops)
      /\ Len(x.ops) = 1 + Len(t.ops) /\ x.ops # <<>>
  <2> DEFINE s == t.ops
  <2>1. s \in Seq(Edge) /\ s # <<>> /\ x.ops = <<e>> \o s
    BY <1>3, <1>4, <1>6
  <2> HIDE DEF s
  <2>2. /\ Last(<<e>> \o s) = Last(s) /\ Front(<<e>> \o s) = <<e>> \o Front(s)
        /\ Len(<<e>> \o s) = 1 + Len(s) /\ <<e>> \o s # <<>>
    BY <1>3a, <2>1, PushLast
  <2> QED BY <2>1, <2>2 DEF s
<1>9. /\ Last(y.ops) = Last(u.ops) /\ Front(y.ops) = <<e>> \o Front(u.ops)
      /\ Len(y.ops) = 1 + Len(u.ops)
  <2> DEFINE s == u.ops
  <2>1. s \in Seq(Edge) /\ s # <<>> /\ y.ops = <<e>> \o s
    BY <1>3, <1>4, <1>7
  <2> HIDE DEF s
  <2>2. /\ Last(<<e>> \o s) = Last(s) /\ Front(<<e>> \o s) = <<e>> \o Front(s)
        /\ Len(<<e>> \o s) = 1 + Len(s) /\ <<e>> \o s # <<>>
    BY <1>3a, <2>1, PushLast
  <2> QED BY <2>1, <2>2 DEF s
<1>10. LowerBody(x, y, LastHeightLower)
  BY <1>4, <1>5, <1>6, <1>8, <1>9 DEF LowerBody
<1> QED BY <1>2, <1>10, LowerIs DEF Lower, x, y

\* What may be read of a prefix of b.
Spoiled(r, ok, v) ==
  r.st = "error" \/ (r.st = "ok" /\ r.rest = <<>> /\ ok /\ Lower(v, r.val))

\* Whatever is read of w when it is cut is Spoiled.
Short(w, len, d, ok, v) ==
  \A b, c : Cut(w, b, c) => Spoiled(Deserialize[<<b, len, d>>], ok, v)

\* The same for an item.
ItemShort(tag, s, len, d, ok, v) ==
  \A b, c : Cut(s, b, c) => Spoiled(Item(Deserialize, tag, b, len, d), ok, v)

\* An error is.
LEMMA FailedSpoiled ==
  ASSUME NEW ok, NEW v
  PROVE  Spoiled(Failed, ok, v)
BY FailedIs DEF Spoiled

\* What is left and what is missing are bytes.
LEMMA CutIs ==
  ASSUME NEW w, NEW b, NEW c, Cut(w, b, c)
  PROVE  b \in Seq(Byte) /\ c \in Seq(Byte)
BY DEF Cut

\* A node of one item that is cut.
LEMMA ShortOne ==
  ASSUME NEW tag \in Byte, tag # forkMark, NEW s \in Seq(Byte),
         NEW len \in Nat, len <= MaxLength, NEW d \in Nat, d # 0,
         NEW ok, NEW v, ItemShort(tag, s, len, d, ok, v)
  PROVE  Short(Push(tag, s), len, d, ok, v)
<1> SUFFICES ASSUME NEW b, NEW c, Cut(Push(tag, s), b, c)
             PROVE  Spoiled(Deserialize[<<b, len, d>>], ok, v)
  BY DEF Short
<1>1. CASE b = <<>>
  BY <1>1, ReadEnd, FailedSpoiled
<1>2. CASE b # <<>>
  <2>1. PICK t \in Seq(Byte) : b = Push(tag, t) /\ Cut(s, t, c)
    BY <1>2, CutPush
  <2>2. Deserialize[<<b, len, d>>] = Item(Deserialize, tag, t, len, d)
    BY <2>1, ReadOne
  <2> QED BY <2>1, <2>2 DEF ItemShort
<1> QED BY <1>1, <1>2

\* A node of an item and more that is cut, in the first item or after it.
LEMMA ShortMore ==
  ASSUME NEW tag \in Byte, tag # forkMark, NEW s \in Seq(Byte), NEW y \in Seq(Byte),
         NEW len \in Nat, len <= MaxLength, NEW d \in Nat, d # 0,
         NEW ok, NEW v, ItemShort(tag, s, len, d, ok, v), ItemBack(tag, s, len, d, ok, v),
         NEW ok2, NEW v2, Short(y, len, d, ok2, v2),
         \A r : Lower(v2, r) => Lower(Join(v, v2), Join(v, r))
  PROVE  Short(Push(forkMark, Push(tag, s) \o y), len, d, ok /\ ok2, Join(v, v2))
<1> DEFINE x == Push(tag, s)
           both == ok /\ ok2
           j == Join(v, v2)
<1> SUFFICES ASSUME NEW b, NEW c, Cut(Push(forkMark, x \o y), b, c)
             PROVE  Spoiled(Deserialize[<<b, len, d>>], both, j)
  BY DEF Short
<1>0. x \in Seq(Byte)
  BY PushIs
<1>0a. x \o y \in Seq(Byte)
  BY <1>0, ConcatIs
<1>1. CASE b = <<>>
  BY <1>1, ReadEnd, FailedSpoiled
<1>2. CASE b # <<>>
  <2>1. PICK t \in Seq(Byte) : b = Push(forkMark, t) /\ Cut(x \o y, t, c)
    <3> DEFINE q == x \o y
    <3> HIDE DEF q
    <3>1. q \in Seq(Byte) /\ Cut(Push(forkMark, q), b, c)
      BY <1>0a DEF q
    <3>2. PICK t \in Seq(Byte) : b = Push(forkMark, t) /\ Cut(q, t, c)
      BY <1>2, <3>1, ForkMark, CutPush
    <3> QED BY <3>2 DEF q
  <2>2. (\E z \in Seq(Byte) : Cut(x, t, z)) \/ (\E z \in Seq(Byte) : t = x \o z /\ Cut(y, z, c))
    <3> HIDE DEF x
    <3> QED BY <1>0, <2>1, CutConcat
  <2>3. ASSUME NEW z \in Seq(Byte), Cut(x, t, z)
        PROVE  Spoiled(Deserialize[<<b, len, d>>], both, j)
    <3>1. CASE t = <<>>
      <4>1. Deserialize[<<b, len, d>>] = Failed
        BY <2>1, <3>1, ReadFork1
      <4> QED BY <4>1, FailedSpoiled
    <3>2. CASE t # <<>>
      <4>1. PICK u \in Seq(Byte) : t = Push(tag, u) /\ Cut(s, u, z)
        BY <2>3, <3>2, CutPush
      <4> DEFINE r == Item(Deserialize, tag, u, len, d)
      <4>2. Deserialize[<<b, len, d>>] = More(Deserialize, r, len, d)
        BY <2>1, <4>1, ReadFork
      <4>3. Spoiled(r, ok, v)
        BY <4>1 DEF ItemShort
      <4> HIDE DEF r
      <4>4. CASE r.st = "error"
        <5>1. More(Deserialize, r, len, d) = r
          BY <4>4 DEF More
        <5> QED BY <4>2, <4>4, <5>1 DEF Spoiled
      <4>5. CASE r.st = "ok" /\ r.rest = <<>>
        <5>1. More(Deserialize, r, len, d) = Both(r.val, Deserialize[<<<<>>, len, d>>])
          BY <4>5 DEF More
        <5>2. Both(r.val, Failed) = Failed
          BY FailedIs DEF Both
        <5>3. Deserialize[<<b, len, d>>] = Failed
          BY <4>2, <5>1, <5>2, ReadEnd
        <5> QED BY <5>3, FailedSpoiled
      <4> QED BY <4>3, <4>4, <4>5 DEF Spoiled
    <3> QED BY <3>1, <3>2
  <2>4. ASSUME NEW z \in Seq(Byte), t = x \o z, Cut(y, z, c)
        PROVE  Spoiled(Deserialize[<<b, len, d>>], both, j)
    <3> DEFINE q == s \o z
               r == Item(Deserialize, tag, q, len, d)
               g == Deserialize[<<z, len, d>>]
    <3>1. q \in Seq(Byte) /\ t = Push(tag, q)
      <4>1. Push(tag, s) \o z = Push(tag, s \o z)
        BY PushConcat
      <4>2. t = Push(tag, s) \o z
        BY <2>4
      <4> QED BY <4>1, <4>2, ConcatIs
    <3>2. r = IF ok THEN Ok(v, z) ELSE Failed
      BY DEF ItemBack
    <3> HIDE DEF q
    <3>3. Deserialize[<<b, len, d>>] = More(Deserialize, r, len, d)
      BY <2>1, <3>1, ReadFork
    <3>4. Spoiled(g, ok2, v2)
      BY <2>4 DEF Short
    <3> HIDE DEF r
    <3>5. CASE ~ok
      <4>1. r = Failed /\ r.st # "ok"
        BY <3>2, <3>5, FailedIs
      <4>2. Deserialize[<<b, len, d>>] = Failed
        BY <3>3, <4>1 DEF More
      <4> QED BY <4>2, FailedSpoiled
    <3>6. CASE ok
      <4>1. r.st = "ok" /\ r.val = v /\ r.rest = z
        BY <3>2, <3>6, OkIs
      <4>2. Deserialize[<<b, len, d>>] = Both(v, g)
        BY <3>3, <4>1 DEF More
      <4> HIDE DEF g
      <4>3. CASE g.st = "error"
        <5>1. Both(v, g) = g
          BY <4>3 DEF Both
        <5> QED BY <4>2, <4>3, <5>1 DEF Spoiled
      <4>4. CASE g.st = "ok" /\ g.rest = <<>> /\ ok2 /\ Lower(v2, g.val)
        <5> DEFINE k == Ok(Join(v, g.val), g.rest)
        <5>1. Both(v, g) = k
          BY <4>4 DEF Both
        <5>2. k.st = "ok" /\ k.val = Join(v, g.val) /\ k.rest = <<>>
          BY <4>4, OkIs
        <5>3. Lower(j, k.val)
          BY <4>4, <5>2
        <5> HIDE DEF k, j
        <5> QED BY <3>6, <4>2, <4>4, <5>1, <5>2, <5>3 DEF Spoiled
      <4> QED BY <3>4, <4>3, <4>4 DEF Spoiled
    <3> QED BY <3>5, <3>6
  <2> QED BY <2>2, <2>3, <2>4
<1> QED BY <1>1, <1>2

\* An attestation that is cut.
LEMMA AttShort ==
  ASSUME NEW a \in Attestation, NEW len, NEW d
  PROVE  ItemShort(attestationMark, SerializeAttestation(a), len, d, Plain(a), Single(a))
<1> SUFFICES ASSUME NEW b, NEW c, Cut(SerializeAttestation(a), b, c)
             PROVE  Spoiled(Item(Deserialize, attestationMark, b, len, d), Plain(a), Single(a))
  BY DEF ItemShort
<1> DEFINE r == DeserializeAttestation(b)
           z == Item(Deserialize, attestationMark, b, len, d)
<1>1. z = Attested(r)
  BY DEF Item
<1>2. \/ r.st = "error"
      \/ /\ HasHeight(a.tag)
         /\ \E w \in 0..(a.val[1] - 1) : r = Ok([tag |-> a.tag, val |-> <<w>>], <<>>)
  BY AttestationCut
<1>3. r \in Results(Attestation)
  BY CutIs, DeserializeAttestationIs
<1> HIDE DEF r, z
<1>4. CASE r.st = "error"
  <2>1. z = r
    BY <1>1, <1>4 DEF Attested
  <2> QED BY <1>4, <2>1 DEF Spoiled, z
<1>5. ASSUME HasHeight(a.tag), NEW w \in 0..(a.val[1] - 1),
             r = Ok([tag |-> a.tag, val |-> <<w>>], <<>>)
      PROVE  Spoiled(z, Plain(a), Single(a))
  <2> DEFINE e == [tag |-> a.tag, val |-> <<w>>]
  <2>1. r.st = "ok" /\ r.val = e /\ r.rest = <<>>
    BY <1>5, OkIs
  <2>2. e \in Attestation
    BY <1>3, <2>1, ResultIs
  <2>3. Lower(Single(a), Single(e))
    BY <1>5, <2>2, LowerSingle
  <2>4. Plain(a)
    BY <1>5, Kinds DEF Plain
  <2> HIDE DEF e
  <2>5. z = Ok(Single(e), <<>>)
    BY <1>1, <2>1 DEF Attested
  <2>6. z.st = "ok" /\ z.val = Single(e) /\ z.rest = <<>>
    BY <2>5, OkIs
  <2> QED BY <2>3, <2>4, <2>6 DEF Spoiled
<1> QED BY <1>2, <1>4, <1>5 DEF z

\* An edge that is cut, in its op or in its child.
LEMMA OpShort ==
  ASSUME NEW o \in Op, NEW y \in Seq(Byte), NEW len \in Nat, NEW d \in Nat, d # 0,
         ResultLength(o, len) <= MaxLength,
         NEW ok, NEW v, Short(y, ResultLength(o, len), d - 1, ok, v),
         \A r \in Stamps[d - 1] : Lower(v, r) => Lower(Under(o, v), Under(o, r))
  PROVE  ItemShort(o.tag, OpRest(o) \o y, len, d, ok, Under(o, v))
<1> SUFFICES ASSUME NEW b, NEW c, Cut(OpRest(o) \o y, b, c)
             PROVE  Spoiled(Item(Deserialize, o.tag, b, len, d), ok, Under(o, v))
  BY DEF ItemShort
<1> DEFINE x == OpRest(o)
           z == Item(Deserialize, o.tag, b, len, d)
<1>0. x \in Seq(Byte) /\ d - 1 \in Nat
  BY OpBytes
<1>1. (\E e \in Seq(Byte) : Cut(x, b, e)) \/ (\E e \in Seq(Byte) : b = x \o e /\ Cut(y, e, c))
  <2> HIDE DEF x
  <2>1. Cut(x \o y, b, c)
    BY DEF x
  <2> QED BY <1>0, <2>1, CutConcat
<1>2. ASSUME NEW e \in Seq(Byte), Cut(x, b, e)
      PROVE  z = Failed
  <2> DEFINE r == DeserializeFromTag(b, o.tag)
  <2>1. z = Applied(Deserialize, r, len, d)
    BY OpMark DEF Item
  <2>2. r = Failed \/ \E p \in Op : r = Ok(p, <<>>)
    BY <1>2, OpCut
  <2> HIDE DEF r, z
  <2>3. CASE r = Failed
    BY <2>1, <2>3, FailedIs DEF Applied
  <2>4. ASSUME NEW p \in Op, r = Ok(p, <<>>)
        PROVE  z = Failed
    <3>1. r.st = "ok" /\ r.val = p /\ r.rest = <<>>
      BY <2>4, OkIs
    <3> DEFINE l == ResultLength(p, len)
    <3>2. l \in Nat
      BY LengthIs
    <3>3. Applied(Deserialize, r, len, d) =
            IF l > MaxLength THEN Failed ELSE ChildOf(p, Deserialize[<<<<>>, l, d - 1>>])
      BY <3>1 DEF Applied
    <3> HIDE DEF l
    <3>4. Deserialize[<<<<>>, l, d - 1>>] = Failed
      BY <1>0, <3>2, ReadEnd
    <3>5. ChildOf(p, Failed) = Failed
      BY FailedIs DEF ChildOf
    <3> QED BY <2>1, <3>3, <3>4, <3>5
  <2> QED BY <2>2, <2>3, <2>4
<1>3. ASSUME NEW e \in Seq(Byte), b = x \o e, Cut(y, e, c)
      PROVE  Spoiled(z, ok, Under(o, v))
  <2> DEFINE l == ResultLength(o, len)
             g == Deserialize[<<e, l, d - 1>>]
  <2>1. z = ChildOf(o, g)
    BY <1>3, OpItemWhole
  <2>2. Spoiled(g, ok, v)
    BY <1>3 DEF Short
  <2>3. l \in Nat
    BY LengthIs
  <2> HIDE DEF l
  <2>4. g \in Shorter(Len(e), d - 1)
    BY <1>0, <2>3, DeserializeIs
  <2> HIDE DEF g, z
  <2>5. CASE g.st = "error"
    <3>1. ChildOf(o, g) = g
      BY <2>5 DEF ChildOf
    <3> QED BY <2>1, <2>5, <3>1 DEF Spoiled
  <2>6. CASE g.st = "ok" /\ g.rest = <<>> /\ ok /\ Lower(v, g.val)
    <3> DEFINE k == Ok(Under(o, g.val), g.rest)
    <3>1. ChildOf(o, g) = k
      BY <2>6 DEF ChildOf
    <3>2. k.st = "ok" /\ k.val = Under(o, g.val) /\ k.rest = <<>>
      BY <2>6, OkIs
    <3>3. g.val \in Stamps[d - 1]
      BY <2>4, <2>6, ShorterIs
    <3>4. Lower(Under(o, v), k.val)
      BY <2>6, <3>2, <3>3
    <3> HIDE DEF k
    <3> QED BY <2>1, <2>6, <3>1, <3>2, <3>4 DEF Spoiled
  <2> QED BY <2>2, <2>5, <2>6 DEF Spoiled
<1> QED BY <1>1, <1>2, <1>3, FailedSpoiled

\* The children of the edges in E when they are cut.
Reshort(E, len, d) ==
  \A e \in E : Short(Serialize[e.stamp], ResultLength(e.op, len), d - 1,
                     Supported[<<e.stamp, d - 1>>], Normal[e.stamp])

\* The children of the edges in E are less deep than the bound.
Deep(E) == \A e \in E : Normal[e.stamp] \in Stamps[MaxNesting - 1]

\* A node with sorted children.
LEMMA RenewedStamp ==
  ASSUME NEW E, E \subseteq Edge, Deep(E), NEW n \in Lists(E), n # Empty
  PROVE  /\ Renewed(n, Normal) \in Stamp /\ Renewed(n, Normal) # Empty
         /\ Renewed(n, Normal).atts = n.atts
<1>0. MaxNesting \in Nat /\ MaxNesting # 0
  BY Nesting
<1> DEFINE X == {e.stamp : e \in E}
<1>1. E \subseteq [op : Op, stamp : X]
  <2>1. \A e \in E : e \in Edge
    OBVIOUS
  <2> QED BY <2>1 DEF Edge
<1>2. \A x \in X : Normal[x] \in Stamps[MaxNesting - 1]
  BY DEF Deep
<1> HIDE DEF X
<1>3. Renewed(n, Normal) \in Stamps[MaxNesting]
  BY <1>0, <1>1, <1>2, RenewedIs
<1>4. Renewed(n, Normal).atts = n.atts /\ Renewed(n, Normal).ops = Mapped(n.ops, Normal)
  BY DEF Renewed
<1>5. n.ops \in Seq(E)
  BY ListsIs
<1>6. ASSUME n.ops # <<>> PROVE Mapped(n.ops, Normal) # <<>>
  <2> DEFINE s == n.ops
             f == [i \in DOMAIN s |-> [op |-> s[i].op, stamp |-> Normal[s[i].stamp]]]
  <2>1. s \in Seq(E) /\ s # <<>>
    BY <1>5, <1>6
  <2> HIDE DEF s
  <2>2. 1 \in DOMAIN s
    BY <2>1
  <2>3. 1 \in DOMAIN f
    BY <2>2
  <2> HIDE DEF f
  <2>4. f # <<>>
    BY <2>3
  <2> QED BY <2>4 DEF f, s, Mapped
<1>7. Renewed(n, Normal) # Empty
  <2>1. n.atts # <<>> \/ n.ops # <<>>
    BY EmptyIs
  <2>2. Empty.atts = <<>> /\ Empty.ops = <<>>
    BY DEF Empty
  <2> QED BY <1>4, <1>6, <2>1, <2>2
<1> QED BY <1>3, <1>4, <1>7 DEF Stamp

\* A node that is cut, given its children that are.
LEMMA NodeShort ==
  ASSUME NEW E, E \subseteq Edge, NEW len \in Nat, len <= MaxLength,
         NEW d \in Nat, d # 0, d <= MaxNesting,
         Reread(E, len, d), Reshort(E, len, d), Deep(E)
  PROVE  \A n \in Lists(E) : n # Empty =>
           Short(Layout(n, Serialize), len, d, Fits(n, d), Renewed(n, Normal))
<1> DEFINE P == {n \in Lists(E) : Short(Layout(n, Serialize), len, d, Fits(n, d), Renewed(n, Normal))}
           AttBytes(a) == SerializeAttestation(a)
           EdgeBytes(e) == OpRest(e.op) \o Serialize[e.stamp]
<1>0. Writes(E, Serialize)
  BY SerializeIs DEF Writes, Edge
<1>1. ASSUME NEW n \in Lists(E) PROVE Layout(n, Serialize) \in Seq(Byte)
  BY <1>0, LayoutIs
<1>2. ASSUME NEW a \in Attestation
      PROVE  /\ AttBytes(a) \in Seq(Byte) /\ AttItem(a) = Push(attestationMark, AttBytes(a))
             /\ ItemBack(attestationMark, AttBytes(a), len, d, Plain(a), Single(a))
             /\ ItemShort(attestationMark, AttBytes(a), len, d, Plain(a), Single(a))
             /\ attestationMark \in Byte /\ attestationMark # forkMark
  BY AttestationBytes, AttBack, AttShort, ForkMark DEF AttItem
<1>3. ASSUME NEW e \in E
      PROVE  /\ EdgeBytes(e) \in Seq(Byte) /\ OpItem(e, Serialize) = Push(e.op.tag, EdgeBytes(e))
             /\ ItemBack(e.op.tag, EdgeBytes(e), len, d, Supported[<<e.stamp, d - 1>>],
                         Under(e.op, Normal[e.stamp]))
             /\ ItemShort(e.op.tag, EdgeBytes(e), len, d, Supported[<<e.stamp, d - 1>>],
                          Under(e.op, Normal[e.stamp]))
             /\ e.op.tag \in Byte /\ e.op.tag # forkMark
             /\ e.op \in Op /\ Normal[e.stamp] \in Stamps[MaxNesting - 1]
  <2>1. e.op \in Op /\ Serialize[e.stamp] \in Seq(Byte) /\ Normal[e.stamp] \in Stamps[MaxNesting - 1]
    BY <1>0 DEF Edge, Writes, Deep
  <2>2. OpRest(e.op) \in Seq(Byte)
    BY <2>1, OpBytes
  <2>3. EdgeBytes(e) \in Seq(Byte)
    BY <2>1, <2>2, ConcatIs
  <2>4. OpItem(e, Serialize) = Push(e.op.tag, EdgeBytes(e))
    BY <1>0, OpItemIs
  <2>5. ItemBack(e.op.tag, EdgeBytes(e), len, d, Supported[<<e.stamp, d - 1>>],
                 Under(e.op, Normal[e.stamp]))
    BY <2>1, OpBack DEF Reread
  <2>6. \A r \in Stamps[d - 1] :
           Lower(Normal[e.stamp], r) => Lower(Under(e.op, Normal[e.stamp]), Under(e.op, r))
    <3> SUFFICES ASSUME NEW r \in Stamps[d - 1], Lower(Normal[e.stamp], r)
                 PROVE  Lower(Under(e.op, Normal[e.stamp]), Under(e.op, r))
      OBVIOUS
    <3>1. d - 1 \in Nat /\ MaxNesting - 1 \in Nat /\ d - 1 <= MaxNesting - 1
      BY Nesting
    <3>2. r \in Stamps[MaxNesting - 1]
      BY <3>1, StampsMonotone
    <3> QED BY <2>1, <3>2, LowerUnder DEF Lower
  <2>7. ItemShort(e.op.tag, EdgeBytes(e), len, d, Supported[<<e.stamp, d - 1>>],
                  Under(e.op, Normal[e.stamp]))
    <3> DEFINE o == e.op
               y == Serialize[e.stamp]
               f == Supported[<<e.stamp, d - 1>>]
               v == Normal[e.stamp]
    <3>1. /\ o \in Op /\ y \in Seq(Byte) /\ ResultLength(o, len) <= MaxLength
          /\ Short(y, ResultLength(o, len), d - 1, f, v)
          /\ \A r \in Stamps[d - 1] : Lower(v, r) => Lower(Under(o, v), Under(o, r))
      BY <2>1, <2>6 DEF Reread, Reshort
    <3> HIDE DEF o, y, f, v
    <3>2. ItemShort(o.tag, OpRest(o) \o y, len, d, f, Under(o, v))
      BY <3>1, OpShort
    <3> QED BY <3>2 DEF o, y, f, v
  <2> QED BY <2>1, <2>3, <2>4, <2>5, <2>7, OpMark
<1> HIDE DEF AttBytes, EdgeBytes
<1>4. ASSUME NEW a \in Attestation PROVE Single(a) \in P
  <2>1. Short(AttItem(a), len, d, Plain(a), Single(a))
    BY <1>2, ShortOne
  <2>2. Layout(Single(a), Serialize) = AttItem(a) /\ Renewed(Single(a), Normal) = Single(a)
    BY LayoutAtt, RenewedSingle
  <2>3. Short(AttItem(a), len, d, Fits(Single(a), d), Single(a))
    BY <2>1, FitsItem DEF Short, Spoiled
  <2>4. Single(a) \in Lists(E)
    BY ItemIn
  <2> QED BY <2>2, <2>3, <2>4
<1>5. ASSUME NEW e \in E PROVE One(e) \in P
  <2>1. Short(OpItem(e, Serialize), len, d, Supported[<<e.stamp, d - 1>>], Under(e.op, Normal[e.stamp]))
    BY <1>3, ShortOne
  <2>2. Layout(One(e), Serialize) = OpItem(e, Serialize)
        /\ Renewed(One(e), Normal) = Under(e.op, Normal[e.stamp])
    BY <1>0, LayoutOp, RenewedOne
  <2>3. Short(OpItem(e, Serialize), len, d, Fits(One(e), d), Under(e.op, Normal[e.stamp]))
    BY <2>1, FitsItem DEF Short, Spoiled
  <2>4. One(e) \in Lists(E)
    BY ItemIn
  <2> QED BY <2>2, <2>3, <2>4
<1>6. ASSUME NEW a \in Attestation, NEW n \in Lists(E), n # Empty, n \in P
      PROVE  Join(Single(a), n) \in P
  <2> DEFINE y == Layout(n, Serialize)
             f == Fits(n, d)
             v == Renewed(n, Normal)
             j == Join(Single(a), n)
  <2>1. y \in Seq(Byte) /\ Short(y, len, d, f, v)
    BY <1>1, <1>6
  <2>2. Layout(j, Serialize) = Push(forkMark, AttItem(a) \o y)
    BY <1>0, <1>6, LayoutAttMore
  <2>3. Single(a) \in Lists(E)
    BY ItemIn
  <2>4. Renewed(j, Normal) = Join(Single(a), v)
    BY <2>3, RenewedJoin, RenewedSingle
  <2>5. Fits(j, d) <=> Plain(a) /\ f
    BY <2>3, FitsJoin, FitsItem
  <2>5a. v # Empty
    BY <1>6, RenewedStamp
  <2> HIDE DEF y, f, v
  <2>5b. \A r : Lower(v, r) => Lower(Join(Single(a), v), Join(Single(a), r))
    BY <2>5a, LowerAtt
  <2>6. Short(Push(forkMark, AttItem(a) \o y), len, d, Plain(a) /\ f, Join(Single(a), v))
    BY <1>2, <2>1, <2>5b, ShortMore
  <2>7. j \in Lists(E)
    BY <2>3, JoinIn
  <2> HIDE DEF j
  <2>8. Short(Layout(j, Serialize), len, d, Fits(j, d), Renewed(j, Normal))
    BY <2>2, <2>4, <2>5, <2>6 DEF Short, Spoiled
  <2> QED BY <2>7, <2>8 DEF j
<1>7. ASSUME NEW e \in E, NEW n \in Lists(E), n # Empty, n.atts = <<>>, n \in P
      PROVE  Join(One(e), n) \in P
  <2> DEFINE y == Layout(n, Serialize)
             f == Fits(n, d)
             v == Renewed(n, Normal)
             j == Join(One(e), n)
             o == Supported[<<e.stamp, d - 1>>]
             u == Under(e.op, Normal[e.stamp])
  <2>1. y \in Seq(Byte) /\ Short(y, len, d, f, v)
    BY <1>1, <1>7
  <2>2. Layout(j, Serialize) = Push(forkMark, OpItem(e, Serialize) \o y)
    BY <1>0, <1>7, LayoutOpMore
  <2>3. One(e) \in Lists(E)
    BY ItemIn
  <2>4. Renewed(j, Normal) = Join(u, v)
    BY <2>3, RenewedJoin, RenewedOne
  <2>5. Fits(j, d) <=> o /\ f
    BY <2>3, FitsJoin, FitsItem
  <2>5a. v # Empty /\ v.atts = <<>>
    BY <1>7, RenewedStamp
  <2> HIDE DEF y, f, v
  <2>5b. \A r : Lower(v, r) => Lower(Join(u, v), Join(u, r))
    BY <1>3, <2>5a, LowerOp
  <2>6. Short(Push(forkMark, OpItem(e, Serialize) \o y), len, d, o /\ f, Join(u, v))
    <3> HIDE DEF u, o
    <3> DEFINE tag == e.op.tag
               s == EdgeBytes(e)
    <3>1. /\ ItemBack(tag, s, len, d, o, u)
          /\ ItemShort(tag, s, len, d, o, u)
      BY <1>3 DEF u, o
    <3>2. /\ tag \in Byte /\ tag # forkMark
          /\ s \in Seq(Byte)
          /\ OpItem(e, Serialize) = Push(tag, s)
      BY <1>3
    <3>3. \A r : Lower(v, r) => Lower(Join(u, v), Join(u, r))
      BY <2>5b
    <3> HIDE DEF tag, s
    <3>4. Short(Push(forkMark, Push(tag, s) \o y), len, d, o /\ f, Join(u, v))
      BY <2>1, <3>1, <3>2, <3>3, ShortMore
    <3> QED BY <3>2, <3>4
  <2>7. j \in Lists(E)
    BY <2>3, JoinIn
  <2> HIDE DEF j, o, u
  <2>8. Short(Layout(j, Serialize), len, d, Fits(j, d), Renewed(j, Normal))
    BY <2>2, <2>4, <2>5, <2>6 DEF Short, Spoiled
  <2> QED BY <2>7, <2>8 DEF j
<1>8. \A n \in Lists(E) : n # Empty => n \in P
  <2> HIDE DEF P
  <2> QED BY <1>4, <1>5, <1>6, <1>7, NodeInduction DEF One
<1> QED BY <1>8

\* Of a tree within the limits whose bytes are cut, Deserialize reads nothing
\* or the sorted tree but for a lower height at its end.
LEMMA TreeShort ==
  ASSUME NEW t \in Stamp, Serializable[t], NEW len \in Nat, Applicable[<<t, len>>],
         NEW d \in Nat, d <= MaxNesting
  PROVE  Short(Serialize[t], len, d, Supported[<<t, d>>], Normal[t])
<1> DEFINE D == Stamp
           depth == [x \in D |-> Level(x)]
           Good(x, l, k) == Serializable[x] /\ Applicable[<<x, l>>] /\ k <= MaxNesting =>
                              Short(Serialize[x], l, k, Supported[<<x, k>>], Normal[x])
           P == {x \in D : \A l \in Nat, k \in Nat : Good(x, l, k)}
<1>1. ASSUME NEW x \in D, \A y \in D : depth[y] < depth[x] => y \in P
      PROVE  x \in P
  <2> SUFFICES ASSUME NEW l \in Nat, NEW k \in Nat, Serializable[x], Applicable[<<x, l>>], k <= MaxNesting
               PROVE  Short(Serialize[x], l, k, Supported[<<x, k>>], Normal[x])
    OBVIOUS
  <2>0. l <= MaxLength /\ x # Empty
    BY ApplicableIs, SerializableIs
  <2>1. CASE k = 0
    <3>1. ASSUME NEW b \in Seq(Byte) PROVE Deserialize[<<b, l, k>>] = Failed
      BY <2>1, DeserializeIs DEF Body
    <3> QED BY <3>1, CutIs, FailedSpoiled DEF Short
  <2>2. CASE k # 0
    <3> DEFINE E == Kids(x)
    <3>1. E \subseteq Edge /\ SortNode(x) \in Lists(E) /\ SortNode(x) # Empty
      BY <2>0, KidsIs, SortNodeIs
    <3>2. ASSUME NEW e \in E
          PROVE  /\ ResultLength(e.op, l) <= MaxLength
                 /\ Back(Serialize[e.stamp], ResultLength(e.op, l), k - 1,
                         Supported[<<e.stamp, k - 1>>], Normal[e.stamp])
                 /\ Short(Serialize[e.stamp], ResultLength(e.op, l), k - 1,
                          Supported[<<e.stamp, k - 1>>], Normal[e.stamp])
                 /\ Normal[e.stamp] \in Stamps[MaxNesting - 1]
      <4> DEFINE c == e.stamp
                 m == ResultLength(e.op, l)
      <4>1. c \in D /\ e.op \in Op /\ depth[c] < depth[x] /\ Level(c) \in Nat /\ Level(c) < Level(x)
        BY KidsIs
      <4>2. Serializable[c] /\ Applicable[<<c, m>>]
        BY ApplicableIs, SerializableIs DEF Kids
      <4>3. m \in Nat /\ k - 1 \in Nat /\ k - 1 <= MaxNesting
        BY <2>2, <4>1, LengthIs, Nesting
      <4> HIDE DEF m
      <4>4. m <= MaxLength
        BY <4>1, <4>2, <4>3, ApplicableIs
      <4>5. Good(c, m, k - 1)
        BY <1>1, <4>1, <4>3
      <4>6. Back(Serialize[c], m, k - 1, Supported[<<c, k - 1>>], Normal[c])
        BY <4>1, <4>2, <4>3, TreeBack
      <4>7. Normal[c] \in Stamps[MaxNesting - 1]
        <5>1. Normal[c] \in Stamps[Level(c)] /\ Level(x) \in Nat /\ Level(x) <= MaxNesting
          BY <4>1, NormalIs, StampIs
        <5>2. Level(c) <= MaxNesting - 1 /\ MaxNesting - 1 \in Nat
          BY <4>1, <5>1, Nesting
        <5> QED BY <4>1, <5>1, <5>2, StampsMonotone
      <4> QED BY <4>2, <4>3, <4>4, <4>5, <4>6, <4>7 DEF m
    <3>2a. Reread(E, l, k) /\ Reshort(E, l, k) /\ Deep(E)
      BY <3>2 DEF Reread, Reshort, Deep
    <3> HIDE DEF E
    <3>3. Short(Layout(SortNode(x), Serialize), l, k, Fits(SortNode(x), k), Renewed(SortNode(x), Normal))
      BY <2>0, <2>2, <3>1, <3>2a, NodeShort
    <3>4. Layout(SortNode(x), Serialize) = Serialize[x] /\ Renewed(SortNode(x), Normal) = Normal[x]
      BY SerializeIs, NormalIs
    <3>5. Fits(SortNode(x), k) <=> Supported[<<x, k>>]
      BY <2>2, FitsIs
    <3> QED BY <3>3, <3>4, <3>5 DEF Short, Spoiled
  <2> QED BY <2>1, <2>2
<1>2. depth \in [D -> Nat]
  BY StampIs
<1> HIDE DEF P, depth, D
<1>3. Inductive(D, depth, P)
  BY <1>1, <1>2 DEF Inductive
<1>4. t \in P
  BY <1>3, SizeInduction DEF D
<1> QED BY <1>4 DEF P

-----------------------------------------------------------------------------
(***************************************************************************)
(* The attestations of a tree.                                             *)
(***************************************************************************)

\* The elements of a concatenation.
LEMMA ConcatSet ==
  ASSUME NEW X, NEW a \in Seq(X), NEW b \in Seq(X)
  PROVE  a \o b \in Seq(X) /\ ToSet(a \o b) = ToSet(a) \cup ToSet(b)
<1>1. a \o b \in Seq(X)
  BY ListConcat
<1>2. \A x : x \in ToSet(a \o b) <=> \E i \in 1..Len(a \o b) : (a \o b)[i] = x
  BY <1>1 DEF ToSet
<1>3. \A x : x \in ToSet(a) \cup ToSet(b) <=>
               (\E i \in 1..Len(a) : a[i] = x) \/ (\E i \in 1..Len(b) : b[i] = x)
  BY DEF ToSet
<1>4. ASSUME NEW x, x \in ToSet(a \o b) PROVE x \in ToSet(a) \cup ToSet(b)
  <2>1. PICK i \in 1..Len(a \o b) : (a \o b)[i] = x
    BY <1>2, <1>4
  <2>2. CASE i <= Len(a)
    BY <1>3, <2>1, <2>2, ListAt
  <2>3. CASE i > Len(a)
    <3>1. i - Len(a) \in 1..Len(b) /\ b[i - Len(a)] = x
      BY <2>1, <2>3, ListAt
    <3> QED BY <1>3, <3>1
  <2> QED BY <2>2, <2>3
<1>5. ASSUME NEW x, x \in ToSet(a) \cup ToSet(b) PROVE x \in ToSet(a \o b)
  <2>1. CASE \E i \in 1..Len(a) : a[i] = x
    <3>1. PICK i \in 1..Len(a) : a[i] = x
      BY <2>1
    <3>2. i \in 1..Len(a \o b) /\ (a \o b)[i] = x
      BY <3>1, ListAt
    <3> QED BY <1>2, <3>2
  <2>2. CASE \E i \in 1..Len(b) : b[i] = x
    <3>1. PICK i \in 1..Len(b) : b[i] = x
      BY <2>2
    <3>2. Len(a) + i \in 1..Len(a \o b) /\ (a \o b)[Len(a) + i] = x
      BY <3>1, ListAt
    <3> QED BY <1>2, <3>2
  <2> QED BY <1>3, <1>5, <2>1, <2>2
<1> QED BY <1>1, <1>4, <1>5

\* The elements of a flattened sequence.
LEMMA FlatIs ==
  ASSUME NEW X, NEW s \in Seq(Seq(X))
  PROVE  /\ FlattenSeq(s) \in Seq(X)
         /\ \A x : x \in ToSet(FlattenSeq(s)) <=> \E i \in 1..Len(s) : x \in ToSet(s[i])
<1> DEFINE Q == Seq(X)
           n == Len(s)
           D == 1..n
           B(i, f) == IF i = 1 THEN s[i] ELSE f[i-1] \o s[i]
           depth == [i \in D |-> i]
           step == [p \in D \X [D -> Q] |-> B(p[1], p[2])]
           F == CHOOSE f : f = [i \in D |-> IF i = 1 THEN s[i] ELSE f[i-1] \o s[i]]
<1>a. n \in Nat /\ (\A i \in D : s[i] \in Q) /\ <<>> \in Q
  OBVIOUS
<1>b. \A a, b \in Q : a \o b \in Q /\ ToSet(a \o b) = ToSet(a) \cup ToSet(b)
  BY ConcatSet
<1>0. CASE n = 0
  <2>1. s = <<>>
    BY <1>0
  <2>2. FlattenSeq(s) = <<>>
    BY <2>1 DEF FlattenSeq
  <2>3. ToSet(<<>>) = {}
    BY DEF ToSet
  <2> QED BY <1>0, <1>a, <2>2, <2>3
<1> SUFFICES ASSUME n # 0
             PROVE  /\ FlattenSeq(s) \in Q
                    /\ \A x : x \in ToSet(FlattenSeq(s)) <=> \E i \in D : x \in ToSet(s[i])
  BY <1>0
<1>1. FlattenSeq(s) = F[n]
  BY DEF FlattenSeq
<1> HIDE DEF Q, n
<1>c. \A i \in D : i \in Nat /\ (i # 1 => i - 1 \in D /\ i - 1 < i)
  BY <1>a
<1>2. \A i \in D, g \in [D -> Q] : B(i, g) \in Q
  BY <1>a, <1>b, <1>c
<1>3. ASSUME NEW i \in D, NEW g \in [D -> Q], NEW h \in [D -> Q],
             \A y \in D : depth[y] < depth[i] => g[y] = h[y]
      PROVE  step[<<i, g>>] = step[<<i, h>>]
  <2>1. i # 1 => g[i - 1] = h[i - 1]
    BY <1>3, <1>c
  <2>2. B(i, g) = B(i, h)
    BY <2>1
  <2> HIDE DEF B
  <2> QED BY <2>2
<1>4. step \in [D \X [D -> Q] -> Q]
  <2> HIDE DEF B
  <2> QED BY <1>2
<1>5. Q # {} /\ depth \in [D -> Nat]
  BY <1>a, <1>c
<1>6. PICK g \in [D -> Q] : \A i \in D : g[i] = step[<<i, g>>]
  <2>1. Local(D, [D -> Q], depth, step)
    <3> HIDE DEF depth, step, D
    <3> QED BY <1>3 DEF Local
  <2> HIDE DEF depth, step, D
  <2>2. PlainRecursion(D, Q, depth, step)
    BY <2>1, <1>4, <1>5 DEF PlainRecursion
  <2> QED BY <2>2, SimpleRecursion
<1>7. g = [i \in D |-> B(i, g)]
  <2> HIDE DEF B
  <2> QED BY <1>6
<1>8. F = [i \in D |-> B(i, F)]
  BY <1>7
<1>9. \A i \in D : F[i] = B(i, F)
  <2> HIDE DEF B, F
  <2> QED BY <1>8
<1> HIDE DEF F
<1> DEFINE P == {i \in D : /\ F[i] \in Q
                           /\ \A x : x \in ToSet(F[i]) <=> \E j \in 1..i : x \in ToSet(s[j])}
<1>10. ASSUME NEW i \in D, \A y \in D : depth[y] < depth[i] => y \in P PROVE i \in P
  <2>1. CASE i = 1
    <3>1. F[i] = s[1]
      BY <1>9, <2>1
    <3> QED BY <1>a, <2>1, <3>1
  <2>2. CASE i # 1
    <3>1. i - 1 \in P
      BY <1>10, <1>c, <2>2
    <3>2. F[i] = F[i - 1] \o s[i]
      BY <1>9, <2>2
    <3>3. F[i] \in Q /\ ToSet(F[i]) = ToSet(F[i - 1]) \cup ToSet(s[i])
      BY <1>a, <1>b, <3>1, <3>2
    <3>4. \A j : j \in 1..i <=> j \in 1..(i - 1) \/ j = i
      BY <1>c, <2>2
    <3>5. \A x : x \in ToSet(F[i - 1]) <=> \E j \in 1..(i - 1) : x \in ToSet(s[j])
      BY <3>1
    <3>6. \A x : x \in ToSet(F[i]) <=> \E j \in 1..i : x \in ToSet(s[j])
      BY <3>3, <3>4, <3>5
    <3> QED BY <3>3, <3>6
  <2> QED BY <2>1, <2>2
<1> HIDE DEF P, depth
<1>11. Inductive(D, depth, P)
  BY <1>10, <1>5 DEF Inductive
<1>12. \A i \in D : i \in P
  BY <1>11, SizeInduction
<1>13. n \in P
  BY <1>12, <1>a
<1> QED BY <1>1, <1>13 DEF P

\* The attestations of the children, one sequence each.
Below(t, g) == [i \in DOMAIN t.ops |-> g[t.ops[i].stamp]]

\* What is found in t and below.
LEMMA BelowIs ==
  ASSUME NEW t \in Stamp, NEW g, \A i \in DOMAIN t.ops : g[t.ops[i].stamp] \in Seq(Attestation)
  PROVE  /\ t.atts \o FlattenSeq(Below(t, g)) \in Seq(Attestation)
         /\ \A x : x \in ToSet(t.atts \o FlattenSeq(Below(t, g))) <=>
                     x \in ToSet(t.atts) \/ \E i \in DOMAIN t.ops : x \in ToSet(g[t.ops[i].stamp])
<1> DEFINE Q == Seq(Attestation)
           s == Below(t, g)
           n == Len(t.ops)
           a == t.atts
<1>1. a \in Seq(Attestation) /\ n \in Nat /\ DOMAIN t.ops = 1..n
  BY StampIs
<1>2. s \in [1..n -> Q] /\ \A i \in 1..n : s[i] = g[t.ops[i].stamp]
  <2> HIDE DEF Q, n
  <2> QED BY <1>1 DEF Below, Q
<1>3. s \in Seq(Q) /\ Len(s) = n
  <2> HIDE DEF Q, n, s
  <2> QED BY <1>1, <1>2
<1> HIDE DEF s, n, a
<1>4. /\ FlattenSeq(s) \in Seq(Attestation)
      /\ \A x : x \in ToSet(FlattenSeq(s)) <=> \E i \in 1..Len(s) : x \in ToSet(s[i])
  BY <1>3, FlatIs
<1>5. /\ a \o FlattenSeq(s) \in Seq(Attestation)
      /\ ToSet(a \o FlattenSeq(s)) = ToSet(a) \cup ToSet(FlattenSeq(s))
  BY <1>1, <1>4, ConcatSet
<1>6. \A x : x \in ToSet(a \o FlattenSeq(s)) <=>
               x \in ToSet(a) \/ \E i \in 1..n : x \in ToSet(g[t.ops[i].stamp])
  BY <1>2, <1>3, <1>4, <1>5
<1> QED BY <1>1, <1>5, <1>6 DEF s, a

\* AllAttestations is the function its definition says.
LEMMA AllAttestationsIs ==
  \A t \in Stamp : /\ AllAttestations[t] \in Seq(Attestation)
                   /\ AllAttestations[t] = t.atts \o FlattenSeq(Below(t, AllAttestations))
<1> DEFINE D == Stamp
           S == Seq(Attestation)
           B(t, g) == t.atts \o FlattenSeq(Below(t, g))
           depth == [t \in D |-> Level(t)]
           step == [p \in D \X [D -> S] |-> B(p[1], p[2])]
<1>1. ASSUME NEW t \in D, NEW g, \A i \in DOMAIN t.ops : g[t.ops[i].stamp] \in S
      PROVE  B(t, g) \in S
  BY <1>1, BelowIs
<1>2. ASSUME NEW t \in D, NEW g \in [D -> S], NEW h \in [D -> S],
             \A y \in D : depth[y] < depth[t] => g[y] = h[y]
      PROVE  step[<<t, g>>] = step[<<t, h>>]
  <2>1. \A i \in DOMAIN t.ops : g[t.ops[i].stamp] = h[t.ops[i].stamp]
    BY <1>2, ChildLevel
  <2>2. Below(t, g) = Below(t, h)
    BY <2>1 DEF Below
  <2>3. B(t, g) = B(t, h)
    BY <2>2
  <2> HIDE DEF B
  <2> QED BY <2>3
<1>3. step \in [D \X [D -> S] -> S]
  <2>1. \A t \in D, g \in [D -> S] : B(t, g) \in S
    <3> HIDE DEF B, S
    <3> QED BY <1>1, ChildLevel
  <2> HIDE DEF B
  <2> QED BY <2>1
<1>4. S # {} /\ depth \in [D -> Nat]
  <2>1. <<>> \in S
    OBVIOUS
  <2> HIDE DEF S
  <2> QED BY <2>1, StampIs
<1>5. PICK g \in [D -> S] : \A t \in D : g[t] = step[<<t, g>>]
  <2>1. Local(D, [D -> S], depth, step)
    <3> HIDE DEF S, depth, step, D
    <3> QED BY <1>2 DEF Local
  <2> HIDE DEF S, depth, step, D
  <2>2. PlainRecursion(D, S, depth, step)
    BY <2>1, <1>3, <1>4 DEF PlainRecursion
  <2> QED BY <2>2, SimpleRecursion
<1>6. \A t \in D : g[t] = B(t, g)
  <2> HIDE DEF B, S
  <2> QED BY <1>5
<1>7. g = [t \in D |-> B(t, g)]
  <2> HIDE DEF B, S
  <2> QED BY <1>5, <1>6
<1>8. AllAttestations = [t \in D |-> B(t, AllAttestations)]
  BY <1>7 DEF AllAttestations, Below
<1>9. \A t \in D : AllAttestations[t] = B(t, AllAttestations)
  <2> HIDE DEF B
  <2> QED BY <1>8
<1>10. \A t \in D : AllAttestations[t] \in S
  <2> DEFINE P == {t \in D : AllAttestations[t] \in S}
  <2>1. ASSUME NEW t \in D, \A y \in D : depth[y] < depth[t] => y \in P PROVE t \in P
    <3>1. \A i \in DOMAIN t.ops : t.ops[i].stamp \in D /\ depth[t.ops[i].stamp] < depth[t]
      BY ChildLevel
    <3>2. \A i \in DOMAIN t.ops : AllAttestations[t.ops[i].stamp] \in S
      BY <2>1, <3>1
    <3> HIDE DEF B, S
    <3>3. B(t, AllAttestations) \in S
      BY <1>1, <3>2
    <3> QED BY <1>9, <3>3
  <2> HIDE DEF P, depth, D
  <2>2. Inductive(D, depth, P)
    BY <2>1, <1>4 DEF Inductive
  <2>3. \A t \in D : t \in P
    BY <2>2, SizeInduction
  <2> QED BY <2>3 DEF P
<1> HIDE DEF S
<1> QED BY <1>9, <1>10 DEF S

\* The attestations of a tree are those of its root and of what is under its
\* edges.
LEMMA AllSet ==
  ASSUME NEW t \in Stamp
  PROVE  \A x : x \in ToSet(AllAttestations[t]) <=>
                  \/ x \in ToSet(t.atts)
                  \/ \E e \in Kids(t) : x \in ToSet(AllAttestations[e.stamp])
<1>1. \A i \in DOMAIN t.ops : AllAttestations[t.ops[i].stamp] \in Seq(Attestation)
  BY ChildLevel, AllAttestationsIs
<1>2. AllAttestations[t] = t.atts \o FlattenSeq(Below(t, AllAttestations))
  BY AllAttestationsIs
<1>3. \A x : x \in ToSet(t.atts \o FlattenSeq(Below(t, AllAttestations))) <=>
               \/ x \in ToSet(t.atts)
               \/ \E i \in DOMAIN t.ops : x \in ToSet(AllAttestations[t.ops[i].stamp])
  BY <1>1, BelowIs
<1> QED BY <1>2, <1>3 DEF Kids

\* A permuted sequence has the same set of elements.
LEMMA PermutedSet ==
  ASSUME NEW S, NEW s \in Seq(S), NEW u, Permuted(s, u)
  PROVE  ToSet(u) = ToSet(s)
<1>1. /\ \A i \in DOMAIN u : \E j \in DOMAIN s : u[i] = s[j]
      /\ \A j \in DOMAIN s : \E i \in DOMAIN u : u[i] = s[j]
  BY PermutedIs
<1> QED BY <1>1 DEF ToSet

\* The children of what Deserialize makes of t.
LEMMA NormalKids ==
  ASSUME NEW t \in Stamp
  PROVE  /\ Normal[t] \in Stamp /\ ToSet(Normal[t].atts) = ToSet(t.atts)
         /\ \A e \in Kids(t) : \E f \in Kids(Normal[t]) : f.op = e.op /\ f.stamp = Normal[e.stamp]
         /\ \A f \in Kids(Normal[t]) : \E e \in Kids(t) : f.op = e.op /\ f.stamp = Normal[e.stamp]
<1> DEFINE u == Normal[t]
           o == SortNode(t).ops
<1>1. u = Renewed(SortNode(t), Normal) /\ u \in Stamp
  BY NormalIs
<1>2. /\ Permuted(t.atts, SortNode(t).atts) /\ Permuted(t.ops, o)
      /\ t.atts \in Seq(Attestation) /\ t.ops \in Seq(Edge)
  BY SortNodeIs, StampIs
<1>3. u.atts = SortNode(t).atts /\ u.ops = Mapped(o, Normal)
  BY <1>1 DEF Renewed
<1>4. ToSet(u.atts) = ToSet(t.atts)
  BY <1>2, <1>3, PermutedSet
<1>5. /\ \A i \in DOMAIN o : \E j \in DOMAIN t.ops : o[i] = t.ops[j]
      /\ \A j \in DOMAIN t.ops : \E i \in DOMAIN o : o[i] = t.ops[j]
  <2> DEFINE w == t.ops
  <2>1. w \in Seq(Edge) /\ Permuted(w, o)
    BY <1>2
  <2> HIDE DEF o, w
  <2>2. /\ \A i \in DOMAIN o : \E j \in DOMAIN w : o[i] = w[j]
        /\ \A j \in DOMAIN w : \E i \in DOMAIN o : o[i] = w[j]
    BY <2>1, PermutedIs
  <2> QED BY <2>2 DEF w
<1> HIDE DEF o, u
<1>6. DOMAIN u.ops = DOMAIN o
      /\ \A i \in DOMAIN o : u.ops[i].op = o[i].op /\ u.ops[i].stamp = Normal[o[i].stamp]
  BY <1>3 DEF Mapped
<1>7. ASSUME NEW e \in Kids(t) PROVE \E f \in Kids(u) : f.op = e.op /\ f.stamp = Normal[e.stamp]
  <2>1. PICK i \in DOMAIN o : o[i] = e
    BY <1>5 DEF Kids
  <2>2. u.ops[i] \in Kids(u)
    BY <1>6 DEF Kids
  <2> QED BY <1>6, <2>1, <2>2
<1>8. ASSUME NEW f \in Kids(u) PROVE \E e \in Kids(t) : f.op = e.op /\ f.stamp = Normal[e.stamp]
  <2>1. PICK i \in DOMAIN o : f = u.ops[i]
    BY <1>6 DEF Kids
  <2>2. PICK j \in DOMAIN t.ops : o[i] = t.ops[j]
    BY <1>5
  <2>3. t.ops[j] \in Kids(t)
    BY DEF Kids
  <2> QED BY <1>6, <2>1, <2>2, <2>3
<1> QED BY <1>1, <1>4, <1>7, <1>8 DEF u

\* Sorting every node loses no attestation and adds none.
LEMMA AllNormal ==
  ASSUME NEW t \in Stamp
  PROVE  ToSet(AllAttestations[Normal[t]]) = ToSet(AllAttestations[t])
<1> DEFINE D == Stamp
           depth == [x \in D |-> Level(x)]
           A(x) == ToSet(AllAttestations[x])
           P == {x \in D : A(Normal[x]) = A(x)}
<1>1. ASSUME NEW x \in D, \A y \in D : depth[y] < depth[x] => y \in P PROVE x \in P
  <2>1. \A e \in Kids(x) : A(Normal[e.stamp]) = A(e.stamp)
    BY <1>1, KidsIs
  <2>2. /\ Normal[x] \in Stamp /\ ToSet(Normal[x].atts) = ToSet(x.atts)
        /\ \A e \in Kids(x) : \E f \in Kids(Normal[x]) : f.op = e.op /\ f.stamp = Normal[e.stamp]
        /\ \A f \in Kids(Normal[x]) : \E e \in Kids(x) : f.op = e.op /\ f.stamp = Normal[e.stamp]
    BY NormalKids
  <2>3. \A a : a \in A(x) <=> a \in ToSet(x.atts) \/ \E e \in Kids(x) : a \in A(e.stamp)
    BY AllSet
  <2>4. \A a : a \in A(Normal[x]) <=>
                 a \in ToSet(Normal[x].atts) \/ \E e \in Kids(Normal[x]) : a \in A(e.stamp)
    BY <2>2, AllSet
  <2> HIDE DEF A
  <2>5. \A a : a \in A(Normal[x]) <=> a \in A(x)
    BY <2>1, <2>2, <2>3, <2>4
  <2>6. A(Normal[x]) = A(x)
    BY <2>5 DEF A
  <2> QED BY <2>6
<1>2. depth \in [D -> Nat]
  BY StampIs
<1> HIDE DEF P, depth, D
<1>3. Inductive(D, depth, P)
  BY <1>1, <1>2 DEF Inductive
<1>4. t \in P
  BY <1>3, SizeInduction DEF D
<1> QED BY <1>4 DEF P

\* The value of a Bitcoin attestation is its height.
LEMMA HeightVal ==
  ASSUME NEW a \in Attestation, a.tag = bitcoinTag
  PROVE  a.val \in Seq(Nat) /\ ToSet(a.val) = {a.val[1]}
<1> DEFINE h == a.val[1]
<1>1. HasHeight(a.tag)
  BY DEF HasHeight
<1>2. a.val = <<h>> /\ h \in 0..(Word - 1)
  BY <1>1, AttestationIs
<1> HIDE DEF h
<1>3. h \in Nat
  BY <1>2
<1>4. <<h>> \in Seq(Nat) /\ ToSet(<<h>>) = {h}
  BY <1>3 DEF ToSet
<1> QED BY <1>2, <1>4 DEF h

\* Heights is the function its definition says.
LEMMA HeightsStep ==
  \A s \in Seq(Attestation) :
    Heights[s] = IF s = <<>> THEN <<>>
                 ELSE (IF s[1].tag = bitcoinTag THEN s[1].val ELSE <<>>) \o Heights[Tail(s)]
<1> DEFINE D == Seq(Attestation)
           S == Seq(Nat)
           V(a) == IF a.tag = bitcoinTag THEN a.val ELSE <<>>
           B(s, g) == IF s = <<>> THEN <<>> ELSE V(s[1]) \o g[Tail(s)]
           depth == [s \in D |-> Len(s)]
           step == [p \in D \X [D -> S] |-> B(p[1], p[2])]
<1>a. \A s \in D : /\ Len(s) \in Nat
                   /\ s # <<>> => s[1] \in Attestation /\ Tail(s) \in D /\ Len(Tail(s)) < Len(s)
  <2> DEFINE X == Attestation
  <2>1. \A s \in Seq(X) : /\ Len(s) \in Nat
                          /\ s # <<>> => s[1] \in X /\ Tail(s) \in Seq(X) /\ Len(Tail(s)) < Len(s)
    <3> HIDE DEF X
    <3> QED OBVIOUS
  <2> QED BY <2>1
<1>b. \A a \in Attestation : V(a) \in S
  BY HeightVal
<1>c. <<>> \in S /\ \A a, b \in S : a \o b \in S
  OBVIOUS
<1> HIDE DEF V, S, D
<1>1. \A s \in D, g \in [D -> S] : B(s, g) \in S
  BY <1>a, <1>b, <1>c
<1>2. ASSUME NEW s \in D, NEW g \in [D -> S], NEW h \in [D -> S],
             \A y \in D : depth[y] < depth[s] => g[y] = h[y]
      PROVE  step[<<s, g>>] = step[<<s, h>>]
  <2>1. s # <<>> => g[Tail(s)] = h[Tail(s)]
    BY <1>2, <1>a
  <2>2. B(s, g) = B(s, h)
    BY <2>1
  <2> HIDE DEF B
  <2> QED BY <2>2
<1>3. step \in [D \X [D -> S] -> S]
  <2> HIDE DEF B
  <2> QED BY <1>1
<1>4. S # {} /\ depth \in [D -> Nat]
  BY <1>a, <1>c
<1>5. PICK g \in [D -> S] : \A s \in D : g[s] = step[<<s, g>>]
  <2>1. Local(D, [D -> S], depth, step)
    <3> HIDE DEF depth, step
    <3> QED BY <1>2 DEF Local
  <2> HIDE DEF depth, step
  <2>2. PlainRecursion(D, S, depth, step)
    BY <2>1, <1>3, <1>4 DEF PlainRecursion
  <2> QED BY <2>2, SimpleRecursion
<1>6. g = [s \in D |-> B(s, g)]
  <2> HIDE DEF B
  <2> QED BY <1>5
<1>7. Heights = [s \in D |-> B(s, Heights)]
  BY <1>6 DEF Heights, V, D
<1>8. \A s \in D : Heights[s] = B(s, Heights)
  <2> HIDE DEF B
  <2> QED BY <1>7
<1> QED BY <1>8 DEF V, D

\* The heights of the Bitcoin attestations of s.
Claimed(A) == {a.val[1] : a \in {b \in A : b.tag = bitcoinTag}}

\* Heights are the heights of the Bitcoin attestations.
LEMMA HeightsIs ==
  ASSUME NEW s \in Seq(Attestation)
  PROVE  Heights[s] \in Seq(Nat) /\ ToSet(Heights[s]) = Claimed(ToSet(s))
<1> DEFINE X == Attestation
           D == Seq(X)
           depth == [x \in D |-> Len(x)]
           P == {x \in D : Heights[x] \in Seq(Nat) /\ ToSet(Heights[x]) = Claimed(ToSet(x))}
<1>0. ToSet(<<>>) = {} /\ Claimed({}) = {}
  BY DEF ToSet, Claimed
<1>1. ASSUME NEW x \in D, \A y \in D : depth[y] < depth[x] => y \in P PROVE x \in P
  <2>1. CASE x = <<>>
    <3>1. Heights[x] = <<>>
      BY <2>1, HeightsStep
    <3>2. <<>> \in Seq(Nat)
      OBVIOUS
    <3> HIDE DEF D
    <3> QED BY <1>0, <2>1, <3>1, <3>2
  <2>2. CASE x # <<>>
    <3> DEFINE a == x[1]
               r == Tail(x)
               v == IF a.tag = bitcoinTag THEN a.val ELSE <<>>
    <3>1. a \in Attestation /\ r \in D /\ Len(r) < Len(x) /\ ToSet(x) = {a} \cup ToSet(r)
      <4> HIDE DEF X
      <4>1. x[1] \in X /\ Tail(x) \in D /\ Len(Tail(x)) < Len(x) /\ x = <<x[1]>> \o Tail(x)
            /\ <<x[1]>> \in Seq(X)
        BY <2>2
      <4>2. ToSet(x) = ToSet(<<x[1]>>) \cup ToSet(Tail(x))
        BY <4>1, ConcatSet
      <4>3. ToSet(<<x[1]>>) = {x[1]}
        BY DEF ToSet
      <4> QED BY <4>1, <4>2, <4>3 DEF X
    <3>2. Heights[r] \in Seq(Nat) /\ ToSet(Heights[r]) = Claimed(ToSet(r))
      BY <1>1, <3>1
    <3>3. Heights[x] = v \o Heights[r]
      BY <2>2, HeightsStep
    <3>4. v \in Seq(Nat) /\ ToSet(v) = IF a.tag = bitcoinTag THEN {a.val[1]} ELSE {}
      <4>1. CASE a.tag = bitcoinTag
        <5> HIDE DEF a
        <5>1. a.val \in Seq(Nat) /\ ToSet(a.val) = {a.val[1]}
          BY <3>1, <4>1, HeightVal
        <5> QED BY <4>1, <5>1
      <4>2. CASE a.tag # bitcoinTag
        BY <1>0, <4>2
      <4> QED BY <4>1, <4>2
    <3> HIDE DEF v, r
    <3>5. Heights[x] \in Seq(Nat) /\ ToSet(Heights[x]) = ToSet(v) \cup ToSet(Heights[r])
      BY <3>2, <3>3, <3>4, ConcatSet
    <3> HIDE DEF a
    <3>6. Claimed({a} \cup ToSet(r)) = (IF a.tag = bitcoinTag THEN {a.val[1]} ELSE {}) \cup Claimed(ToSet(r))
      BY DEF Claimed
    <3> QED BY <3>1, <3>2, <3>4, <3>5, <3>6
  <2> QED BY <2>1, <2>2
<1>2. depth \in [D -> Nat]
  <2> HIDE DEF X
  <2> QED OBVIOUS
<1> HIDE DEF P, depth, D
<1>3. Inductive(D, depth, P)
  BY <1>1, <1>2 DEF Inductive
<1>4. s \in P
  BY <1>3, SizeInduction DEF D
<1> QED BY <1>4 DEF P

\* The first of the sorted heights is the lowest.
LEMMA BlockHeightIs ==
  ASSUME NEW s \in Seq(Nat), s # <<>>
  PROVE  BlockHeight(s) \in ToSet(s) /\ \A h \in ToSet(s) : BlockHeight(s) <= h
<1> DEFINE R == {w \in Nat \X Nat : w[1] < w[2]}
           Q(p) == \A i, j \in DOMAIN s : i < j => ~(s[p[j]] < s[p[i]])
           c == CHOOSE c \in Bijection(DOMAIN s, DOMAIN s) : Q(c)
<1>1. \A a, b \in Nat : <<a, b>> \in R <=> a < b
  OBVIOUS
<1> HIDE DEF R
<1>2. Order(Nat, R)
  BY <1>1 DEF Order
<1>3. PICK p \in Bijection(DOMAIN s, DOMAIN s) :
        \A i, j \in DOMAIN s : i < j => <<s[p[j]], s[p[i]]>> \notin R
  BY <1>2, ArrangedIs
<1>4. DOMAIN s = 1..Len(s) /\ Len(s) \in Nat /\ Len(s) # 0 /\ \A i \in DOMAIN s : s[i] \in Nat
  OBVIOUS
<1>5. Q(p)
  <2>1. p \in [DOMAIN s -> DOMAIN s]
    BY DEF Bijection, Injection
  <2> QED BY <1>1, <1>3, <1>4, <2>1
<1>6. BlockHeight(s) = [i \in DOMAIN s |-> s[c[i]]][1]
  BY DEF BlockHeight, Sorted
<1> HIDE DEF Q
<1>7. c \in Bijection(DOMAIN s, DOMAIN s) /\ Q(c)
  BY <1>5
<1> HIDE DEF c
<1>8. /\ c \in [DOMAIN s -> DOMAIN s]
      /\ \A k \in DOMAIN s : \E i \in DOMAIN s : c[i] = k
  BY <1>7 DEF Bijection, Injection, Surjection
<1>9. 1 \in DOMAIN s
  BY <1>4
<1>10. BlockHeight(s) = s[c[1]] /\ c[1] \in DOMAIN s
  BY <1>6, <1>8, <1>9
<1>11. ASSUME NEW k \in DOMAIN s PROVE s[c[1]] <= s[k]
  <2>1. PICK i \in DOMAIN s : c[i] = k
    BY <1>8
  <2>2. CASE i = 1
    BY <1>4, <2>1, <2>2
  <2>3. CASE i # 1
    <3>1. 1 < i
      BY <1>4, <2>3
    <3>2. ~(s[c[i]] < s[c[1]])
      BY <1>7, <1>9, <3>1 DEF Q
    <3> QED BY <1>4, <1>10, <2>1, <3>2
  <2> QED BY <2>2, <2>3
<1> QED BY <1>10, <1>11 DEF ToSet

\* Only the empty sequence has no elements.
LEMMA NoMember ==
  ASSUME NEW S, NEW s \in Seq(S)
  PROVE  s = <<>> <=> ToSet(s) = {}
BY DEF ToSet

\* What ParseProof says of a proof with the attestations A.
LEMMA ParseProofIs ==
  ASSUME NEW t \in Stamp, NEW A, A = ToSet(AllAttestations[t])
  PROVE  /\ ParseProof(t).complete <=> Claimed(A) # {}
         /\ ParseProof(t).height = {h \in Claimed(A) : \A g \in Claimed(A) : h <= g}
         /\ ParseProof(t).pending = {a.val : a \in {b \in A : b.tag = pendingTag}}
<1> DEFINE s == AllAttestations[t]
           hs == Heights[s]
           lo == {h \in Claimed(A) : \A g \in Claimed(A) : h <= g}
           pe == {a.val : a \in {b \in ToSet(s) : b.tag = pendingTag}}
<1>1. s \in Seq(Attestation)
  BY AllAttestationsIs
<1>2. hs \in Seq(Nat) /\ ToSet(hs) = Claimed(A)
  BY <1>1, HeightsIs
<1>3. ParseProof(t) = [complete |-> hs # <<>>,
                       height   |-> IF hs = <<>> THEN {} ELSE {BlockHeight(hs)},
                       pending  |-> pe]
  BY DEF ParseProof
<1> HIDE DEF s, hs, pe
<1>4. hs = <<>> <=> Claimed(A) = {}
  BY <1>2, NoMember
<1>5. CASE hs = <<>>
  <2>1. Claimed(A) = {}
    BY <1>4, <1>5
  <2>2. lo = {}
    BY <2>1
  <2> HIDE DEF lo
  <2>3. ParseProof(t).complete = (hs # <<>>) /\ ParseProof(t).height = {} /\ ParseProof(t).pending = pe
    BY <1>3, <1>5
  <2> QED BY <1>5, <2>1, <2>2, <2>3 DEF lo, pe, s
<1>6. CASE hs # <<>>
  <2>1. BlockHeight(hs) \in Claimed(A) /\ \A h \in Claimed(A) : BlockHeight(hs) <= h
    BY <1>2, <1>6, BlockHeightIs
  <2>2. \A h \in Claimed(A) : h \in Nat
    BY <1>2 DEF ToSet
  <2>3. lo = {BlockHeight(hs)}
    BY <2>1, <2>2
  <2> HIDE DEF lo
  <2>4. ParseProof(t).complete = (hs # <<>>) /\ ParseProof(t).height = {BlockHeight(hs)} /\ ParseProof(t).pending = pe
    BY <1>3, <1>6
  <2> QED BY <1>4, <1>6, <2>3, <2>4 DEF lo, pe, s
<1> QED BY <1>5, <1>6

-----------------------------------------------------------------------------
(***************************************************************************)
(* What Deserialize accepts.                                               *)
(***************************************************************************)

\* An attestation of an unknown kind that was accepted has no payload.
LEMMA PlainRead ==
  ASSUME NEW b, DeserializeAttestation(b).st = "ok"
  PROVE  Plain(DeserializeAttestation(b).val)
<1> DEFINE t == ReadBytes(b, 2)
           p == ReadVarBytes(t.rest, MaxPayloadSize)
           q == ReadPayload(t.val, p.val)
           r == DeserializeAttestation(b)
<1>1. r = IF t.st # "ok" THEN t
          ELSE IF p.st # "ok" THEN p
          ELSE IF q.st # "ok" THEN q
          ELSE IF q.rest # <<>> THEN Failed
          ELSE Ok([tag |-> t.val, val |-> q.val], p.rest)
  BY AttestationSteps
<1>2. IsUnknown(t.val) => q = Ok(p.val, p.val)
  BY ReadPayloadIs
<1> HIDE DEF t, p, q, r
<1>3. r = Ok([tag |-> t.val, val |-> q.val], p.rest) /\ q.rest = <<>>
  BY <1>1, FailedIs DEF r
<1>4. r.val.tag = t.val /\ r.val.val = q.val
  BY <1>3, OkIs
<1>5. IsUnknown(t.val) => q.val = <<>>
  BY <1>2, <1>3, OkIs
<1> QED BY <1>4, <1>5 DEF Plain, r

\* A proof that can be written, and read again from there.
Sound(v, len, d) ==
  /\ v \in Stamp /\ Serializable[v]
  /\ Applicable[<<v, len>>] /\ Supported[<<v, d>>]

\* One attestation is sound.
LEMMA SoundSingle ==
  ASSUME NEW a \in Attestation, Plain(a), NEW len \in Nat, len <= MaxLength, NEW d \in Nat, d # 0
  PROVE  Sound(Single(a), len, d)
<1> DEFINE t == Single(a)
<1>1. t.atts = <<a>> /\ t.ops = <<>> /\ t # Empty
  <2>1. t.atts = <<a>> /\ t.ops = <<>>
    BY SingleIs
  <2>2. Empty.atts = <<>> /\ <<a>> # <<>>
    BY DEF Empty
  <2> HIDE DEF t
  <2> QED BY <2>1, <2>2
<1>2. t \in Stamp /\ DOMAIN t.ops = {} /\ DOMAIN t.atts = {1} /\ t.atts[1] = a
  BY <1>1, SingleDistinct
<1> HIDE DEF t
<1>3. Readable(t)
  BY <1>2 DEF Readable, Plain
<1>4. Serializable[t]
  BY <1>1, <1>2, SerializableIs
<1>5. Applicable[<<t, len>>]
  BY <1>2, ApplicableIs
<1>6. Supported[<<t, d>>]
  <2>1. d > 0
    OBVIOUS
  <2> QED BY <1>2, <1>3, <2>1, SupportedIs
<1> QED BY <1>2, <1>4, <1>5, <1>6 DEF Sound, t

\* An edge is sound if its child is.
LEMMA SoundUnder ==
  ASSUME NEW o \in Op, NEW len \in Nat, len <= MaxLength, NEW d \in Nat, d # 0, d <= MaxNesting,
         NEW v \in Stamps[d - 1], Sound(v, ResultLength(o, len), d - 1)
  PROVE  Sound(Under(o, v), len, d)
<1> DEFINE t == Under(o, v)
           m == ResultLength(o, len)
<1>1. MaxNesting \in Nat /\ m \in Nat /\ d - 1 \in Nat /\ d > 0
  BY Nesting, LengthIs
<1>2. t \in Stamps[d]
  BY UnderTyped
<1>3. t \in Stamp
  BY <1>1, <1>2, StampsMonotone DEF Stamp
<1>4. /\ DOMAIN t.ops = {1} /\ t.ops[1].op = o /\ t.ops[1].stamp = v
      /\ DOMAIN t.atts = {} /\ t # Empty
  <2>1. t.atts = <<>> /\ t.ops = <<[op |-> o, stamp |-> v]>> /\ Empty.ops = <<>>
    BY DEF Under, Empty
  <2> DEFINE e == [op |-> o, stamp |-> v]
             x == <<e>>
             nil == <<>>
  <2>2. e.op = o /\ e.stamp = v
    OBVIOUS
  <2> HIDE DEF e
  <2>3. DOMAIN x = {1} /\ x[1] = e /\ DOMAIN nil = {} /\ x # nil
    OBVIOUS
  <2>4. t.atts = nil /\ t.ops = x /\ Empty.ops = nil
    BY <2>1 DEF e
  <2> HIDE DEF x, nil, t
  <2> QED BY <2>2, <2>3, <2>4
<1>5. Serializable[v] /\ Applicable[<<v, m>>] /\ Supported[<<v, d - 1>>]
  BY DEF Sound
<1> HIDE DEF t, m
<1>6. Serializable[t]
  BY <1>3, <1>4, <1>5, SerializableIs
<1>7. Applicable[<<t, len>>]
  BY <1>3, <1>4, <1>5, ApplicableIs DEF m
<1>8. Readable(t)
  BY <1>4 DEF Readable
<1>9. Supported[<<t, d>>]
  BY <1>1, <1>3, <1>4, <1>5, <1>8, SupportedIs
<1> QED BY <1>3, <1>6, <1>7, <1>9 DEF Sound, t

\* A node is sound if its items are.
LEMMA SoundJoin ==
  ASSUME NEW len \in Nat, NEW d \in Nat, NEW t, NEW u, Sound(t, len, d), Sound(u, len, d)
  PROVE  Sound(Join(t, u), len, d)
<1> DEFINE j == Join(t, u)
<1>1. /\ t \in Stamp /\ Serializable[t] /\ Applicable[<<t, len>>] /\ Supported[<<t, d>>]
      /\ u \in Stamp /\ Serializable[u] /\ Applicable[<<u, len>>] /\ Supported[<<u, d>>]
  BY DEF Sound
<1>2. j \in Stamp
  BY <1>1, JoinTyped, Nesting DEF Stamp
<1>3. /\ t.atts \in Seq(Attestation) /\ u.atts \in Seq(Attestation)
      /\ t.ops \in Seq(Edge) /\ u.ops \in Seq(Edge)
      /\ t = [atts |-> t.atts, ops |-> t.ops]
  BY <1>1, StampIs
<1>4. j.atts = t.atts \o u.atts /\ j.ops = t.ops \o u.ops
  BY DEF Join
<1>5. /\ \A i \in DOMAIN j.atts : j.atts[i] \in ToSet(t.atts) \cup ToSet(u.atts)
      /\ \A i \in DOMAIN j.ops : j.ops[i] \in ToSet(t.ops) \cup ToSet(u.ops)
  <2>1. ToSet(j.atts) = ToSet(t.atts) \cup ToSet(u.atts)
    BY <1>3, <1>4, ConcatSet
  <2>2. ToSet(j.ops) = ToSet(t.ops) \cup ToSet(u.ops)
    BY <1>3, <1>4, ConcatSet
  <2> QED BY <2>1, <2>2 DEF ToSet
<1>6. j # Empty
  <2>1. t.atts # <<>> \/ t.ops # <<>>
    BY <1>1, <1>3, SerializableIs DEF Empty
  <2>2. j = Empty => j.atts = <<>> /\ j.ops = <<>>
    BY DEF Empty
  <2>3. (t.atts \o u.atts = <<>> => t.atts = <<>>) /\ (t.ops \o u.ops = <<>> => t.ops = <<>>)
    <3>1. ASSUME NEW S, NEW a \in Seq(S), NEW b \in Seq(S), a \o b = <<>> PROVE a = <<>>
      <4>1. Len(a) + Len(b) = 0
        BY <3>1, ListConcat, ListIs
      <4> QED BY <4>1, ListIs
    <3> QED BY <1>3, <3>1
  <2> QED BY <1>4, <2>1, <2>2, <2>3
<1> HIDE DEF j
<1>7. Serializable[j]
  BY <1>1, <1>2, <1>5, <1>6, SerializableIs DEF ToSet
<1>8. Applicable[<<j, len>>]
  <2> DEFINE A(e) == Applicable[<<e.stamp, ResultLength(e.op, len)>>]
  <2>1. /\ len <= MaxLength
        /\ \A i \in DOMAIN t.ops : A(t.ops[i])
        /\ \A i \in DOMAIN u.ops : A(u.ops[i])
    BY <1>1, ApplicableIs
  <2>2. (\A i \in DOMAIN j.ops : A(j.ops[i])) /\ len <= MaxLength => Applicable[<<j, len>>]
    BY <1>2, ApplicableIs
  <2> HIDE DEF A
  <2>3. \A i \in DOMAIN j.ops : A(j.ops[i])
    BY <1>5, <2>1 DEF ToSet
  <2> QED BY <2>1, <2>2, <2>3
<1>9. Supported[<<j, d>>]
  <2>1. Readable(j)
    BY <1>1, <1>5, SupportedIs DEF Readable, ToSet
  <2> DEFINE A(e) == Supported[<<e.stamp, d - 1>>]
  <2>2. /\ d > 0
        /\ \A i \in DOMAIN t.ops : A(t.ops[i])
        /\ \A i \in DOMAIN u.ops : A(u.ops[i])
    BY <1>1, SupportedIs
  <2>3. (\A i \in DOMAIN j.ops : A(j.ops[i])) /\ d > 0 => Supported[<<j, d>>]
    BY <1>2, <2>1, SupportedIs
  <2> HIDE DEF A
  <2>4. \A i \in DOMAIN j.ops : A(j.ops[i])
    BY <1>5, <2>2 DEF ToSet
  <2> QED BY <2>2, <2>3, <2>4
<1> QED BY <1>2, <1>7, <1>8, <1>9 DEF Sound, j

\* What g accepts of less than n bytes is sound.
Accepts(g, n) ==
  \A b \in Seq(Byte), l \in Nat, d \in Nat :
    Len(b) < n /\ d <= MaxNesting /\ g[<<b, l, d>>].st = "ok" => Sound(g[<<b, l, d>>].val, l, d)

\* An item that is accepted is sound.
LEMMA ItemSound ==
  ASSUME NEW g, NEW n \in Nat, NEW s \in Seq(Byte), Len(s) < n, Reads(g, n), Accepts(g, n),
         NEW tag, NEW len \in Nat, len <= MaxLength, NEW d \in Nat, d # 0, d <= MaxNesting,
         Item(g, tag, s, len, d).st = "ok"
  PROVE  Sound(Item(g, tag, s, len, d).val, len, d)
<1>0. Len(s) \in Nat /\ MaxNesting \in Nat
  BY StringIs, Nesting
<1>1. CASE tag = attestationMark
  <2> DEFINE a == DeserializeAttestation(s)
  <2>1. a \in Results(Attestation) /\ (a.st = "ok" => Plain(a.val))
    BY DeserializeAttestationIs, PlainRead
  <2>2. Item(g, tag, s, len, d) = IF a.st = "ok" THEN Ok(Single(a.val), a.rest) ELSE a
    BY <1>1 DEF Item, Attested
  <2> HIDE DEF a
  <2>3. a.st = "ok"
    BY <2>2
  <2>4. a.val \in Attestation /\ Plain(a.val)
    BY <2>1, <2>3, ResultIs
  <2>5. Item(g, tag, s, len, d).val = Single(a.val)
    BY <2>2, <2>3, OkIs
  <2> QED BY <2>4, <2>5, SoundSingle
<1>2. CASE tag # attestationMark
  <2> DEFINE o == DeserializeFromTag(s, tag)
             l == ResultLength(o.val, len)
             r == g[<<o.rest, l, d - 1>>]
  <2>1. o \in Results(Op) /\ (o.st = "ok" => Len(o.rest) <= Len(s))
    BY DeserializeFromTagIs
  <2>2. Item(g, tag, s, len, d) =
          IF o.st # "ok" THEN o ELSE IF l > MaxLength THEN Failed
          ELSE IF r.st = "ok" THEN Ok(Under(o.val, r.val), r.rest) ELSE r
    BY <1>2 DEF Item, Applied, ChildOf
  <2> HIDE DEF o
  <2>3. o.st = "ok" /\ ~(l > MaxLength) /\ r.st = "ok"
    <3> HIDE DEF l, r
    <3> QED BY <2>2, FailedIs
  <2>4. Item(g, tag, s, len, d).val = Under(o.val, r.val)
    <3> HIDE DEF l, r
    <3> QED BY <2>2, <2>3, OkIs
  <2>5. o.val \in Op /\ o.rest \in Seq(Byte)
    BY <2>1, <2>3, ResultIs
  <2>6. l \in Nat /\ d - 1 \in Nat /\ d - 1 <= MaxNesting /\ Len(o.rest) \in Nat
    <3>1. l \in Nat
      BY <2>5, LengthIs
    <3>2. Len(o.rest) \in Nat
      BY <2>5, StringIs
    <3>3. d - 1 \in Nat /\ d - 1 <= MaxNesting
      BY <1>0
    <3> QED BY <3>1, <3>2, <3>3
  <2>7. Len(o.rest) < n
    BY <1>0, <2>1, <2>3, <2>6
  <2> HIDE DEF l
  <2>8. r \in Shorter(Len(o.rest), d - 1) /\ Sound(r.val, l, d - 1)
    BY <2>3, <2>5, <2>6, <2>7 DEF Reads, Accepts
  <2>9. r.val \in Stamps[d - 1]
    BY <2>3, <2>8, ShorterIs
  <2> QED BY <2>4, <2>5, <2>8, <2>9, SoundUnder DEF l
<1> QED BY <1>1, <1>2

\* A node that is accepted is sound.
LEMMA BodySound ==
  ASSUME NEW g, NEW b \in Seq(Byte), Reads(g, Len(b)), Accepts(g, Len(b)),
         NEW len \in Nat, NEW d \in Nat, d <= MaxNesting, Body(g, b, len, d).st = "ok"
  PROVE  Sound(Body(g, b, len, d).val, len, d)
<1>1. ~(d = 0 \/ len > MaxLength \/ b = <<>>)
  BY FailedIs DEF Body
<1>2. len <= MaxLength /\ d # 0
  BY <1>1, Limits
<1>3. CASE b[1] # forkMark
  <2>1. Body(g, b, len, d) = Item(g, b[1], Tail(b), len, d)
    BY <1>1, <1>3 DEF Body
  <2>2. Tail(b) \in Seq(Byte) /\ Len(Tail(b)) < Len(b) /\ Len(b) \in Nat
    BY <1>1, BodyCases
  <2> QED BY <1>2, <2>1, <2>2, ItemSound
<1>4. CASE b[1] = forkMark
  <2> DEFINE r == Item(g, b[2], Tail(Tail(b)), len, d)
             q == g[<<r.rest, len, d>>]
  <2>0. Len(b) # 1
    BY <1>1, <1>4, FailedIs DEF Body
  <2>1. Body(g, b, len, d) = IF r.st # "ok" THEN r
                             ELSE IF q.st = "ok" THEN Ok(Join(r.val, q.val), q.rest) ELSE q
    BY <1>1, <1>4, <2>0 DEF Body, More, Both
  <2>2. /\ r \in Shorter(Len(b), d) /\ (r.st = "ok" => Sound(r.val, len, d))
    <3>1. Tail(Tail(b)) \in Seq(Byte) /\ Len(Tail(Tail(b))) < Len(b) /\ Len(b) \in Nat
      BY <1>1, <2>0, BodyCases
    <3> QED BY <1>2, <3>1, ItemTyped, ItemSound
  <2> HIDE DEF r
  <2>3. r.st = "ok" /\ q.st = "ok"
    <3> HIDE DEF q
    <3> QED BY <2>1
  <2>4. r.rest \in Seq(Byte) /\ Len(r.rest) < Len(b)
    BY <2>2, <2>3, ShorterIs
  <2>5. Sound(q.val, len, d)
    BY <2>3, <2>4 DEF Accepts
  <2>6. Body(g, b, len, d).val = Join(r.val, q.val)
    <3> HIDE DEF q
    <3> QED BY <2>1, <2>3, OkIs
  <2> QED BY <2>2, <2>3, <2>5, <2>6, SoundJoin
<1> QED BY <1>3, <1>4

\* Whatever bytes Deserialize accepts, what it returns can be written again
\* and read again.
LEMMA DeserializeSound ==
  ASSUME NEW b \in Seq(Byte), NEW len \in Nat, NEW d \in Nat, d <= MaxNesting,
         Deserialize[<<b, len, d>>].st = "ok"
  PROVE  Sound(Deserialize[<<b, len, d>>].val, len, d)
<1> DEFINE D == Seq(Byte)
           depth == [x \in D |-> Len(x)]
           Good(x, l, k) ==
             k <= MaxNesting /\ Deserialize[<<x, l, k>>].st = "ok" => Sound(Deserialize[<<x, l, k>>].val, l, k)
           P == {x \in D : \A l \in Nat, k \in Nat : Good(x, l, k)}
<1>1. ASSUME NEW x \in D, \A y \in D : depth[y] < depth[x] => y \in P PROVE x \in P
  <2>1. Reads(Deserialize, Len(x)) /\ Accepts(Deserialize, Len(x))
    BY <1>1, DeserializeIs DEF Reads, Accepts
  <2>2. ASSUME NEW l \in Nat, NEW k \in Nat, k <= MaxNesting, Deserialize[<<x, l, k>>].st = "ok"
        PROVE  Sound(Deserialize[<<x, l, k>>].val, l, k)
    <3>1. Deserialize[<<x, l, k>>] = Body(Deserialize, x, l, k)
      BY DeserializeIs
    <3> QED BY <2>1, <2>2, <3>1, BodySound
  <2> QED BY <2>2
<1>2. depth \in [D -> Nat]
  BY StringIs
<1> HIDE DEF P, depth, D
<1>3. Inductive(D, depth, P)
  BY <1>1, <1>2 DEF Inductive
<1>4. b \in P
  BY <1>3, SizeInduction DEF D
<1> QED BY <1>4 DEF P

-----------------------------------------------------------------------------
(***************************************************************************)
(* Sorted orders are unique.                                               *)
(***************************************************************************)

\* Of two different strings one is less.
LEMMA LessTotal ==
  ASSUME NEW s \in Seq(Nat), NEW t \in Seq(Nat), s # t
  PROVE  Less(s, t) \/ Less(t, s)
<1> DEFINE n == Len(s)
           m == Len(t)
           Bad == {i \in Nat : /\ i >= 1
                               /\ \/ i <= n /\ i <= m /\ s[i] # t[i]
                                  \/ i = n + 1 /\ i <= m
                                  \/ i = m + 1 /\ i <= n}
<1>1. /\ \A j \in 1..n : s[j] \in Nat
      /\ \A j \in 1..m : t[j] \in Nat
      /\ DOMAIN s = 1..n /\ DOMAIN t = 1..m
      /\ n \in Nat /\ m \in Nat
  OBVIOUS
<1>2. n = m => \E j \in 1..n : s[j] # t[j]
  BY SameList
<1> HIDE DEF n, m
<1>3. Bad # {}
  <2>1. CASE n = m
    <3>1. PICK j \in 1..n : s[j] # t[j]
      BY <1>2, <2>1
    <3>2. j \in Bad
      BY <1>1, <2>1, <3>1
    <3> QED BY <3>2
  <2>2. CASE n < m
    <3>1. n + 1 \in Bad
      BY <1>1, <2>2
    <3> QED BY <3>1
  <2>3. CASE m < n
    <3>1. m + 1 \in Bad
      BY <1>1, <2>3
    <3> QED BY <3>1
  <2> QED BY <1>1, <2>1, <2>2, <2>3
<1>4. PICK i \in Bad : \A j \in Bad : i <= j
  BY <1>3, Least
<1>5. i \in Nat /\ i >= 1 /\ i <= n + 1 /\ i <= m + 1
  BY <1>1
<1>6. ASSUME NEW j \in 1..(i - 1) PROVE j <= n /\ j <= m /\ s[j] = t[j]
  <2>1. j \in Nat /\ j >= 1 /\ j < i
    BY <1>5
  <2>2. j <= n /\ j <= m
    BY <1>1, <1>5, <2>1
  <2>3. j \notin Bad
    BY <1>4, <1>5, <2>1
  <2> QED BY <2>1, <2>2, <2>3
<1>7. ASSUME i <= m, i > n \/ s[i] < t[i] PROVE Less(s, t)
  <2>1. i \in 1..m
    BY <1>1, <1>5, <1>7
  <2> QED BY <1>1, <1>6, <1>7, <2>1 DEF Less, n, m
<1>8. ASSUME i <= n, i > m \/ t[i] < s[i] PROVE Less(t, s)
  <2>1. i \in 1..n
    BY <1>1, <1>5, <1>8
  <2> QED BY <1>1, <1>6, <1>8, <2>1 DEF Less, n, m
<1>9. CASE i <= n /\ i <= m /\ s[i] # t[i]
  <2>1. i \in 1..n /\ i \in 1..m
    BY <1>1, <1>5, <1>9
  <2>2. s[i] \in Nat /\ t[i] \in Nat
    BY <1>1, <2>1
  <2>3. s[i] < t[i] \/ t[i] < s[i]
    BY <1>9, <2>2
  <2> QED BY <1>7, <1>8, <1>9, <2>3
<1>10. CASE i = n + 1 /\ i <= m
  BY <1>1, <1>7, <1>10
<1>11. CASE i = m + 1 /\ i <= n
  BY <1>1, <1>8, <1>11
<1> QED BY <1>9, <1>10, <1>11

\* No element less than one before it.
Rising(x) == \A i, j \in DOMAIN x : i < j => ~Less(x[j], x[i])

\* Pigeonhole.
LEMMA Squeezed ==
  ASSUME NEW i \in Nat, i >= 1, NEW f \in [1..i -> 1..(i - 1)]
  PROVE  \E j, k \in 1..i : j # k /\ f[j] = f[k]
<1> DEFINE S == 1..i
           T == 1..(i - 1)
<1>1. i - 1 \in Int /\ 1 \in Int /\ i \in Int
  OBVIOUS
<1>2. IsFiniteSet(S) /\ Cardinality(S) = IF 1 > i THEN 0 ELSE i - 1 + 1
  BY <1>1, FS_Interval
<1>3. IsFiniteSet(T) /\ Cardinality(T) = IF 1 > i - 1 THEN 0 ELSE (i - 1) - 1 + 1
  BY <1>1, FS_Interval
<1>4. Cardinality(T) < Cardinality(S) /\ f \in [S -> T]
  BY <1>2, <1>3
<1> HIDE DEF S, T
<1>5. \E j, k \in S : j # k /\ f[j] = f[k]
  BY <1>2, <1>3, <1>4, FS_PigeonHole
<1> QED BY <1>5 DEF S

\* y is an arrangement of x.
LEMMA NotBelow ==
  ASSUME NEW n \in Nat, NEW x \in [1..n -> Seq(Nat)], NEW y \in [1..n -> Seq(Nat)],
         NEW p \in Bijection(1..n, 1..n), \A k \in 1..n : y[k] = x[p[k]],
         Rising(x), Rising(y), NEW i \in 1..n, Less(y[i], x[i])
  PROVE  FALSE
<1> DEFINE f == [k \in 1..i |-> p[k]]
<1>0. i \in Nat /\ i >= 1 /\ i <= n /\ 1..i \subseteq 1..n /\ DOMAIN x = 1..n /\ DOMAIN y = 1..n
  OBVIOUS
<1>1. /\ p \in [1..n -> 1..n]
      /\ \A j, k \in 1..n : p[j] = p[k] => j = k
  BY DEF Bijection, Injection, IsInjective
<1>2. ASSUME NEW k \in 1..i PROVE p[k] \in 1..(i - 1)
  <2>1. k \in 1..n /\ p[k] \in 1..n /\ k <= i
    BY <1>0, <1>1
  <2>2. ~Less(y[i], y[k])
    <3>1. CASE k = i
      BY <3>1, LessIrreflexive
    <3>2. CASE k < i
      BY <1>0, <2>1, <3>2 DEF Rising
    <3> QED BY <1>0, <2>1, <3>1, <3>2
  <2>3. CASE p[k] < i
    BY <1>0, <2>1, <2>3
  <2>4. CASE p[k] = i
    BY <2>1, <2>2, <2>4
  <2>5. CASE i < p[k]
    <3> DEFINE a == x[i]
               b == y[k]
               c == y[i]
    <3>1. a \in Seq(Nat) /\ b \in Seq(Nat) /\ c \in Seq(Nat)
      BY <1>0, <2>1
    <3>2. ~Less(b, a)
      BY <1>0, <2>1, <2>5 DEF Rising
    <3>3. ~Less(c, b) /\ Less(c, a)
      BY <2>2
    <3> HIDE DEF a, b, c
    <3>4. a = b \/ Less(a, b)
      BY <3>1, <3>2, LessTotal
    <3>5. b = c \/ Less(b, c)
      BY <3>1, <3>3, LessTotal
    <3>6. Less(c, b)
      BY <3>1, <3>3, <3>4, LessTransitive
    <3> QED BY <3>3, <3>6
  <2> QED BY <1>0, <2>1, <2>3, <2>4, <2>5
<1>3. f \in [1..i -> 1..(i - 1)]
  BY <1>2
<1> HIDE DEF f
<1>6. PICK j, k \in 1..i : j # k /\ f[j] = f[k]
  BY <1>0, <1>3, Squeezed
<1>7. p[j] = p[k] /\ j \in 1..n /\ k \in 1..n
  BY <1>0, <1>6 DEF f
<1> QED BY <1>1, <1>6, <1>7

\* p arranges the elements of s as u.
Moves(D, p, s, u) ==
  /\ p \in [D -> D]
  /\ \A j, k \in D : p[j] = p[k] => j = k
  /\ \A k \in D : \E j \in D : p[j] = k
  /\ u = [i \in D |-> s[p[i]]]

\* Permuted, without Bijection.
LEMMA MovesIs ==
  ASSUME NEW s, NEW u
  PROVE  Permuted(s, u) <=> \E p : Moves(DOMAIN s, p, s, u)
BY DEF Permuted, Moves, Bijection, Injection, Surjection, IsInjective

\* Permuted is symmetric.
LEMMA PermutedBack ==
  ASSUME NEW S, NEW s \in Seq(S), NEW u, Permuted(s, u)
  PROVE  Permuted(u, s)
<1> DEFINE D == DOMAIN s
<1>1. PICK p : Moves(D, p, s, u)
  BY MovesIs
<1>2. u \in Seq(S) /\ DOMAIN u = D
  BY PermutedIs
<1>3. s = [i \in D |-> s[i]]
  OBVIOUS
<1> HIDE DEF D
<1> DEFINE q == [k \in D |-> CHOOSE j \in D : p[j] = k]
<1>4. \A k \in D : q[k] \in D /\ p[q[k]] = k
  BY <1>1 DEF Moves
<1>5. q \in [D -> D]
  BY <1>4
<1> HIDE DEF q
<1>6. \A j, k \in D : q[j] = q[k] => j = k
  BY <1>4
<1>7. \A k \in D : \E j \in D : q[j] = k
  <2> SUFFICES ASSUME NEW k \in D PROVE \E j \in D : q[j] = k
    OBVIOUS
  <2>1. p[k] \in D /\ q[p[k]] = k
    BY <1>1, <1>4 DEF Moves
  <2> QED BY <2>1
<1>8. s = [i \in D |-> u[q[i]]]
  <2>1. \A i \in D : u[q[i]] = s[i]
    BY <1>1, <1>4 DEF Moves
  <2> QED BY <1>3, <2>1
<1>9. Moves(D, q, u, s)
  BY <1>5, <1>6, <1>7, <1>8 DEF Moves
<1> QED BY <1>2, <1>9, MovesIs

\* Permuted is transitive.
LEMMA PermutedTwice ==
  ASSUME NEW S, NEW s \in Seq(S), NEW u, NEW v, Permuted(s, u), Permuted(u, v)
  PROVE  Permuted(s, v)
<1> DEFINE D == DOMAIN s
<1>1. PICK p : Moves(D, p, s, u)
  BY MovesIs
<1>2. u \in Seq(S) /\ DOMAIN u = D
  BY PermutedIs
<1>3. PICK q : Moves(D, q, u, v)
  BY <1>2, MovesIs
<1> HIDE DEF D
<1> DEFINE r == [i \in D |-> p[q[i]]]
<1>4. r \in [D -> D]
  BY <1>1, <1>3 DEF Moves
<1>5. \A j, k \in D : r[j] = r[k] => j = k
  BY <1>1, <1>3 DEF Moves
<1>6. \A k \in D : \E j \in D : r[j] = k
  <2> SUFFICES ASSUME NEW k \in D PROVE \E j \in D : r[j] = k
    OBVIOUS
  <2>1. PICK i \in D : p[i] = k
    BY <1>1 DEF Moves
  <2>2. PICK j \in D : q[j] = i
    BY <1>3 DEF Moves
  <2> QED BY <2>1, <2>2
<1>7. v = [i \in D |-> s[r[i]]]
  BY <1>1, <1>3 DEF Moves
<1> HIDE DEF r
<1>8. Moves(D, r, s, v)
  BY <1>4, <1>5, <1>6, <1>7 DEF Moves
<1> QED BY <1>8, MovesIs DEF D

\* Reversing a sequence permutes it.
LEMMA ReversePermuted ==
  ASSUME NEW S, NEW s \in Seq(S)
  PROVE  Permuted(s, Reverse(s)) /\ Reverse(s) \in Seq(S)
<1> DEFINE n == Len(s)
           D == DOMAIN s
           p == [i \in D |-> (n - i) + 1]
<1>1. n \in Nat /\ D = 1..n
  OBVIOUS
<1> HIDE DEF n, D
<1>2. \A i \in D : (n - i) + 1 \in D /\ (n - ((n - i) + 1)) + 1 = i
  BY <1>1
<1>3. p \in [D -> D]
  BY <1>2
<1>4. \A j, k \in D : p[j] = p[k] => j = k
  BY <1>1
<1>5. \A k \in D : \E j \in D : p[j] = k
  BY <1>2
<1>6. Reverse(s) = [i \in D |-> s[p[i]]]
  BY <1>1 DEF Reverse, n
<1> HIDE DEF p
<1>7. Permuted(s, Reverse(s))
  <2>1. Moves(D, p, s, Reverse(s))
    BY <1>3, <1>4, <1>5, <1>6 DEF Moves
  <2> QED BY <2>1, MovesIs DEF D
<1> QED BY <1>7, PermutedIs

\* There is one sorted order of strings.
LEMMA SortedOnce ==
  ASSUME NEW x \in Seq(Seq(Nat)), NEW y, Permuted(x, y), Rising(x), Rising(y)
  PROVE  x = y
<1> DEFINE Q == Seq(Nat)
           n == Len(x)
<1>0. y \in Seq(Q) /\ Len(y) = n /\ Permuted(y, x)
  BY PermutedIs, PermutedBack
<1>1. n \in Nat /\ x \in [1..n -> Q] /\ y \in [1..n -> Q] /\ DOMAIN x = 1..n /\ DOMAIN y = 1..n
  BY <1>0
<1>2. PICK p \in Bijection(1..n, 1..n) : y = [i \in 1..n |-> x[p[i]]]
  BY <1>1 DEF Permuted
<1>3. PICK q \in Bijection(1..n, 1..n) : x = [i \in 1..n |-> y[q[i]]]
  <2>1. PICK q \in Bijection(DOMAIN y, DOMAIN y) : x = [i \in DOMAIN y |-> y[q[i]]]
    BY <1>0 DEF Permuted
  <2>2. DOMAIN y = 1..n
    BY <1>1
  <2> HIDE DEF n
  <2> QED BY <2>1, <2>2
<1> HIDE DEF n
<1>4. ASSUME NEW i \in 1..n PROVE x[i] = y[i]
  <2>1. ~Less(y[i], x[i])
    <3>1. \A k \in 1..n : y[k] = x[p[k]]
      BY <1>2
    <3> QED BY <1>1, <3>1, NotBelow
  <2>2. ~Less(x[i], y[i])
    <3>1. \A k \in 1..n : x[k] = y[q[k]]
      BY <1>3
    <3> QED BY <1>1, <3>1, NotBelow
  <2>3. x[i] \in Seq(Nat) /\ y[i] \in Seq(Nat)
    BY <1>1
  <2> QED BY <2>1, <2>2, <2>3, LessTotal
<1> HIDE DEF Q
<1> QED BY <1>1, <1>4

\* The elements of u are in the order of their keys.
RisingBy(K, u) == \A i, j \in DOMAIN u : i < j => ~Less(K[u[j]], K[u[i]])

\* K maps S to strings.
Keys(S, K) == \A e \in S : K[e] \in Seq(Nat)

\* Two sorted orders of the same elements have the same keys at the same
\* places.
LEMMA KeySorted ==
  ASSUME NEW S, NEW K, Keys(S, K), NEW u \in Seq(S), NEW w, Permuted(u, w),
         RisingBy(K, u), RisingBy(K, w)
  PROVE  \A i \in DOMAIN u : K[u[i]] = K[w[i]]
<1> DEFINE Q == Seq(Nat)
           D == DOMAIN u
           x == [i \in D |-> K[u[i]]]
           y == [i \in D |-> K[w[i]]]
<1>1. w \in Seq(S) /\ DOMAIN w = D /\ D = 1..Len(u) /\ Len(u) \in Nat
  BY PermutedIs
<1>2. PICK p : Moves(D, p, u, w)
  BY MovesIs
<1>3. \A i \in D : u[i] \in S /\ w[i] \in S
  BY <1>1
<1> HIDE DEF Q
<1>4. \A e \in S : K[e] \in Q
  BY DEF Q, Keys
<1>5. x \in [1..Len(u) -> Q]
  BY <1>1, <1>3, <1>4
<1>6. x \in Seq(Q) /\ DOMAIN x = D
  BY <1>1, <1>5
<1>7. y = [i \in D |-> x[p[i]]]
  BY <1>2 DEF Moves
<1>8. Moves(D, p, x, y)
  BY <1>2, <1>7 DEF Moves
<1>9. Rising(x) /\ Rising(y)
  BY <1>1 DEF Rising, RisingBy
<1> HIDE DEF x, y, D
<1>10. Permuted(x, y)
  BY <1>6, <1>8, MovesIs
<1>11. x = y
  BY <1>6, <1>9, <1>10, SortedOnce DEF Q
<1> QED BY <1>11 DEF x, y, D

\* A concatenation determines its parts, if the lengths are known.
LEMMA SameConcat ==
  ASSUME NEW a \in Seq(Nat), NEW b \in Seq(Nat), NEW c \in Seq(Nat), NEW d \in Seq(Nat),
         Len(a) = Len(b), a \o c = b \o d
  PROVE  a = b /\ c = d
<1>1. Len(c) = Len(d) /\ Len(a) \in Nat /\ Len(c) \in Nat
  <2>1. Len(a \o c) = Len(a) + Len(c) /\ Len(b \o d) = Len(b) + Len(d)
    BY ListConcat
  <2>2. Len(a) \in Nat /\ Len(c) \in Nat /\ Len(d) \in Nat
    OBVIOUS
  <2> QED BY <2>1, <2>2
<1>2. \A i \in 1..Len(a) : a[i] = b[i]
  <2> SUFFICES ASSUME NEW i \in 1..Len(a) PROVE a[i] = b[i]
    OBVIOUS
  <2>1. i \in 1..(Len(a) + Len(c)) /\ i <= Len(a)
    BY <1>1
  <2>2. (a \o c)[i] = a[i] /\ (b \o d)[i] = b[i]
    BY <1>1, <2>1, ListAt
  <2> QED BY <2>2
<1>3. \A i \in 1..Len(c) : c[i] = d[i]
  <2> SUFFICES ASSUME NEW i \in 1..Len(c) PROVE c[i] = d[i]
    OBVIOUS
  <2> DEFINE k == Len(a) + i
  <2>1. k \in 1..(Len(a) + Len(c)) /\ ~(k <= Len(a)) /\ k - Len(a) = i
    BY <1>1
  <2> HIDE DEF k
  <2>2. (a \o c)[k] = c[i]
    BY <2>1, ListAt
  <2>3. k \in 1..(Len(b) + Len(d)) /\ ~(k <= Len(b)) /\ k - Len(b) = i
    BY <1>1, <2>1
  <2>4. (b \o d)[k] = d[i]
    BY <2>3, ListAt
  <2> QED BY <2>2, <2>4
<1> QED BY <1>1, <1>2, <1>3, SameList

\* Nothing else comes between the arrangements that SortAttestations may choose.
LEMMA AttestationsOnce ==
  ASSUME NEW s \in Seq(Attestation), NEW v, Permuted(s, v)
  PROVE  SortAttestations(s) = SortAttestations(v)
<1> DEFINE S == Attestation
           K == [a \in S |-> a.tag \o a.val]
           u == SortAttestations(s)
           w == SortAttestations(v)
<1>1. \A a \in S : a.tag \in Seq(Nat) /\ a.val \in Seq(Nat) /\ Len(a.tag) = 2 /\ a = [tag |-> a.tag, val |-> a.val]
  <2>1. \A a \in S : a.tag \in Seq(Nat) /\ a.val \in Seq(Nat)
    BY ByteNat DEF Attestation, Bytes
  <2> QED BY <2>1, AttestationIs
<1> HIDE DEF S
<1>2. Keys(S, K)
  <2> SUFFICES ASSUME NEW a \in S PROVE a.tag \o a.val \in Seq(Nat)
    BY DEF Keys
  <2> QED BY <1>1, ListConcat
<1>3. ASSUME NEW a \in S, NEW b \in S, K[a] = K[b] PROVE a = b
  <2> DEFINE at == a.tag
             av == a.val
             bt == b.tag
             bv == b.val
  <2>1. /\ at \in Seq(Nat) /\ av \in Seq(Nat) /\ bt \in Seq(Nat) /\ bv \in Seq(Nat)
        /\ Len(at) = Len(bt) /\ at \o av = bt \o bv
    BY <1>1, <1>3
  <2>2. a = [tag |-> at, val |-> av] /\ b = [tag |-> bt, val |-> bv]
    BY <1>1
  <2> HIDE DEF at, av, bt, bv
  <2>3. at = bt /\ av = bv
    BY <2>1, SameConcat
  <2> QED BY <2>2, <2>3
<1>4. \A a, b \in S : AttestationLess(a, b) <=> Less(K[a], K[b])
  BY DEF AttestationLess
<1>5. v \in Seq(S) /\ s \in Seq(S)
  BY PermutedIs DEF S
<1>6. /\ Permuted(s, u) /\ \A i, j \in DOMAIN s : i < j => ~AttestationLess(u[j], u[i])
  BY SortAttestationsIs
<1>7. /\ Permuted(v, w) /\ \A i, j \in DOMAIN v : i < j => ~AttestationLess(w[j], w[i])
  BY <1>5, SortAttestationsIs DEF S
<1> HIDE DEF u, w, K
<1>8. Permuted(u, w)
  <2>1. u \in Seq(S) /\ Permuted(u, s)
    BY <1>5, <1>6, PermutedIs, PermutedBack
  <2>2. Permuted(u, v)
    BY <2>1, PermutedTwice
  <2> QED BY <1>7, <2>1, <2>2, PermutedTwice
<1>9. u \in Seq(S) /\ w \in Seq(S) /\ DOMAIN u = DOMAIN s /\ DOMAIN w = DOMAIN v /\ Len(u) = Len(w)
  <2>1. u \in Seq(S) /\ DOMAIN u = DOMAIN s
    BY <1>5, <1>6, PermutedIs
  <2>2. w \in Seq(S) /\ DOMAIN w = DOMAIN v
    BY <1>5, <1>7, PermutedIs
  <2>3. Len(u) = Len(w)
    BY <1>8, <2>1, PermutedIs
  <2> QED BY <2>1, <2>2, <2>3
<1>10. \A i \in DOMAIN u : u[i] \in S
  BY <1>9
<1>11. \A i \in DOMAIN w : w[i] \in S
  BY <1>9
<1>12. \A i \in DOMAIN u : K[u[i]] = K[w[i]]
  <2>1. RisingBy(K, u)
    BY <1>4, <1>6, <1>9, <1>10 DEF RisingBy
  <2>2. RisingBy(K, w)
    BY <1>4, <1>7, <1>9, <1>11 DEF RisingBy
  <2> QED BY <1>2, <1>8, <1>9, <2>1, <2>2, KeySorted
<1>13. DOMAIN u = 1..Len(u) /\ DOMAIN w = 1..Len(u)
  BY <1>9
<1>14. \A i \in 1..Len(u) : u[i] = w[i]
  BY <1>3, <1>10, <1>11, <1>12, <1>13
<1>15. u = w
  BY <1>9, <1>14, SameList
<1> QED BY <1>15 DEF u, w

\* No two elements are under one op.
OneEach(s) == \A i, j \in DOMAIN s : s[i].op = s[j].op => i = j

\* The edges of s are in the order of their ops.
OpRising(s) == \A i, j \in DOMAIN s : i < j => ~OpLess(s[j], s[i])

\* The key of an op is a string.
LEMMA OpKey ==
  ASSUME NEW o \in Op
  PROVE  <<o.tag>> \in Seq(Nat) /\ o.arg \in Seq(Nat) /\ Len(<<o.tag>>) = 1 /\ <<o.tag>>[1] = o.tag
         /\ <<o.tag>> \o o.arg \in Seq(Nat)
<1>1. o.tag \in Nat /\ o.arg \in Seq(Nat)
  BY OpIs, ByteNat
<1>2. <<o.tag>> \in Seq(Nat) /\ Len(<<o.tag>>) = 1 /\ <<o.tag>>[1] = o.tag
  BY <1>1, PushItem
<1> QED BY <1>1, <1>2, ListConcat

\* Different ops have different keys.
LEMMA OpKeyOnce ==
  ASSUME NEW o \in Op, NEW q \in Op, <<o.tag>> \o o.arg = <<q.tag>> \o q.arg
  PROVE  o = q
<1> DEFINE a == <<o.tag>>
           b == <<q.tag>>
           c == o.arg
           d == q.arg
<1>1. /\ a \in Seq(Nat) /\ b \in Seq(Nat) /\ c \in Seq(Nat) /\ d \in Seq(Nat)
      /\ Len(a) = Len(b) /\ a \o c = b \o d
  BY OpKey
<1>2. a = b => o.tag = q.tag
  BY OpKey
<1>3. o = [tag |-> o.tag, arg |-> o.arg] /\ q = [tag |-> q.tag, arg |-> q.arg]
  BY OpIs
<1> HIDE DEF a, b, c, d
<1>4. a = b /\ c = d
  BY <1>1, SameConcat
<1>5. o.tag = q.tag /\ o.arg = q.arg
  BY <1>2, <1>4 DEF c, d
<1> QED BY <1>3, <1>5

\* sort.Slice has one way to sort edges, if no two are under one op.
LEMMA OpsOnce ==
  ASSUME NEW X, NEW u \in Seq([op : Op, stamp : X]), NEW w, Permuted(u, w),
         OpRising(u), OpRising(w), OneEach(u)
  PROVE  u = w
<1> DEFINE S == [op : Op, stamp : X]
           K == [e \in S |-> <<e.op.tag>> \o e.op.arg]
           D == DOMAIN u
<1>1. \A e \in S : e.op \in Op
  OBVIOUS
<1>2. u \in Seq(S) /\ w \in Seq(S) /\ DOMAIN w = D /\ Len(w) = Len(u) /\ D = 1..Len(u)
  BY PermutedIs
<1> HIDE DEF S
<1>3. Keys(S, K)
  BY <1>1, OpKey DEF Keys
<1>4. \A e, f \in S : K[e] = K[f] => e.op = f.op
  BY <1>1, OpKeyOnce
<1>5. \A e, f \in S : OpLess(e, f) <=> Less(K[e], K[f])
  BY DEF OpLess
<1> HIDE DEF K
<1>6. \A i \in D : u[i] \in S /\ w[i] \in S
  BY <1>2
<1>7. RisingBy(K, u) /\ RisingBy(K, w)
  BY <1>2, <1>5, <1>6 DEF RisingBy, OpRising
<1>8. \A i \in D : K[u[i]] = K[w[i]]
  BY <1>2, <1>3, <1>7, KeySorted
<1>9. PICK p : Moves(D, p, u, w)
  BY MovesIs
<1>10. \A i \in D : p[i] \in D /\ w[i] = u[p[i]]
  BY <1>9 DEF Moves
<1>11. \A i \in D : u[i] = w[i]
  <2> SUFFICES ASSUME NEW i \in D PROVE u[i] = w[i]
    OBVIOUS
  <2>1. u[i].op = u[p[i]].op
    BY <1>4, <1>6, <1>8, <1>10
  <2>2. i = p[i]
    BY <1>10, <2>1 DEF OneEach
  <2> QED BY <1>10, <2>2
<1> QED BY <1>2, <1>11, SameList

\* The edges of s with their children replaced, in the same order.
LEMMA MappedRising ==
  ASSUME NEW S, NEW s \in Seq(S), NEW g
  PROVE  /\ OpRising(s) => OpRising(Mapped(s, g))
         /\ OneEach(s) => OneEach(Mapped(s, g))
<1>1. DOMAIN Mapped(s, g) = DOMAIN s /\ \A i \in DOMAIN s : Mapped(s, g)[i].op = s[i].op
  BY DEF Mapped
<1>2. \A i, j \in DOMAIN s : OpLess(Mapped(s, g)[j], Mapped(s, g)[i]) <=> OpLess(s[j], s[i])
  BY <1>1 DEF OpLess
<1> QED BY <1>1, <1>2 DEF OpRising, OneEach

\* Replacing children before or after putting edges in another order.
LEMMA MappedPermuted ==
  ASSUME NEW S, NEW s \in Seq(S), NEW u, Permuted(s, u), NEW g
  PROVE  Permuted(Mapped(s, g), Mapped(u, g))
<1>1. PICK p : Moves(DOMAIN s, p, s, u)
  BY MovesIs
<1>2. DOMAIN u = DOMAIN s
  BY PermutedIs
<1>3. DOMAIN Mapped(s, g) = DOMAIN s /\ DOMAIN Mapped(u, g) = DOMAIN s
  BY <1>2 DEF Mapped
<1>4. \A i \in DOMAIN s : p[i] \in DOMAIN s /\ u[i] = s[p[i]]
  BY <1>1 DEF Moves
<1>5. Mapped(u, g) = [i \in DOMAIN s |-> Mapped(s, g)[p[i]]]
  BY <1>2, <1>4 DEF Mapped
<1>6. Moves(DOMAIN s, p, Mapped(s, g), Mapped(u, g))
  BY <1>1, <1>5 DEF Moves
<1> QED BY <1>3, <1>6, MovesIs

-----------------------------------------------------------------------------
(***************************************************************************)
(* Serialize does not depend on the order of items.                        *)
(***************************************************************************)

\* u has t's attestations and t's edges, the children replaced by g's, in
\* whatever order.
Reordered(t, u, g) == Permuted(t.atts, u.atts) /\ Permuted(Mapped(t.ops, g), u.ops)

\* The children that g puts in place are written as the ones they replace.
LEMMA MappedItems ==
  ASSUME NEW s, NEW g, \A i \in DOMAIN s : Serialize[g[s[i].stamp]] = Serialize[s[i].stamp]
  PROVE  OpItems(Mapped(s, g), Serialize) = OpItems(s, Serialize)
<1>1. DOMAIN Mapped(s, g) = DOMAIN s
      /\ \A i \in DOMAIN s : Mapped(s, g)[i].op = s[i].op /\ Mapped(s, g)[i].stamp = g[s[i].stamp]
  BY DEF Mapped
<1>2. \A i \in DOMAIN s : OpItem(Mapped(s, g)[i], Serialize) = OpItem(s[i], Serialize)
  BY <1>1 DEF OpItem
<1> QED BY <1>1, <1>2 DEF OpItems

\* Sorting edges before or after replacing their children.
LEMMA SortedOps ==
  ASSUME NEW s \in Seq(Edge), OneEach(s), NEW g, \A x \in Stamp : g[x] \in Stamp,
         NEW v, Permuted(Mapped(s, g), v)
  PROVE  SortOps(v) = Mapped(SortOps(s), g)
<1> DEFINE r == SortOps(s)
           m == Mapped(s, g)
           w == SortOps(v)
           q == Mapped(r, g)
<1>1. /\ m \in Seq(Edge) /\ OneEach(m)
  BY MapTyped, MappedRising DEF Edge
<1>2. Permuted(s, r) /\ OpRising(r) /\ r \in Seq(Edge)
  <2>1. /\ Permuted(s, r)
        /\ \A i, j \in DOMAIN s : i < j => ~OpLess(r[j], r[i])
    BY SortOpsIs DEF Edge
  <2>2. r \in Seq(Edge) /\ DOMAIN r = DOMAIN s
    BY <2>1, PermutedIs
  <2> QED BY <2>1, <2>2 DEF OpRising
<1>3. v \in Seq(Edge)
  BY <1>1, PermutedIs
<1>4. Permuted(v, w) /\ OpRising(w) /\ w \in Seq(Edge)
  <2>1. /\ Permuted(v, w)
        /\ \A i, j \in DOMAIN v : i < j => ~OpLess(w[j], w[i])
    BY <1>3, SortOpsIs DEF Edge
  <2>2. w \in Seq(Edge) /\ DOMAIN w = DOMAIN v
    BY <1>3, <2>1, PermutedIs
  <2> QED BY <2>1, <2>2 DEF OpRising
<1>5. q \in Seq(Edge) /\ OpRising(q) /\ Permuted(m, q)
  <2>1. q \in Seq(Edge)
    BY <1>2, MapTyped DEF Edge
  <2>2. OpRising(q)
    BY <1>2, MappedRising
  <2>3. Permuted(m, q)
    BY <1>2, MappedPermuted
  <2> QED BY <2>1, <2>2, <2>3
<1>6. OneEach(q)
  <2>1. OneEach(r)
    <3>1. PICK p : Moves(DOMAIN s, p, s, r)
      BY <1>2, MovesIs
    <3>2. DOMAIN r = DOMAIN s
      BY <1>2, PermutedIs
    <3> QED BY <3>1, <3>2 DEF Moves, OneEach
  <2> QED BY <1>2, <2>1, MappedRising
<1> HIDE DEF r, m, w, q
<1>7. Permuted(q, w)
  <2>1. Permuted(q, m)
    BY <1>1, <1>5, PermutedBack
  <2>2. Permuted(m, v)
    BY DEF m
  <2>3. Permuted(q, v)
    BY <1>5, <2>1, <2>2, PermutedTwice
  <2> QED BY <1>4, <1>5, <2>3, PermutedTwice
<1>8. q = w
  BY <1>4, <1>5, <1>6, <1>7, OpsOnce DEF Edge
<1> QED BY <1>8 DEF q, w, r

\* Serialize does not depend on the order the items of a node were added in.
LEMMA ReorderedBytes ==
  ASSUME NEW t \in Stamp, NEW u \in Stamp, Apart(t), NEW g, \A x \in Stamp : g[x] \in Stamp,
         Reordered(t, u, g), \A e \in Kids(t) : Serialize[g[e.stamp]] = Serialize[e.stamp]
  PROVE  Serialize[u] = Serialize[t]
<1> DEFINE r == SortOps(t.ops)
<1>1. t.atts \in Seq(Attestation) /\ t.ops \in Seq(Edge) /\ OneEach(t.ops)
  BY StampIs DEF Apart, OneEach
<1>2. SortAttestations(u.atts) = SortAttestations(t.atts)
  BY <1>1, AttestationsOnce DEF Reordered
<1>3. SortOps(u.ops) = Mapped(r, g)
  BY <1>1, SortedOps DEF Reordered
<1>4. \A i \in DOMAIN r : Serialize[g[r[i].stamp]] = Serialize[r[i].stamp]
  <2>1. Permuted(t.ops, r)
    BY <1>1, SortOpsIs DEF Edge
  <2>2. \A i \in DOMAIN r : r[i] \in Kids(t)
    BY <1>1, <2>1, PermutedIs DEF Kids
  <2> QED BY <2>2
<1>5. OpItems(Mapped(r, g), Serialize) = OpItems(r, Serialize)
  BY <1>4, MappedItems
<1>6. Layout(SortNode(u), Serialize) = Layout(SortNode(t), Serialize)
  BY <1>2, <1>3, <1>5 DEF Layout, SortNode
<1> QED BY <1>6, SerializeIs

\* t with its items in the opposite order.
Turned(t) == [atts |-> Reverse(t.atts), ops |-> Reverse(t.ops)]

\* Turned keeps the edges.
LEMMA TurnedIs ==
  ASSUME NEW t \in Stamp
  PROVE  Turned(t) \in Lists(Kids(t))
<1> DEFINE K == Kids(t)
           s == t.ops
<1>1. t.atts \in Seq(Attestation) /\ s \in Seq(Edge)
  BY StampIs
<1>2. Reverse(t.atts) \in Seq(Attestation)
  BY <1>1, ReversePermuted
<1>3. Len(s) \in Nat /\ DOMAIN s = 1..Len(s) /\ s = [i \in 1..Len(s) |-> s[i]]
  BY <1>1
<1>4. \A i \in 1..Len(s) : s[i] \in K
  BY <1>3 DEF Kids
<1> HIDE DEF K
<1>5. s \in [1..Len(s) -> K]
  BY <1>3, <1>4
<1>6. s \in Seq(K)
  BY <1>3, <1>5
<1>7. Reverse(s) \in Seq(K)
  BY <1>6, ReversePermuted
<1> QED BY <1>2, <1>7 DEF Turned, Lists, K

\* A node of Reversed.
LEMMA TurnedMapped ==
  ASSUME NEW t \in Stamp, NEW g
  PROVE  Renewed(Turned(t), g) =
           [atts |-> Reverse(t.atts),
            ops  |-> Reverse([i \in DOMAIN t.ops |-> [t.ops[i] EXCEPT !.stamp = g[@]]])]
<1> DEFINE s == t.ops
           m == [i \in DOMAIN s |-> [s[i] EXCEPT !.stamp = g[@]]]
<1>1. s \in Seq(Edge)
  BY StampIs
<1>2. \A i \in DOMAIN s : [s[i] EXCEPT !.stamp = g[@]] = [op |-> s[i].op, stamp |-> g[s[i].stamp]]
  <2> SUFFICES ASSUME NEW i \in DOMAIN s
               PROVE  [s[i] EXCEPT !.stamp = g[@]] = [op |-> s[i].op, stamp |-> g[s[i].stamp]]
    OBVIOUS
  <2>1. s[i] \in [op : Op, stamp : Stamp]
    BY ChildLevel DEF Edge
  <2> QED BY <2>1
<1>3. m = Mapped(s, g)
  BY <1>2 DEF Mapped
<1>4. Mapped(Reverse(s), g) = Reverse(Mapped(s, g))
  <2>1. Len(s) \in Nat /\ DOMAIN s = 1..Len(s)
    BY <1>1
  <2>2. Len(Mapped(s, g)) = Len(s) /\ \A i \in 1..Len(s) : Mapped(s, g)[i] = [op |-> s[i].op, stamp |-> g[s[i].stamp]]
    BY <2>1 DEF Mapped
  <2>3. DOMAIN Reverse(s) = 1..Len(s) /\ \A i \in 1..Len(s) : Reverse(s)[i] = s[(Len(s) - i) + 1]
    BY DEF Reverse
  <2>4. \A i \in 1..Len(s) : (Len(s) - i) + 1 \in 1..Len(s)
    BY <2>1
  <2>5. Mapped(Reverse(s), g) = [i \in 1..Len(s) |-> Mapped(s, g)[(Len(s) - i) + 1]]
    BY <2>2, <2>3, <2>4 DEF Mapped
  <2> QED BY <2>2, <2>5 DEF Reverse
<1> QED BY <1>3, <1>4 DEF Renewed, Turned

\* Reversed is the function its definition says.
LEMMA ReversedIs ==
  \A t \in Stamp : Reversed[t] = Renewed(Turned(t), Reversed) /\ Reversed[t] \in Stamp
<1> DEFINE N == [t \in Stamp |-> Turned(t)]
           B(t, g) == [atts |-> Reverse(t.atts),
                       ops  |-> Reverse([i \in DOMAIN t.ops |-> [t.ops[i] EXCEPT !.stamp = g[@]]])]
<1>1. Rearranges(N)
  BY TurnedIs DEF Rearranges
<1>2. PICK h : MapsBy(h, N)
  <2> HIDE DEF N
  <2> QED BY <1>1, TreeMap
<1>3. \A t \in Stamp : \A g : Renewed(N[t], g) = B(t, g)
  BY TurnedMapped
<1>4. h = [t \in Stamp |-> B(t, h)]
  <2> HIDE DEF B, N
  <2> QED BY <1>2, <1>3 DEF MapsBy
<1>5. Reversed = [t \in Stamp |-> B(t, Reversed)]
  <2> HIDE DEF B
  <2> QED BY <1>4 DEF Reversed, B
<1>6. MapsBy(Reversed, N)
  <2> HIDE DEF B, N
  <2> QED BY <1>3, <1>5 DEF MapsBy
<1>7. \A t \in Stamp : N[t] = Turned(t)
  OBVIOUS
<1> HIDE DEF N
<1> QED BY <1>1, <1>6, <1>7, TreeMapIs

\* A node with its items in another order and its children replaced.
LEMMA RenewedReordered ==
  ASSUME NEW t \in Stamp, NEW m, Permuted(t.atts, m.atts), Permuted(t.ops, m.ops), NEW g
  PROVE  Reordered(t, Renewed(m, g), g)
<1>1. t.ops \in Seq(Edge)
  BY StampIs
<1>2. Permuted(Mapped(t.ops, g), Mapped(m.ops, g))
  BY <1>1, MappedPermuted
<1> QED BY <1>2 DEF Reordered, Renewed

\* g rearranges the items of every node.
Shuffles(g) ==
  \A t \in Stamp : g[t] \in Stamp /\ Reordered(t, g[t], g)

\* Sorting all nodes rearranges every node.
LEMMA NormalShuffles == Shuffles(Normal)
<1> SUFFICES ASSUME NEW t \in Stamp PROVE Normal[t] \in Stamp /\ Reordered(t, Normal[t], Normal)
  BY DEF Shuffles
<1>1. Permuted(t.atts, SortNode(t).atts) /\ Permuted(t.ops, SortNode(t).ops)
  BY SortNodeIs
<1> QED BY <1>1, NormalIs, RenewedReordered

\* So does reversing them.
LEMMA ReversedShuffles == Shuffles(Reversed)
<1> SUFFICES ASSUME NEW t \in Stamp PROVE Reversed[t] \in Stamp /\ Reordered(t, Reversed[t], Reversed)
  BY DEF Shuffles
<1>1. Permuted(t.atts, Turned(t).atts) /\ Permuted(t.ops, Turned(t).ops)
  BY StampIs, ReversePermuted DEF Turned
<1> QED BY <1>1, ReversedIs, RenewedReordered

\* Serialize writes the same bytes of a tree in whatever order its nodes were
\* put together, if no node has two edges under one op.
LEMMA ShuffledBytes ==
  ASSUME NEW g, Shuffles(g)
  PROVE  \A t \in Stamp : Distinct[t] => Serialize[g[t]] = Serialize[t]
<1> DEFINE D == Stamp
           depth == [t \in D |-> Level(t)]
           P == {t \in D : Distinct[t] => Serialize[g[t]] = Serialize[t]}
<1>1. depth \in [D -> Nat]
  BY LevelRange
<1>2. ASSUME NEW t \in D, \A y \in D : depth[y] < depth[t] => y \in P PROVE t \in P
  <2> SUFFICES ASSUME Distinct[t] PROVE Serialize[g[t]] = Serialize[t]
    OBVIOUS
  <2>1. Apart(t) /\ \A i \in DOMAIN t.ops : Distinct[t.ops[i].stamp]
    BY DistinctIs
  <2>2. \A e \in Kids(t) : e.stamp \in D /\ depth[e.stamp] < depth[t] /\ Distinct[e.stamp]
    BY <2>1, KidsIs DEF Kids
  <2>3. \A e \in Kids(t) : Serialize[g[e.stamp]] = Serialize[e.stamp]
    BY <1>2, <2>2
  <2>4. \A x \in Stamp : g[x] \in Stamp
    BY DEF Shuffles
  <2>5. Reordered(t, g[t], g)
    BY DEF Shuffles
  <2> QED BY <2>1, <2>3, <2>4, <2>5, ReorderedBytes
<1> HIDE DEF P, depth, D
<1>3. Inductive(D, depth, P)
  BY <1>1, <1>2 DEF Inductive
<1>4. \A t \in D : t \in P
  BY <1>3, SizeInduction
<1> QED BY <1>4 DEF P, D
=============================================================================
