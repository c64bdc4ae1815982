----------------------------- MODULE WireProofs -----------------------------
(***************************************************************************)
(* Lemmas about Wire, for any sizes of the format: what each reader        *)
(* returns for whatever bytes, for the bytes its writer wrote, and for     *)
(* those bytes cut short.                                                  *)
(*                                                                         *)
(* They rest on induction over the length of the bytes (SizeInduction),    *)
(* and on the fact that a recursive definition that goes down in length    *)
(* defines a function (RecursiveFunction).                                 *)
(***************************************************************************)
EXTENDS Wire, WellFoundedInduction, TLAPS

-----------------------------------------------------------------------------
(***************************************************************************)
(* Induction and recursion over data.                                      *)
(***************************************************************************)

\* A nonempty set of naturals has a least element.
LEMMA Least ==
  ASSUME NEW T, T \subseteq Nat, T # {}
  PROVE  \E m \in T : \A k \in T : m <= k
<1> DEFINE R == OpToRel(<, Nat)
<1>1. IsWellFoundedOn(R, Nat)
  BY NatLessThanWellFounded
<1> HIDE DEF R
<1>2. PICK m \in T : \A y \in T : ~ (<<y, m>> \in R)
  BY <1>1, WFMin
<1>3. \A x, y \in Nat : x < y => <<x, y>> \in R
  BY DEF R, OpToRel
<1>4. ASSUME NEW k \in T PROVE m <= k
  <2>1. ~(k < m)
    BY <1>2, <1>3
  <2>2. k \in Int /\ m \in Int
    OBVIOUS
  <2> QED BY <2>1, <2>2
<1> QED BY <1>4

\* P holds at x if it holds at everything smaller; size measures x.
Inductive(D, size, P) ==
  /\ size \in [D -> Nat]
  /\ \A x \in D : (\A y \in D : size[y] < size[x] => y \in P) => x \in P

\* Induction over data: on the length of the bytes, the depth of a tree.
LEMMA SizeInduction ==
  ASSUME NEW D, NEW size, NEW P, Inductive(D, size, P)
  PROVE  \A x \in D : x \in P
<1> DEFINE Bad == {b \in Nat : \E x \in D : size[x] = b /\ x \notin P}
<1>1. size \in [D -> Nat]
  BY DEF Inductive
<1>2. SUFFICES ASSUME Bad # {} PROVE FALSE
  BY <1>1
<1>3. PICK b \in Bad : \A c \in Bad : b <= c
  BY <1>2, Least
<1>4. PICK x \in D : size[x] = b /\ x \notin P
  BY <1>3
<1>5. ASSUME NEW y \in D, size[y] < size[x] PROVE y \in P
  <2>1. size[y] \in Nat /\ size[x] \in Nat /\ ~(b <= size[y])
    BY <1>1, <1>4, <1>5
  <2>2. size[y] \notin Bad
    BY <1>3, <2>1
  <2> QED BY <2>1, <2>2
<1> QED BY <1>4, <1>5 DEF Inductive

\* step only asks its function argument about smaller values.
Local(D, G, size, step) ==
  \A x \in D, g, h \in G :
    (\A y \in D : size[y] < size[x] => g[y] = h[y]) => step[<<x, g>>] = step[<<x, h>>]

\* The functions on D with values in S, that of x in T[x].
Typed(D, S, T) == {g \in [D -> S] : \A x \in D : g[x] \in T[x]}

\* A definition f[x] == step of x and f that goes down in size, with typed
\* values.
Recursion(D, S, T, size, step) ==
  /\ size \in [D -> Nat]
  /\ T \in [D -> SUBSET S] /\ \A x \in D : T[x] # {}
  /\ step \in [D \X Typed(D, S, T) -> S]
  /\ \A x \in D, g \in Typed(D, S, T) : step[<<x, g>>] \in T[x]
  /\ Local(D, Typed(D, S, T), size, step)

\* The same, with values in S everywhere.
PlainRecursion(D, S, size, step) ==
  /\ S # {}
  /\ size \in [D -> Nat]
  /\ step \in [D \X [D -> S] -> S]
  /\ Local(D, [D -> S], size, step)

\* Such a definition defines a function: CHOOSE has something to choose.
LEMMA RecursiveFunction ==
  ASSUME NEW D, NEW S, NEW T, NEW size, NEW step, Recursion(D, S, T, size, step)
  PROVE  \E f \in Typed(D, S, T) : \A x \in D : f[x] = step[<<x, f>>]
<1> DEFINE G == Typed(D, S, T)
<1>a. /\ size \in [D -> Nat] /\ T \in [D -> SUBSET S] /\ \A x \in D : T[x] # {}
      /\ G = {g \in [D -> S] : \A x \in D : g[x] \in T[x]}
      /\ step \in [D \X G -> S] /\ \A x \in D, g \in G : step[<<x, g>>] \in T[x]
      /\ \A x \in D, g, h \in G :
           (\A y \in D : size[y] < size[x] => g[y] = h[y]) => step[<<x, g>>] = step[<<x, h>>]
  BY DEF Recursion, Typed, Local
<1> HIDE DEF G
<1> USE <1>a
<1> DEFINE Approx(n, h) == h \in G /\ \A x \in D : size[x] < n => h[x] = step[<<x, h>>]
<1>1. ASSUME NEW n \in Nat, NEW m \in Nat, n <= m, NEW h, Approx(n, h), NEW k, Approx(m, k)
      PROVE  \A x \in D : size[x] < n => h[x] = k[x]
  <2> DEFINE Bad == {b \in Nat : \E y \in D : size[y] = b /\ size[y] < n /\ h[y] # k[y]}
  <2>1. SUFFICES ASSUME Bad # {} PROVE FALSE
    OBVIOUS
  <2>2. Bad \subseteq Nat
    OBVIOUS
  <2>3. PICK b \in Bad : \A c \in Bad : b <= c
    BY <2>1, <2>2, Least
  <2>4. PICK x \in D : size[x] = b /\ size[x] < n /\ h[x] # k[x]
    BY <2>3
  <2>5. ASSUME NEW y \in D, size[y] < size[x] PROVE h[y] = k[y]
    <3>1. size[y] \in Nat /\ size[x] \in Nat /\ size[y] < n
      BY <2>4, <2>5
    <3>2. ~(b <= size[y])
      BY <2>4, <2>5, <3>1
    <3>3. size[y] \notin Bad
      BY <2>3, <3>2
    <3> QED BY <3>1, <3>3
  <2>6. step[<<x, h>>] = step[<<x, k>>]
    BY <2>5, <1>1
  <2>7. size[x] \in Nat /\ size[x] < m
    BY <2>4, <1>1
  <2> QED BY <2>4, <2>6, <2>7, <1>1
<1>2. \A n \in Nat : \E h : Approx(n, h)
  <2> DEFINE Bad == {n \in Nat : \A h : ~Approx(n, h)}
  <2>1. SUFFICES ASSUME Bad # {} PROVE FALSE
    OBVIOUS
  <2>2. PICK n \in Bad : \A c \in Bad : n <= c
    BY <2>1, Least
  <2>3. CASE n = 0
    <3> DEFINE h == [x \in D |-> CHOOSE v \in T[x] : TRUE]
    <3>1. \A x \in D : h[x] \in T[x]
      OBVIOUS
    <3>2. h \in [D -> S]
      BY <3>1
    <3>3. Approx(0, h)
      BY <3>1, <3>2
    <3> QED BY <3>3, <2>3
  <2>4. CASE n # 0
    <3>0. n \in Nat /\ n - 1 \in Nat /\ ~(n <= n - 1)
      BY <2>4
    <3>1. n - 1 \in Nat /\ n - 1 \notin Bad
      BY <2>2, <3>0
    <3>2. PICK h : Approx(n - 1, h)
      BY <3>1
    <3> DEFINE k == [x \in D |-> IF size[x] < n THEN step[<<x, h>>] ELSE h[x]]
    <3>3. k \in G
      <4>1. \A x \in D : k[x] \in T[x]
        BY <3>2
      <4>2. k \in [D -> S]
        BY <4>1
      <4> QED BY <4>1, <4>2
    <3>4. \A y \in D : size[y] < n - 1 => k[y] = h[y]
      BY <3>2
    <3>5. ASSUME NEW x \in D, size[x] < n PROVE k[x] = step[<<x, k>>]
      <4>1. \A y \in D : size[y] < size[x] => size[y] < n - 1
        BY <3>0, <3>5
      <4>2. \A y \in D : size[y] < size[x] => k[y] = h[y]
        BY <3>4, <4>1
      <4>3. k[x] = step[<<x, h>>]
        BY <3>5
      <4> HIDE DEF k
      <4>4. step[<<x, k>>] = step[<<x, h>>]
        BY <4>2, <3>2, <3>3
      <4> QED BY <4>3, <4>4
    <3>6. Approx(n, k)
      BY <3>3, <3>5
    <3> QED BY <3>6
  <2> QED BY <2>3, <2>4
<1> DEFINE a(x) == CHOOSE h : Approx(size[x] + 1, h)
<1>3. ASSUME NEW x \in D PROVE Approx(size[x] + 1, a(x))
  <2>1. size[x] + 1 \in Nat
    OBVIOUS
  <2>2. \E h : Approx(size[x] + 1, h)
    BY <2>1, <1>2
  <2> HIDE DEF Approx
  <2> QED BY <2>2
<1> DEFINE f == [x \in D |-> a(x)[x]]
<1> HIDE DEF Approx, a
<1>4. f \in G
  <2>1. \A x \in D : a(x)[x] \in T[x]
    BY <1>3 DEF Approx
  <2>2. f \in [D -> S]
    BY <2>1
  <2> QED BY <2>1, <2>2
<1>5. ASSUME NEW x \in D PROVE f[x] = step[<<x, f>>]
  <2>1. ASSUME NEW y \in D, size[y] < size[x] PROVE f[y] = a(x)[y]
    <3>1. Approx(size[y] + 1, a(y)) /\ Approx(size[x] + 1, a(x))
      BY <1>3
    <3>2. size[y] + 1 \in Nat /\ size[x] + 1 \in Nat /\ size[y] + 1 <= size[x] + 1 /\ size[y] < size[y] + 1
      BY <2>1
    <3>3. a(y)[y] = a(x)[y]
      BY <1>1, <3>1, <3>2
    <3> QED BY <3>3
  <2>2. step[<<x, f>>] = step[<<x, a(x)>>]
    <3>1. a(x) \in G
      BY <1>3 DEF Approx
    <3> HIDE DEF f
    <3> QED BY <2>1, <1>4, <3>1
  <2>3. a(x)[x] = step[<<x, a(x)>>]
    <3>1. size[x] < size[x] + 1
      OBVIOUS
    <3>2. Approx(size[x] + 1, a(x))
      BY <1>3
    <3> QED BY <3>1, <3>2 DEF Approx
  <2> QED BY <2>2, <2>3
<1> HIDE DEF f
<1> QED BY <1>4, <1>5 DEF G

\* The same with values in S everywhere.
LEMMA SimpleRecursion ==
  ASSUME NEW D, NEW S, NEW size, NEW step, PlainRecursion(D, S, size, step)
  PROVE  \E f \in [D -> S] : \A x \in D : f[x] = step[<<x, f>>]
<1> DEFINE T == [x \in D |-> S]
<1> USE DEF PlainRecursion
<1>1. Typed(D, S, T) = [D -> S]
  BY DEF Typed
<1>2. T \in [D -> SUBSET S] /\ \A x \in D : T[x] = S
  OBVIOUS
<1>3. \A x \in D, g \in [D -> S] : step[<<x, g>>] \in T[x]
  BY <1>2
<1> HIDE DEF T
<1>4. Recursion(D, S, T, size, step)
  BY <1>1, <1>2, <1>3 DEF Recursion
<1>5. \E f \in Typed(D, S, T) : \A x \in D : f[x] = step[<<x, f>>]
  BY <1>4, RecursiveFunction
<1> QED BY <1>1, <1>5

\* An element in front of a sequence.
LEMMA Prepended ==
  ASSUME NEW S, NEW x \in S, NEW s \in Seq(S)
  PROVE  /\ <<x>> \in Seq(S) /\ Len(<<x>>) = 1
         /\ <<x>> \o s \in Seq(S) /\ Len(<<x>> \o s) = 1 + Len(s)
         /\ (<<x>> \o s)[1] = x /\ Tail(<<x>> \o s) = s /\ <<x>> \o s # <<>>
OBVIOUS

\* The byte e in front of s.
Push(e, s) == <<e>> \o s

\* Pushing a byte, and taking it off.
LEMMA PushIs ==
  ASSUME NEW e \in Byte, NEW s \in Seq(Byte)
  PROVE  /\ Push(e, s) \in Seq(Byte) /\ Len(Push(e, s)) = 1 + Len(s) /\ Push(e, s) # <<>>
         /\ Push(e, s)[1] = e /\ Tail(Push(e, s)) = s
BY DEF Push

\* A string that is not empty is a byte in front of another.
LEMMA PopIs ==
  ASSUME NEW b \in Seq(Byte), b # <<>>
  PROVE  /\ b[1] \in Byte /\ Tail(b) \in Seq(Byte) /\ b = Push(b[1], Tail(b))
         /\ Len(Tail(b)) = Len(b) - 1 /\ Len(b) \in Nat
BY DEF Push

\* The empty string and lengths.
LEMMA StringIs ==
  /\ <<>> \in Seq(Byte) /\ Len(<<>>) = 0
  /\ \A a \in Seq(Byte) : Len(a) \in Nat /\ (a = <<>> <=> Len(a) = 0)
  /\ \A a \in Seq(Byte) : <<>> \o a = a /\ a \o <<>> = a
OBVIOUS

\* Bytes followed by bytes are bytes, and lengths add up.
LEMMA ConcatIs ==
  ASSUME NEW a \in Seq(Byte), NEW b \in Seq(Byte)
  PROVE  a \o b \in Seq(Byte) /\ Len(a \o b) = Len(a) + Len(b)
OBVIOUS

\* Concatenation is associative.
LEMMA ConcatAssoc ==
  ASSUME NEW a \in Seq(Byte), NEW b \in Seq(Byte), NEW c \in Seq(Byte)
  PROVE  (a \o b) \o c = a \o (b \o c)
OBVIOUS

\* Strings with the same bytes are the same.
LEMMA SameString ==
  ASSUME NEW a \in Seq(Byte), NEW b \in Seq(Byte), Len(a) = Len(b),
         \A i \in 1..Len(a) : a[i] = b[i]
  PROVE  a = b
OBVIOUS

\* The bytes of a concatenation.
LEMMA ConcatAt ==
  ASSUME NEW a \in Seq(Byte), NEW b \in Seq(Byte), NEW i \in 1..(Len(a) + Len(b))
  PROVE  (a \o b)[i] = IF i <= Len(a) THEN a[i] ELSE b[i - Len(a)]
OBVIOUS

\* A string made up of the bytes of two others is their concatenation.
LEMMA IsConcat ==
  ASSUME NEW x \in Seq(Byte), NEW a \in Seq(Byte), NEW b \in Seq(Byte),
         Len(x) = Len(a) + Len(b),
         \A i \in 1..Len(a) : x[i] = a[i],
         \A i \in 1..Len(b) : x[Len(a) + i] = b[i]
  PROVE  x = a \o b
<1>1. a \o b \in Seq(Byte) /\ Len(a \o b) = Len(a) + Len(b) /\ Len(a) \in Nat /\ Len(b) \in Nat
  BY ConcatIs
<1>2. ASSUME NEW i \in 1..Len(x) PROVE x[i] = (a \o b)[i]
  <2>1. (a \o b)[i] = IF i <= Len(a) THEN a[i] ELSE b[i - Len(a)]
    BY ConcatAt
  <2>2. CASE i <= Len(a)
    BY <1>1, <2>1, <2>2
  <2>3. CASE ~(i <= Len(a))
    <3>1. i - Len(a) \in 1..Len(b) /\ Len(a) + (i - Len(a)) = i
      BY <1>1, <2>3
    <3> DEFINE j == i - Len(a)
    <3>2. j \in 1..Len(b) /\ Len(a) + j = i
      BY <3>1
    <3> HIDE DEF j
    <3>3. x[i] = b[j]
      BY <3>2
    <3> QED BY <2>1, <2>3, <3>3 DEF j
  <2> QED BY <2>2, <2>3
<1> DEFINE y == a \o b
<1>3. y \in Seq(Byte) /\ Len(x) = Len(y) /\ \A i \in 1..Len(x) : x[i] = y[i]
  BY <1>1, <1>2
<1> HIDE DEF y
<1>4. x = y
  BY <1>3, SameString
<1> QED BY <1>4 DEF y

\* What follows a known prefix is determined.
LEMMA SameTail ==
  ASSUME NEW a \in Seq(Byte), NEW b \in Seq(Byte), NEW c \in Seq(Byte), a \o b = a \o c
  PROVE  b = c
OBVIOUS

\* A pushed byte stays in front.
LEMMA PushConcat ==
  ASSUME NEW e \in Byte, NEW s \in Seq(Byte), NEW t \in Seq(Byte)
  PROVE  Push(e, s) \o t = Push(e, s \o t)
<1> DEFINE x == <<e>>
<1>1. x \in Seq(Byte)
  OBVIOUS
<1> HIDE DEF x
<1>2. (x \o s) \o t = x \o (s \o t)
  BY <1>1, ConcatAssoc
<1> QED BY <1>2 DEF x, Push

\* Pushing is injective.
LEMMA PushOne ==
  ASSUME NEW e \in Byte, NEW s \in Seq(Byte), NEW f \in Byte, NEW t \in Seq(Byte),
         Push(e, s) = Push(f, t)
  PROVE  e = f /\ s = t
<1>1. Push(e, s)[1] = e /\ Tail(Push(e, s)) = s
  BY PushIs
<1>2. Push(f, t)[1] = f /\ Tail(Push(f, t)) = t
  BY PushIs
<1> QED BY <1>1, <1>2

\* b is w with something missing at its end, which is c: a response cut short.
Cut(w, b, c) ==
  b \in Seq(Byte) /\ c \in Seq(Byte) /\ c # <<>> /\ w = b \o c

\* A cut string either is empty or keeps the first byte.
LEMMA CutPush ==
  ASSUME NEW e \in Byte, NEW s \in Seq(Byte), NEW b, NEW c, Cut(Push(e, s), b, c), b # <<>>
  PROVE  \E t \in Seq(Byte) : b = Push(e, t) /\ Cut(s, t, c)
<1> USE DEF Cut
<1> DEFINE t == Tail(b)
           f == b[1]
<1>1. b = Push(f, t) /\ t \in Seq(Byte) /\ f \in Byte
  BY PopIs
<1> HIDE DEF t, f
<1>2. t \o c \in Seq(Byte)
  BY <1>1, ConcatIs
<1>3. Push(f, t) \o c = Push(f, t \o c)
  BY <1>1, PushConcat
<1>4. Push(e, s) = Push(f, t \o c)
  BY <1>1, <1>3
<1> HIDE DEF Cut
<1>5. f = e /\ t \o c = s
  <2> DEFINE u == t \o c
  <2>1. u \in Seq(Byte) /\ Push(e, s) = Push(f, u)
    BY <1>2, <1>4
  <2> HIDE DEF u
  <2>2. e = f /\ s = u
    BY <1>1, <2>1, PushOne
  <2> QED BY <2>2 DEF u
<1> QED BY <1>1, <1>5 DEF Cut

\* Of a single byte nothing is left.
LEMMA CutOne ==
  ASSUME NEW e \in Byte, NEW b, NEW c, Cut(Push(e, <<>>), b, c)
  PROVE  b = <<>>
<1>1. SUFFICES ASSUME b # <<>> PROVE FALSE
  OBVIOUS
<1>2. PICK t \in Seq(Byte) : b = Push(e, t) /\ Cut(<<>>, t, c)
  BY <1>1, CutPush, StringIs
<1>3. t \in Seq(Byte) /\ c \in Seq(Byte) /\ c # <<>> /\ Len(t \o c) = 0
  BY <1>2, StringIs DEF Cut
<1>4. Len(c) # 0 /\ Len(c) \in Nat /\ Len(t) \in Nat
  BY <1>3, StringIs
<1> QED BY <1>3, <1>4, ConcatIs

\* The sizes of the format, as the proofs below use them.
LEMMA Sizes == Group \in Nat /\ Group >= 4 /\ Word \in Nat /\ Group <= Word /\ Word # 0
<1>1. Group \in Nat /\ Group >= 4 /\ Word \in Nat /\ Group <= Word
  BY SizesAssumption
<1> QED BY <1>1

\* A value within a word is not reduced.
LEMMA SmallMod ==
  ASSUME NEW w \in Nat, NEW y \in Nat, y < w
  PROVE  y % w = y
OBVIOUS

\* A byte is a number, and one below Group fits in a word.
LEMMA ByteIs ==
  ASSUME NEW x \in Byte
  PROVE  x \in Nat /\ (x < Group => x \in 0..(Word - 1))
BY Sizes DEF Byte

\* A number is its groups of seven bits, and each of them fits in a byte.
LEMMA DivMod ==
  ASSUME NEW v \in Nat
  PROVE  /\ v \div Group \in Nat /\ v % Group \in 0..(Group - 1)
         /\ v = Group * (v \div Group) + (v % Group)
         /\ v >= Group => v \div Group < v
         /\ (Group + (v % Group)) % Group = v % Group
         /\ v < Group => v \in Byte
         /\ Group + (v % Group) \in Byte
BY SizesAssumption DEF Byte

\* WriteVarUint is the function its definition says, and it writes bytes.
LEMMA WriteVarUintIs ==
  /\ WriteVarUint \in [Nat -> Seq(Byte)]
  /\ \A v \in Nat : WriteVarUint[v] = IF v < Group THEN <<v>>
                                      ELSE <<Group + (v % Group)>> \o WriteVarUint[v \div Group]
<1> DEFINE S == Seq(Byte)
           B(v, g) == IF v < Group THEN <<v>> ELSE <<Group + (v % Group)>> \o g[v \div Group]
           size == [v \in Nat |-> v]
           step == [p \in Nat \X [Nat -> S] |-> B(p[1], p[2])]
<1>1. \A v \in Nat, g \in [Nat -> S] : B(v, g) \in S
  BY DivMod
<1>2. ASSUME NEW v \in Nat, NEW g \in [Nat -> S], NEW h \in [Nat -> S],
             \A y \in Nat : size[y] < size[v] => g[y] = h[y]
      PROVE  step[<<v, g>>] = step[<<v, h>>]
  <2>1. B(v, g) = B(v, h)
    <3>1. CASE v < Group
      BY <3>1
    <3>2. CASE ~(v < Group)
      <4>1. v \div Group \in Nat /\ v \div Group < v
        <5>1. v >= Group
          BY <3>2, SizesAssumption
        <5> QED BY <5>1, DivMod
      <4> QED BY <4>1, <1>2
    <3> QED BY <3>1, <3>2
  <2> HIDE DEF B
  <2> QED BY <2>1
<1>3. step \in [Nat \X [Nat -> S] -> S]
  <2> HIDE DEF B
  <2> QED BY <1>1
<1>4. S # {} /\ size \in [Nat -> Nat]
  <2>1. <<>> \in S
    OBVIOUS
  <2> QED BY <2>1
<1>5. PICK g \in [Nat -> S] : \A v \in Nat : g[v] = step[<<v, g>>]
  <2>1. Local(Nat, [Nat -> S], size, step)
    <3> HIDE DEF S, size, step
    <3> QED BY <1>2 DEF Local
  <2> HIDE DEF S, size, step
  <2>2. PlainRecursion(Nat, S, size, step)
    BY <2>1, <1>3, <1>4 DEF PlainRecursion
  <2> QED BY <2>2, SimpleRecursion
<1>6. \A v \in Nat : g[v] = B(v, g)
  <2> HIDE DEF B, S
  <2> QED BY <1>5
<1>7. g = [v \in Nat |-> B(v, g)]
  <2> HIDE DEF B, S
  <2> QED BY <1>5, <1>6
<1>8. WriteVarUint = [v \in Nat |-> B(v, WriteVarUint)]
  BY <1>7 DEF WriteVarUint
<1>9. \A v \in Nat : WriteVarUint[v] = B(v, WriteVarUint)
  <2> HIDE DEF B
  <2> QED BY <1>8
<1>10. \A v \in Nat : WriteVarUint[v] \in S
  <2> DEFINE P == {v \in Nat : WriteVarUint[v] \in S}
  <2>1. ASSUME NEW v \in Nat, \A y \in Nat : size[y] < size[v] => y \in P PROVE v \in P
    <3>1. CASE v < Group
      <4>1. WriteVarUint[v] = <<v>> /\ v \in Byte
        BY <3>1, <1>9, DivMod
      <4>2. WriteVarUint[v] \in Seq(Byte)
        BY <4>1
      <4> QED BY <4>2
    <3>2. CASE ~(v < Group)
      <4>1. v >= Group
        BY <3>2, SizesAssumption
      <4>2. v \div Group \in Nat /\ v \div Group < v /\ Group + (v % Group) \in Byte
        BY <4>1, DivMod
      <4>3. WriteVarUint[v \div Group] \in S
        BY <4>2, <2>1
      <4>4. WriteVarUint[v] = <<Group + (v % Group)>> \o WriteVarUint[v \div Group]
        BY <1>9, <3>2
      <4> HIDE DEF S, B
      <4>5. WriteVarUint[v] \in Seq(Byte)
        BY <4>2, <4>3, <4>4, Prepended DEF S
      <4> QED BY <4>5 DEF S
    <3> QED BY <3>1, <3>2
  <2> HIDE DEF P, size
  <2>2. Inductive(Nat, size, P)
    BY <2>1, <1>4 DEF Inductive
  <2>3. \A v \in Nat : v \in P
    BY <2>2, SizeInduction
  <2> QED BY <2>3 DEF P
<1>11. WriteVarUint \in [Nat -> S]
  <2> HIDE DEF B
  <2> QED BY <1>8, <1>10
<1> QED BY <1>9, <1>11

\* What a reader returns: a value and the bytes left, an error or a panic.
LEMMA ResultIs ==
  ASSUME NEW S, NEW r \in Results(S)
  PROVE  /\ r.st = "ok" => r.val \in S /\ r.rest \in Seq(Byte) /\ r = Ok(r.val, r.rest)
         /\ r.st # "ok" => r \in {Failed, Panicked}
BY DEF Results, Ok, Failed, Panicked

\* The fields of a successful result.
LEMMA OkIs ==
  ASSUME NEW v, NEW rest
  PROVE  /\ Ok(v, rest).st = "ok" /\ Ok(v, rest).val = v /\ Ok(v, rest).rest = rest
         /\ \A S : v \in S /\ rest \in Seq(Byte) => Ok(v, rest) \in Results(S)
BY DEF Results, Ok

\* An error is neither a success nor a panic.
LEMMA FailedIs ==
  /\ Failed.st = "error" /\ Panicked.st = "panic" /\ Failed # Panicked
  /\ \A S : Failed \in Results(S) /\ Panicked \in Results(S)
BY DEF Results, Failed, Panicked

\* ReadVarUint is the function its definition says, and what it reads fits in
\* a word.
LEMMA ReadVarUintIs ==
  /\ ReadVarUint \in [Seq(Byte) -> Results(0..(Word - 1))]
  /\ \A b \in Seq(Byte) :
       LET r == ReadVarUint[Tail(b)]
       IN  ReadVarUint[b] =
             IF b = <<>> THEN Failed
             ELSE IF b[1] < Group THEN Ok(b[1], Tail(b))
             ELSE IF r.st = "ok" THEN Ok(((b[1] % Group) + Group * r.val) % Word, r.rest)
             ELSE r
<1> DEFINE D == Seq(Byte)
           S == Results(0..(Word - 1))
           B(b, g) == IF b = <<>> THEN Failed
                      ELSE LET High(r) == IF r.st = "ok"
                                          THEN Ok(((b[1] % Group) + Group * r.val) % Word, r.rest)
                                          ELSE r
                           IN  IF b[1] < Group THEN Ok(b[1], Tail(b)) ELSE High(g[Tail(b)])
           size == [b \in D |-> Len(b)]
           step == [p \in D \X [D -> S] |-> B(p[1], p[2])]
<1>1. ASSUME NEW b \in D, NEW g, b # <<>> => g[Tail(b)] \in S PROVE B(b, g) \in S
  <2>1. CASE b = <<>>
    BY <2>1, FailedIs
  <2>2. CASE b # <<>> /\ b[1] < Group
    <3>0. b[1] \in Byte /\ Tail(b) \in Seq(Byte)
      BY <2>2
    <3>1. b[1] \in 0..(Word - 1) /\ Tail(b) \in Seq(Byte)
      BY <2>2, <3>0, ByteIs
    <3>2. Ok(b[1], Tail(b)) \in S
      BY <3>1, OkIs
    <3> QED BY <2>2, <3>2
  <2>3. CASE b # <<>> /\ ~(b[1] < Group)
    <3> DEFINE r == g[Tail(b)]
               w == ((b[1] % Group) + Group * r.val) % Word
    <3>1. r \in S
      BY <1>1, <2>3
    <3>2. CASE r.st = "ok"
      <4>1. r.val \in 0..(Word - 1) /\ r.rest \in Seq(Byte)
        BY <3>1, <3>2, ResultIs
      <4>2. b[1] \in Nat
        BY <2>3, SizesAssumption DEF Byte
      <4>3. b[1] % Group \in Nat /\ Group * r.val \in Nat
        BY <4>1, <4>2, SizesAssumption
      <4>4. w \in 0..(Word - 1)
        BY <4>3, SizesAssumption
      <4>5. Ok(w, r.rest) \in S
        BY <4>1, <4>4, OkIs
      <4> QED BY <4>5, <2>3, <3>2
    <3>3. CASE r.st # "ok"
      BY <3>1, <3>3, <2>3
    <3> QED BY <3>2, <3>3
  <2> QED BY <2>1, <2>2, <2>3
<1>2. \A b \in D : b # <<>> => Tail(b) \in D /\ size[Tail(b)] < size[b]
  OBVIOUS
<1>3. ASSUME NEW b \in D, NEW g, NEW h, b # <<>> => g[Tail(b)] = h[Tail(b)]
      PROVE  B(b, g) = B(b, h)
  BY <1>3
<1>4. size \in [D -> Nat] /\ S # {} /\ Failed \in S
  BY FailedIs
<1> HIDE DEF B, D, S, size
<1>5. step \in [D \X [D -> S] -> S]
  BY <1>1, <1>2
<1>6. \A b \in D, g \in [D -> S] : step[<<b, g>>] = B(b, g)
  OBVIOUS
<1> HIDE DEF step
<1>7. Local(D, [D -> S], size, step)
  BY <1>2, <1>3, <1>6 DEF Local
<1>8. PICK g \in [D -> S] : \A b \in D : g[b] = step[<<b, g>>]
  <2>1. PlainRecursion(D, S, size, step)
    BY <1>4, <1>5, <1>7 DEF PlainRecursion
  <2> QED BY <2>1, SimpleRecursion
<1>9. g = [b \in D |-> B(b, g)]
  BY <1>6, <1>8
<1>10. ReadVarUint = [b \in D |-> B(b, ReadVarUint)]
  BY <1>9 DEF ReadVarUint, B, D
<1>11. \A b \in D : ReadVarUint[b] \in S
  <2> DEFINE P == {b \in D : ReadVarUint[b] \in S}
  <2>1. Inductive(D, size, P)
    BY <1>1, <1>2, <1>4, <1>10 DEF Inductive
  <2> HIDE DEF P
  <2>2. \A b \in D : b \in P
    BY <2>1, SizeInduction
  <2> QED BY <2>2 DEF P
<1>12. \A b \in D : ReadVarUint[b] = B(b, ReadVarUint)
  BY <1>10
<1>13. ReadVarUint \in [D -> S]
  BY <1>10, <1>11
<1> QED BY <1>12, <1>13 DEF B, D, S

\* WriteVarUint byte by byte: the last one is below Group, the others are not.
LEMMA WriteByte ==
  ASSUME NEW v \in Nat
  PROVE  /\ WriteVarUint[v] \in Seq(Byte)
         /\ v < Group => v \in Byte /\ WriteVarUint[v] = Push(v, <<>>)
         /\ ~(v < Group) => \E q \in Nat, e \in Byte :
              /\ WriteVarUint[v] = Push(e, WriteVarUint[q]) /\ WriteVarUint[q] \in Seq(Byte)
              /\ ~(e < Group) /\ e % Group \in 0..(Group - 1)
              /\ v = Group * q + (e % Group) /\ q < v /\ q # 0
<1>1. CASE v < Group
  <2>1. WriteVarUint[v] = <<v>> /\ v \in Byte /\ WriteVarUint[v] \in Seq(Byte)
    BY <1>1, WriteVarUintIs, DivMod
  <2> QED BY <1>1, <2>1 DEF Push
<1>2. CASE ~(v < Group)
  <2> DEFINE q == v \div Group
             e == Group + (v % Group)
  <2>1. v >= Group
    BY <1>2, Sizes
  <2>2. /\ q \in Nat /\ q < v /\ e \in Byte /\ v % Group \in 0..(Group - 1)
        /\ v = Group * q + (v % Group) /\ e % Group = v % Group
    BY <2>1, DivMod
  <2>3. WriteVarUint[v] = Push(e, WriteVarUint[q])
    BY <1>2, WriteVarUintIs DEF Push
  <2>4. WriteVarUint[v] \in Seq(Byte) /\ WriteVarUint[q] \in Seq(Byte)
    BY <2>2, WriteVarUintIs
  <2>5. ~(e < Group)
    BY <2>2, Sizes
  <2>6. q # 0
    BY <2>1, <2>2, Sizes
  <2> HIDE DEF q, e
  <2> QED BY <1>2, <2>2, <2>3, <2>4, <2>5, <2>6
<1> QED BY <1>1, <1>2

\* Nothing is read from nothing.
LEMMA ReadNothing == ReadVarUint[<<>>] = Failed
<1>1. <<>> \in Seq(Byte)
  OBVIOUS
<1> QED BY <1>1, ReadVarUintIs

\* ReadVarUint byte by byte.
LEMMA ReadByte ==
  ASSUME NEW c \in Byte, NEW s \in Seq(Byte)
  PROVE  /\ c < Group => ReadVarUint[Push(c, s)] = Ok(c, s)
         /\ ~(c < Group) => ReadVarUint[Push(c, s)] =
              IF ReadVarUint[s].st = "ok"
              THEN Ok(((c % Group) + Group * ReadVarUint[s].val) % Word, ReadVarUint[s].rest)
              ELSE ReadVarUint[s]
<1> DEFINE b == Push(c, s)
<1>1. b \in Seq(Byte) /\ b # <<>> /\ b[1] = c /\ Tail(b) = s
  BY PushIs
<1> HIDE DEF b
<1>2. ReadVarUint[b] = IF b[1] < Group THEN Ok(b[1], Tail(b))
             ELSE IF ReadVarUint[Tail(b)].st = "ok"
                  THEN Ok(((b[1] % Group) + Group * ReadVarUint[Tail(b)].val) % Word, ReadVarUint[Tail(b)].rest)
             ELSE ReadVarUint[Tail(b)]
  BY <1>1, ReadVarUintIs
<1>3. ReadVarUint[b] = IF c < Group THEN Ok(c, s)
             ELSE IF ReadVarUint[s].st = "ok"
                  THEN Ok(((c % Group) + Group * ReadVarUint[s].val) % Word, ReadVarUint[s].rest)
             ELSE ReadVarUint[s]
  BY <1>1, <1>2
<1> QED BY <1>3 DEF b

\* serialize.ReadVarUint reads what WriteVarUint wrote, whatever follows.
LEMMA VarUintRoundTrip ==
  ASSUME NEW v \in 0..(Word - 1), NEW rest \in Seq(Byte)
  PROVE  ReadVarUint[WriteVarUint[v] \o rest] = Ok(v, rest)
<1> DEFINE W == WriteVarUint
           size == [u \in Nat |-> u]
           P == {u \in Nat : u < Word => ReadVarUint[W[u] \o rest] = Ok(u, rest)}
<1>1. ASSUME NEW u \in Nat, \A y \in Nat : size[y] < size[u] => y \in P PROVE u \in P
  <2>1. SUFFICES ASSUME u < Word PROVE ReadVarUint[W[u] \o rest] = Ok(u, rest)
    OBVIOUS
  <2>2. CASE u < Group
    <3>1. W[u] = Push(u, <<>>) /\ u \in Byte
      BY <2>2, WriteByte
    <3>2. W[u] \o rest = Push(u, rest)
      BY <3>1 DEF Push
    <3> QED BY <3>1, <3>2, <2>2, ReadByte
  <2>3. CASE ~(u < Group)
    <3>1. PICK q \in Nat, e \in Byte :
              /\ W[u] = Push(e, W[q]) /\ W[q] \in Seq(Byte)
              /\ ~(e < Group) /\ e % Group \in 0..(Group - 1)
              /\ u = Group * q + (e % Group) /\ q < u
      BY <2>3, WriteByte
    <3> DEFINE t == W[q] \o rest
    <3>2. W[u] \o rest = Push(e, t) /\ t \in Seq(Byte)
      BY <3>1, PushConcat, ConcatIs
    <3>3. q \in P /\ q < Word
      BY <3>1, <1>1, <2>1, Sizes
    <3>4. ReadVarUint[t] = Ok(q, rest)
      BY <3>3
    <3> HIDE DEF t
    <3>5. ReadVarUint[W[u] \o rest] = Ok(((e % Group) + Group * q) % Word, rest)
      <4>1. ReadVarUint[t].st = "ok" /\ ReadVarUint[t].val = q /\ ReadVarUint[t].rest = rest
        BY <3>4, OkIs
      <4>2. ReadVarUint[Push(e, t)] = Ok(((e % Group) + Group * q) % Word, rest)
        <5>1. ReadVarUint[Push(e, t)] =
                IF ReadVarUint[t].st = "ok"
                THEN Ok(((e % Group) + Group * ReadVarUint[t].val) % Word, ReadVarUint[t].rest)
                ELSE ReadVarUint[t]
          BY <3>1, <3>2, ReadByte
        <5> QED BY <4>1, <5>1
      <4> QED BY <3>2, <4>2
    <3>6. ((e % Group) + Group * q) % Word = u
      <4>1. (e % Group) + Group * q = u
        BY <3>1, Sizes
      <4> QED BY <4>1, <2>1, Sizes
    <3> QED BY <3>5, <3>6
  <2> QED BY <2>2, <2>3
<1> HIDE DEF P
<1>2. Inductive(Nat, size, P)
  BY <1>1 DEF Inductive
<1> HIDE DEF size
<1>3. \A u \in Nat : u \in P
  BY <1>2, SizeInduction
<1> QED BY <1>3, Sizes DEF P

\* A varint that is cut is an error: its last byte is missing.
LEMMA VarUintPrefix ==
  ASSUME NEW v \in Nat, NEW b, NEW c, Cut(WriteVarUint[v], b, c)
  PROVE  ReadVarUint[b] = Failed
<1> DEFINE W == WriteVarUint
           size == [u \in Nat |-> u]
           P == {u \in Nat : \A d : Cut(W[u], d, c) => ReadVarUint[d] = Failed}
<1>1. ASSUME NEW u \in Nat, \A y \in Nat : size[y] < size[u] => y \in P PROVE u \in P
  <2>1. SUFFICES ASSUME NEW d, Cut(W[u], d, c) PROVE ReadVarUint[d] = Failed
    OBVIOUS
  <2>2. CASE d = <<>>
    BY <2>2, ReadNothing
  <2>3. CASE d # <<>> /\ u < Group
    <3>1. W[u] = Push(u, <<>>) /\ u \in Byte
      BY <2>3, WriteByte
    <3> QED BY <2>1, <2>3, <3>1, CutOne
  <2>4. CASE d # <<>> /\ ~(u < Group)
    <3>1. PICK q \in Nat, e \in Byte :
            W[u] = Push(e, W[q]) /\ W[q] \in Seq(Byte) /\ ~(e < Group) /\ q < u
      BY <2>4, WriteByte
    <3>2. PICK t \in Seq(Byte) : d = Push(e, t) /\ Cut(W[q], t, c)
      BY <2>1, <2>4, <3>1, CutPush
    <3>3. ReadVarUint[t] = Failed
      BY <3>1, <3>2, <1>1
    <3> QED BY <3>1, <3>2, <3>3, ReadByte, FailedIs
  <2> QED BY <2>2, <2>3, <2>4
<1> HIDE DEF P
<1>2. Inductive(Nat, size, P)
  BY <1>1 DEF Inductive
<1> HIDE DEF size
<1>3. \A u \in Nat : u \in P
  BY <1>2, SizeInduction
<1> QED BY <1>3 DEF P

\* A varint that is cut and filled up with a zero byte reads as a smaller
\* number.
LEMMA VarUintFilled ==
  ASSUME NEW v \in 1..(Word - 1), NEW b, NEW c, Cut(WriteVarUint[v], b, c),
         NEW z \in Seq(Byte)
  PROVE  \E w \in 0..(v - 1) : ReadVarUint[b \o Push(0, z)] = Ok(w, z)
<1> DEFINE W == WriteVarUint
           size == [u \in Nat |-> u]
           fill == Push(0, z)
           P == {u \in Nat : u \in 1..(Word - 1) =>
                   \A d : Cut(W[u], d, c) =>
                      \E w \in 0..(u - 1) : ReadVarUint[d \o fill] = Ok(w, z)}
<1>0. 0 \in Byte /\ 0 < Group /\ fill \in Seq(Byte) /\ ReadVarUint[fill] = Ok(0, z)
  <2>1. 0 \in Byte /\ 0 < Group
    BY Sizes DEF Byte
  <2> QED BY <2>1, PushIs, ReadByte
<1> HIDE DEF fill
<1>1. ASSUME NEW u \in Nat, \A y \in Nat : size[y] < size[u] => y \in P PROVE u \in P
  <2>1. SUFFICES ASSUME u \in 1..(Word - 1), NEW d, Cut(W[u], d, c)
                 PROVE  \E w \in 0..(u - 1) : ReadVarUint[d \o fill] = Ok(w, z)
    OBVIOUS
  <2>2. CASE d = <<>>
    <3>1. d \o fill = fill
      BY <2>2, <1>0
    <3>2. 0 \in 0..(u - 1)
      BY <2>1, Sizes
    <3> QED BY <3>1, <3>2, <1>0
  <2>3. CASE d # <<>> /\ u < Group
    <3>1. W[u] = Push(u, <<>>) /\ u \in Byte
      BY <2>3, WriteByte
    <3> QED BY <2>1, <2>3, <3>1, CutOne
  <2>4. CASE d # <<>> /\ ~(u < Group)
    <3>1. PICK q \in Nat, e \in Byte :
              /\ W[u] = Push(e, W[q]) /\ W[q] \in Seq(Byte)
              /\ ~(e < Group) /\ e % Group \in 0..(Group - 1)
              /\ u = Group * q + (e % Group) /\ q < u /\ q # 0
      BY <2>4, WriteByte
    <3>2. q \in 1..(Word - 1)
      BY <3>1, <2>1, Sizes
    <3>3. PICK t \in Seq(Byte) : d = Push(e, t) /\ Cut(W[q], t, c)
      BY <2>1, <2>4, <3>1, CutPush
    <3> DEFINE more == t \o fill
    <3>4. PICK w \in 0..(q - 1) : ReadVarUint[more] = Ok(w, z)
      BY <3>1, <3>2, <3>3, <1>1
    <3>5. d \o fill = Push(e, more) /\ more \in Seq(Byte)
      BY <3>3, <1>0, PushConcat, ConcatIs
    <3> HIDE DEF more
    <3>6. ReadVarUint[d \o fill] = Ok(((e % Group) + Group * w) % Word, z)
      <4>1. ReadVarUint[more].st = "ok" /\ ReadVarUint[more].val = w /\ ReadVarUint[more].rest = z
        BY <3>4, OkIs
      <4> QED BY <3>1, <3>5, <4>1, ReadByte
    <3> DEFINE x == e % Group
    <3>7. x \in 0..(Group - 1) /\ u = Group * q + x
      BY <3>1
    <3> HIDE DEF x
    <3>8. (x + Group * w) % Word \in 0..(u - 1)
      <4>1. w \in Nat /\ w <= q - 1 /\ q \in Nat
        BY <3>2
      <4> DEFINE gw == Group * w
                 gq == Group * q
      <4>2. gw \in Nat /\ gq \in Nat /\ gw <= gq - Group
        BY <4>1, Sizes
      <4>a. u = gq + x
        BY <3>7
      <4> DEFINE y == x + gw
      <4> HIDE DEF gw, gq
      <4>3. y \in 0..(u - 1)
        BY <4>2, <4>a, <3>7, Sizes
      <4> HIDE DEF y
      <4>b. y \in Nat /\ y < Word
        BY <4>3, <2>1, Sizes
      <4>4. y % Word = y
        BY <4>b, Sizes, SmallMod
      <4> QED BY <4>3, <4>4 DEF y, gw
    <3> QED BY <3>6, <3>8 DEF x
  <2> QED BY <2>2, <2>3, <2>4
<1> HIDE DEF P
<1>2. Inductive(Nat, size, P)
  BY <1>1 DEF Inductive
<1> HIDE DEF size
<1>3. \A u \in Nat : u \in P
  BY <1>2, SizeInduction
<1>4. v \in Nat
  BY Sizes
<1> QED BY <1>3, <1>4 DEF P, fill

\* ReadVarUint consumes at least one byte.
LEMMA VarUintRest ==
  ASSUME NEW b \in Seq(Byte), ReadVarUint[b].st = "ok"
  PROVE  Len(ReadVarUint[b].rest) < Len(b)
<1> DEFINE D == Seq(Byte)
           size == [d \in D |-> Len(d)]
           P == {d \in D : ReadVarUint[d].st = "ok" => Len(ReadVarUint[d].rest) < Len(d)}
<1>1. ASSUME NEW d \in D, \A y \in D : size[y] < size[d] => y \in P PROVE d \in P
  <2>1. CASE d = <<>>
    BY <2>1, ReadVarUintIs, FailedIs
  <2>2. CASE d # <<>>
    <3> DEFINE t == Tail(d)
               e == d[1]
    <3>1. e \in Byte /\ t \in D /\ d = Push(e, t) /\ Len(t) = Len(d) - 1 /\ Len(d) \in Nat
      BY <2>2, PopIs
    <3>2. size[t] < size[d]
      BY <3>1
    <3>3. t \in P
      BY <3>1, <3>2, <1>1
    <3> HIDE DEF t, e, size
    <3>4. \/ ReadVarUint[d] = Ok(e, t)
          \/ /\ ReadVarUint[t].st = "ok"
             /\ \E w : ReadVarUint[d] = Ok(w, ReadVarUint[t].rest)
          \/ ReadVarUint[d] = ReadVarUint[t] /\ ReadVarUint[t].st # "ok"
      BY <3>1, ReadByte
    <3>5. ReadVarUint[t] \in Results(0..(Word - 1))
      BY <3>1, ReadVarUintIs
    <3>6. ReadVarUint[t].st = "ok" => Len(ReadVarUint[t].rest) \in Nat
      BY <3>5, ResultIs
    <3>7. ReadVarUint[t].st = "ok" => Len(ReadVarUint[t].rest) < Len(t)
      BY <3>3
    <3> QED BY <3>1, <3>4, <3>6, <3>7, OkIs
  <2> QED BY <2>1, <2>2
<1> HIDE DEF P
<1>2. size \in [D -> Nat]
  OBVIOUS
<1>3. Inductive(D, size, P)
  BY <1>1, <1>2 DEF Inductive
<1> HIDE DEF size, D
<1>4. \A d \in D : d \in P
  BY <1>3, SizeInduction
<1> QED BY <1>4 DEF P, D

\* A cut comes before or after the border of two strings.
LEMMA CutConcat ==
  ASSUME NEW x \in Seq(Byte), NEW y \in Seq(Byte), NEW b, NEW c, Cut(x \o y, b, c)
  PROVE  \/ \E d \in Seq(Byte) : Cut(x, b, d)
         \/ \E d \in Seq(Byte) : b = x \o d /\ Cut(y, d, c)
<1>1. /\ b \in Seq(Byte) /\ c \in Seq(Byte) /\ c # <<>> /\ x \o y = b \o c
      /\ Len(x) \in Nat /\ Len(b) \in Nat /\ Len(y) \in Nat /\ Len(c) \in Nat
      /\ Len(x) + Len(y) = Len(b) + Len(c)
  BY ConcatIs DEF Cut
<1>2. CASE Len(b) < Len(x)
  <2> DEFINE d == SubSeq(x, Len(b) + 1, Len(x))
  <2>1. d \in Seq(Byte) /\ Len(d) = Len(x) - Len(b) /\ \A i \in 1..Len(d) : d[i] = x[Len(b) + i]
    BY <1>1, <1>2
  <2>2. \A i \in 1..Len(b) : b[i] = x[i]
    <3>1. \A i \in 1..Len(b) : (b \o c)[i] = b[i] /\ (x \o y)[i] = x[i]
      BY <1>1, <1>2
    <3> QED BY <1>1, <3>1
  <2> HIDE DEF d
  <2>3. x = b \o d
    <3>1. b \in Seq(Byte) /\ Len(x) = Len(b) + Len(d)
      BY <1>1, <2>1
    <3>2. (\A i \in 1..Len(b) : x[i] = b[i]) /\ \A i \in 1..Len(d) : x[Len(b) + i] = d[i]
      BY <2>1, <2>2
    <3> QED BY <2>1, <3>1, <3>2, IsConcat
  <2>4. d # <<>>
    BY <1>1, <1>2, <2>1, StringIs
  <2> QED BY <1>1, <2>1, <2>3, <2>4 DEF Cut
<1>3. CASE ~(Len(b) < Len(x))
  <2> DEFINE d == SubSeq(b, Len(x) + 1, Len(b))
  <2>1. d \in Seq(Byte) /\ Len(d) = Len(b) - Len(x) /\ \A i \in 1..Len(d) : d[i] = b[Len(x) + i]
    BY <1>1, <1>3
  <2>2. \A i \in 1..Len(x) : b[i] = x[i]
    <3>1. \A i \in 1..Len(x) : (b \o c)[i] = b[i] /\ (x \o y)[i] = x[i]
      BY <1>1, <1>3
    <3> QED BY <1>1, <3>1
  <2> HIDE DEF d
  <2>3. b = x \o d
    <3>1. b \in Seq(Byte) /\ Len(b) = Len(x) + Len(d)
      BY <1>1, <2>1
    <3>2. (\A i \in 1..Len(x) : b[i] = x[i]) /\ \A i \in 1..Len(d) : b[Len(x) + i] = d[i]
      BY <2>1, <2>2
    <3> QED BY <2>1, <3>1, <3>2, IsConcat
  <2>4. (x \o d) \o c = x \o (d \o c) /\ d \o c \in Seq(Byte)
    <3>1. c \in Seq(Byte) /\ d \in Seq(Byte) /\ x \in Seq(Byte)
      BY <1>1, <2>1
    <3>2. d \o c \in Seq(Byte)
      BY <3>1, ConcatIs
    <3>3. (x \o d) \o c = x \o (d \o c)
      BY <3>1, ConcatAssoc
    <3> QED BY <3>2, <3>3
  <2>5. x \o y = x \o (d \o c)
    BY <1>1, <2>3, <2>4
  <2>6. y = d \o c
    BY <1>1, <2>4, <2>5, SameTail
  <2> QED BY <1>1, <2>1, <2>3, <2>6 DEF Cut
<1> QED BY <1>2, <1>3

\* Zero bytes only.
Zeros(z) == \A i \in 1..Len(z) : z[i] = 0

\* ReadBytes returns as many bytes as were asked for, and never more are left.
LEMMA ReadBytesIs ==
  ASSUME NEW b \in Seq(Byte), NEW n \in Int
  PROVE  /\ ReadBytes(b, n) \in Results(Seq(Byte))
         /\ ReadBytes(b, n).st = "ok" =>
              n \in Nat /\ Len(ReadBytes(b, n).val) = n /\ Len(ReadBytes(b, n).rest) <= Len(b)
<1>0. Len(b) \in Nat
  OBVIOUS
<1>1. CASE n < 0
  BY <1>1, FailedIs DEF ReadBytes
<1>2. CASE n = 0
  <2>1. ReadBytes(b, n) = Ok(<<>>, b)
    BY <1>2 DEF ReadBytes
  <2>2. Ok(<<>>, b) \in Results(Seq(Byte)) /\ Ok(<<>>, b).val = <<>> /\ Ok(<<>>, b).rest = b
    BY OkIs, StringIs
  <2> QED BY <1>0, <1>2, <2>1, <2>2, StringIs
<1>3. CASE n > 0 /\ b = <<>>
  BY <1>3, FailedIs DEF ReadBytes
<1>4. CASE n > 0 /\ b # <<>>
  <2> DEFINE s == [i \in 1..n |-> IF i <= Len(b) THEN b[i] ELSE 0]
             t == SubSeq(b, n + 1, Len(b))
  <2>1. ReadBytes(b, n) = Ok(s, t)
    BY <1>4 DEF ReadBytes
  <2>2. 0 \in Byte /\ n \in Nat
    BY <1>4, Sizes DEF Byte
  <2>3. s \in Seq(Byte) /\ Len(s) = n
    <3>1. \A i \in 1..n : (IF i <= Len(b) THEN b[i] ELSE 0) \in Byte
      BY <1>0, <2>2
    <3>2. s \in [1..n -> Byte]
      BY <3>1
    <3> HIDE DEF s
    <3> QED BY <2>2, <3>2
  <2>4. t \in Seq(Byte) /\ Len(t) <= Len(b)
    BY <1>0, <2>2
  <2> HIDE DEF s, t
  <2> QED BY <2>1, <2>2, <2>3, <2>4, OkIs
<1> QED BY <1>1, <1>2, <1>3, <1>4

\* ReadBytes of a string that is there.
LEMMA ReadBytesWhole ==
  ASSUME NEW s \in Seq(Byte), NEW rest \in Seq(Byte)
  PROVE  ReadBytes(s \o rest, Len(s)) = Ok(s, rest)
<1> DEFINE b == s \o rest
           n == Len(s)
<1>0. /\ n \in Nat /\ b \in Seq(Byte) /\ Len(b) = n + Len(rest) /\ Len(rest) \in Nat
      /\ \A i \in 1..n : b[i] = s[i]
  BY ConcatIs
<1>1. CASE n = 0
  <2>1. s = <<>>
    BY <1>1, StringIs
  <2>2. b = rest
    BY <2>1, StringIs
  <2> HIDE DEF b, n
  <2>3. ReadBytes(b, n) = Ok(<<>>, b)
    BY <1>1 DEF ReadBytes
  <2> QED BY <2>1, <2>2, <2>3 DEF b, n
<1>2. CASE n # 0
  <2> DEFINE t == [i \in 1..n |-> IF i <= Len(b) THEN b[i] ELSE 0]
             u == SubSeq(b, n + 1, Len(b))
  <2>1. b # <<>> /\ n > 0
    BY <1>0, <1>2, StringIs
  <2>2. ReadBytes(b, n) = Ok(t, u)
    <3> HIDE DEF b, n
    <3> QED BY <2>1, <1>0 DEF ReadBytes
  <2>3. t = s
    BY <1>0
  <2>4. u = rest
    OBVIOUS
  <2> QED BY <2>2, <2>3, <2>4
<1> QED BY <1>1, <1>2

\* ReadBytes of a string that is cut: an error if nothing is there, and
\* otherwise what is missing are zeros (serialize.go:150).
LEMMA ReadBytesCut ==
  ASSUME NEW s \in Seq(Byte), NEW b, NEW c, Cut(s, b, c)
  PROVE  /\ b = <<>> => ReadBytes(b, Len(s)) = Failed
         /\ b # <<>> => \E z \in Seq(Byte) :
              /\ ReadBytes(b, Len(s)) = Ok(b \o Push(0, z), <<>>)
              /\ Zeros(z) /\ Len(z) + 1 = Len(c)
<1>1. /\ b \in Seq(Byte) /\ c \in Seq(Byte) /\ Len(c) > 0 /\ Len(s) = Len(b) + Len(c)
      /\ Len(b) \in Nat /\ Len(c) \in Nat
  BY ConcatIs, StringIs DEF Cut
<1>2. Len(s) > 0 /\ Len(s) \in Nat
  BY <1>1
<1>3. CASE b = <<>>
  BY <1>2, <1>3 DEF ReadBytes
<1>4. CASE b # <<>>
  <2> DEFINE m == Len(c) - 1
             n == Len(s)
             z == [i \in 1..m |-> 0]
             t == [i \in 1..n |-> IF i <= Len(b) THEN b[i] ELSE 0]
             u == SubSeq(b, n + 1, Len(b))
  <2>1. m \in Nat /\ n = Len(b) + 1 + m
    BY <1>1
  <2>2. 0 \in Byte
    BY Sizes DEF Byte
  <2>3. z \in Seq(Byte) /\ Len(z) = m /\ Zeros(z)
    BY <2>1, <2>2 DEF Zeros
  <2>4. ReadBytes(b, n) = Ok(t, u)
    BY <1>2, <1>4 DEF ReadBytes
  <2>5. u = <<>>
    BY <1>1, <2>1
  <2>6. t = b \o Push(0, z)
    <3> DEFINE w == Push(0, z)
    <3>1. w \in Seq(Byte) /\ Len(w) = 1 + m /\ \A i \in 1..(1 + m) : w[i] = 0
      BY <2>1, <2>2, <2>3 DEF Push, Zeros
    <3> HIDE DEF w, z
    <3>2. t \in Seq(Byte) /\ Len(t) = n
      BY <1>1, <2>1, <2>2
    <3>3. \A i \in 1..Len(b) : t[i] = b[i]
      BY <1>1, <2>1
    <3>4. \A i \in 1..Len(w) : t[Len(b) + i] = w[i]
      BY <1>1, <2>1, <3>1
    <3>5. Len(t) = Len(b) + Len(w)
      BY <1>1, <2>1, <3>1, <3>2
    <3> HIDE DEF t
    <3>6. t = b \o w
      BY <1>1, <3>1, <3>2, <3>3, <3>4, <3>5, IsConcat
    <3> QED BY <3>6 DEF w
  <2> HIDE DEF z, t, u
  <2> QED BY <1>1, <1>4, <2>3, <2>4, <2>5, <2>6
<1> QED BY <1>3, <1>4

\* Where lengths become negative.
LEMMA HalfWord == Word \div 2 \in Nat /\ Word \div 2 < Word
BY Sizes

\* ReadVarBytesMinMax after its length.
LEMMA VarBytesLength ==
  ASSUME NEW b \in Seq(Byte), NEW min, NEW max, NEW n, NEW rest, ReadVarUint[b] = Ok(n, rest)
  PROVE  ReadVarBytesMinMax(b, min, max) =
           IF Signed(n) \notin min..max THEN Failed ELSE ReadBytes(rest, Signed(n))
<1>1. ReadVarUint[b].st = "ok" /\ ReadVarUint[b].val = n /\ ReadVarUint[b].rest = rest
  BY OkIs
<1> QED BY <1>1 DEF ReadVarBytesMinMax

\* ReadVarBytesMinMax without a length.
LEMMA VarBytesNoLength ==
  ASSUME NEW b, NEW min, NEW max, ReadVarUint[b].st # "ok"
  PROVE  ReadVarBytesMinMax(b, min, max) = ReadVarUint[b]
BY DEF ReadVarBytesMinMax

\* What ReadVarBytesMinMax accepts is within the limits, and it consumes bytes.
LEMMA VarBytesIs ==
  ASSUME NEW b \in Seq(Byte), NEW min \in Int, NEW max \in Int
  PROVE  LET r == ReadVarBytesMinMax(b, min, max)
         IN  /\ r \in Results(Seq(Byte))
             /\ r.st = "ok" => /\ Len(r.val) \in min..max /\ Len(r.val) \in Nat
                               /\ Len(r.rest) < Len(b)
<1> DEFINE l == ReadVarUint[b]
           r == ReadVarBytesMinMax(b, min, max)
<1>1. l \in Results(0..(Word - 1))
  BY ReadVarUintIs
<1>2. CASE l.st # "ok"
  <2>1. r = l /\ l \in {Failed, Panicked}
    BY <1>1, <1>2, ResultIs, VarBytesNoLength
  <2> QED BY <1>2, <2>1, FailedIs
<1>3. CASE l.st = "ok"
  <2> DEFINE n == Signed(l.val)
             t == l.rest
             u == ReadBytes(t, n)
  <2>1. l = Ok(l.val, t) /\ l.val \in 0..(Word - 1) /\ t \in Seq(Byte)
    BY <1>1, <1>3, ResultIs
  <2>2. n \in Int
    BY <2>1, Sizes, HalfWord DEF Signed
  <2>3. r = IF n \notin min..max THEN Failed ELSE u
    BY <2>1, VarBytesLength
  <2>4. Len(t) < Len(b) /\ Len(t) \in Nat /\ Len(b) \in Nat
    BY <1>3, <2>1, VarUintRest
  <2> HIDE DEF n, t
  <2>5. /\ u \in Results(Seq(Byte))
        /\ u.st = "ok" => n \in Nat /\ Len(u.val) = n /\ Len(u.rest) <= Len(t) /\ Len(u.rest) \in Nat
    <3>1. /\ u \in Results(Seq(Byte))
          /\ u.st = "ok" => n \in Nat /\ Len(u.val) = n /\ Len(u.rest) <= Len(t)
      BY <2>1, <2>2, ReadBytesIs
    <3> HIDE DEF u
    <3>2. u.st = "ok" => u.rest \in Seq(Byte)
      BY <3>1, ResultIs
    <3> QED BY <3>1, <3>2, StringIs
  <2> HIDE DEF u, r
  <2>6. CASE n \notin min..max
    BY <2>3, <2>6, FailedIs DEF r
  <2>7. CASE n \in min..max
    <3>1. r = u
      BY <2>3, <2>7
    <3>2. r \in Results(Seq(Byte)) /\ (r.st = "ok" => Len(r.val) = n /\ n \in Nat /\ Len(r.rest) < Len(b))
      BY <3>1, <2>4, <2>5
    <3> QED BY <3>2, <2>7 DEF r
  <2> QED BY <2>6, <2>7
<1> QED BY <1>2, <1>3

\* ReadVarBytesMinMax reads what WriteVarBytes wrote, within the limits and
\* at the limits.
LEMMA VarBytesWhole ==
  ASSUME NEW s \in Seq(Byte), NEW rest \in Seq(Byte), NEW min \in Int, NEW max \in Int,
         Len(s) \in min..max, max < Word \div 2
  PROVE  ReadVarBytesMinMax(WriteVarBytes(s) \o rest, min, max) = Ok(s, rest)
<1> DEFINE n == Len(s)
           w == WriteVarUint[n]
           t == s \o rest
           b == w \o t
<1>1. n \in Nat /\ n < Word \div 2 /\ n \in 0..(Word - 1)
  BY HalfWord, Sizes
<1>2. w \in Seq(Byte) /\ t \in Seq(Byte)
  BY <1>1, WriteByte, ConcatIs
<1>3. ReadVarUint[b] = Ok(n, t) /\ b \in Seq(Byte)
  BY <1>1, <1>2, VarUintRoundTrip, ConcatIs
<1>4. WriteVarBytes(s) \o rest = b
  BY <1>2, ConcatAssoc DEF WriteVarBytes
<1>5. Signed(n) = n
  BY <1>1 DEF Signed
<1>6. ReadBytes(t, n) = Ok(s, rest)
  BY ReadBytesWhole
<1> HIDE DEF b, t, w
<1>7. ReadVarBytesMinMax(b, min, max) = Ok(s, rest)
  BY <1>3, <1>5, <1>6, VarBytesLength
<1> QED BY <1>4, <1>7

\* Of a string written by WriteVarBytes and cut, either nothing is read or
\* what is missing has become zeros.
LEMMA VarBytesCut ==
  ASSUME NEW s \in Seq(Byte), NEW b, NEW c, Cut(WriteVarBytes(s), b, c),
         NEW min \in Int, NEW max \in Int, Len(s) \in min..max, max < Word \div 2
  PROVE  \/ ReadVarBytesMinMax(b, min, max) = Failed
         \/ \E d \in Seq(Byte), z \in Seq(Byte) :
              /\ Cut(s, d, c) /\ d # <<>>
              /\ ReadVarBytesMinMax(b, min, max) = Ok(d \o Push(0, z), <<>>)
              /\ Zeros(z) /\ Len(z) + 1 = Len(c)
<1> DEFINE n == Len(s)
           w == WriteVarUint[n]
<1>1. n \in Nat /\ n < Word \div 2 /\ n \in 0..(Word - 1)
  BY HalfWord, Sizes
<1>2. w \in Seq(Byte) /\ Cut(w \o s, b, c)
  BY <1>1, WriteByte DEF WriteVarBytes
<1>3. b \in Seq(Byte)
  BY DEF Cut
<1>4. CASE \E d \in Seq(Byte) : Cut(w, b, d)
  <2>1. ReadVarUint[b] = Failed
    BY <1>1, <1>4, VarUintPrefix
  <2> QED BY <2>1, FailedIs, VarBytesNoLength
<1>5. ASSUME NEW d \in Seq(Byte), b = w \o d, Cut(s, d, c)
      PROVE  \/ ReadVarBytesMinMax(b, min, max) = Failed
             \/ \E z \in Seq(Byte) :
                  /\ d # <<>>
                  /\ ReadVarBytesMinMax(b, min, max) = Ok(d \o Push(0, z), <<>>)
                  /\ Zeros(z) /\ Len(z) + 1 = Len(c)
  <2>1. ReadVarUint[b] = Ok(n, d)
    BY <1>1, <1>5, VarUintRoundTrip
  <2>2. Signed(n) = n
    BY <1>1 DEF Signed
  <2>3. ReadVarBytesMinMax(b, min, max) = ReadBytes(d, n)
    BY <1>3, <2>1, <2>2, VarBytesLength
  <2> QED BY <1>5, <2>3, ReadBytesCut
<1> HIDE DEF w
<1> QED BY <1>2, <1>4, <1>5, CutConcat

-----------------------------------------------------------------------------
(***************************************************************************)
(* Attestations.                                                           *)
(***************************************************************************)

\* An attestation is of one kind.
LEMMA Kinds ==
  ASSUME NEW tag
  PROVE  /\ HasHeight(tag) => tag # pendingTag /\ ~IsUnknown(tag)
         /\ tag = pendingTag => ~IsUnknown(tag) /\ ~HasHeight(tag)
         /\ HasHeight(tag) \/ tag = pendingTag \/ IsUnknown(tag)
<1>1. bitcoinTag[1] = 2 /\ litecoinTag[1] = 3 /\ pendingTag[1] = 6
  BY DEF bitcoinTag, litecoinTag, pendingTag
<1>2. pendingTag # bitcoinTag /\ pendingTag # litecoinTag
  BY <1>1
<1> QED BY <1>2 DEF HasHeight, IsUnknown

\* A URI is a string of allowed bytes within MaxURILength.
LEMMA URIIs ==
  ASSUME NEW u \in URI
  PROVE  u \in Seq(Byte) /\ Len(u) \in 0..MaxURILength /\ \A i \in 1..Len(u) : u[i] \in URIChar
<1>1. URIChar \subseteq Byte
  BY Sizes DEF URIChar, Byte
<1>2. u \in Seq(URIChar) /\ Len(u) <= MaxURILength
  BY DEF URI
<1>3. u \in [1..Len(u) -> URIChar] /\ Len(u) \in Nat
  BY <1>2
<1>4. u \in Seq(Byte)
  BY <1>1, <1>3
<1> QED BY <1>2, <1>3, <1>4, SizesAssumption

\* The other direction.
LEMMA IsURI ==
  ASSUME NEW s \in Seq(Byte), Len(s) <= MaxURILength, \A i \in DOMAIN s : s[i] \in URIChar
  PROVE  s \in URI
<1>1. s \in [1..Len(s) -> URIChar] /\ Len(s) \in Nat
  OBVIOUS
<1>2. s \in Seq(URIChar)
  BY <1>1
<1> QED BY <1>2 DEF URI

\* Bytes are numbers.
LEMMA ByteNat ==
  ASSUME NEW s \in Seq(Byte)
  PROVE  s \in Seq(Nat)
<1>1. Byte \subseteq Nat
  BY ByteIs
<1>2. s \in [1..Len(s) -> Byte] /\ Len(s) \in Nat
  OBVIOUS
<1>3. s \in [1..Len(s) -> Nat]
  BY <1>1, <1>2
<1> QED BY <1>2, <1>3

\* The parts of an attestation.
LEMMA AttestationIs ==
  ASSUME NEW a \in Attestation
  PROVE  /\ a.tag \in Seq(Byte) /\ Len(a.tag) = 2
         /\ a = [tag |-> a.tag, val |-> a.val]
         /\ HasHeight(a.tag) => a.val = <<a.val[1]>> /\ a.val[1] \in 0..(Word - 1)
         /\ a.tag = pendingTag => a.val \in URI
         /\ IsUnknown(a.tag) => a.val \in Seq(Byte) /\ Len(a.val) \in 0..MaxPayloadSize
<1>1. /\ a.tag \in Bytes(2, 2) /\ a.val \in Seq(Nat) /\ a = [tag |-> a.tag, val |-> a.val]
      /\ CASE HasHeight(a.tag)   -> Len(a.val) = 1 /\ a.val[1] < Word
           [] a.tag = pendingTag -> a.val \in URI
           [] IsUnknown(a.tag)   -> a.val \in Bytes(0, MaxPayloadSize)
  BY DEF Attestation
<1>2. a.tag \in Seq(Byte) /\ Len(a.tag) = 2
  BY <1>1 DEF Bytes
<1>3. HasHeight(a.tag) => Len(a.val) = 1 /\ a.val[1] < Word
  BY <1>1, Kinds
<1>4. HasHeight(a.tag) => a.val = <<a.val[1]>> /\ a.val[1] \in 0..(Word - 1)
  BY <1>1, <1>3, Sizes
<1>5. a.tag = pendingTag => a.val \in URI
  BY <1>1, Kinds
<1>6. IsUnknown(a.tag) => a.val \in Bytes(0, MaxPayloadSize)
  BY <1>1, Kinds
<1> QED BY <1>1, <1>2, <1>4, <1>5, <1>6 DEF Bytes

\* What makes an attestation.
LEMMA IsAttestation ==
  ASSUME NEW tag \in Seq(Byte), Len(tag) = 2, NEW val,
         HasHeight(tag) => \E h \in 0..(Word - 1) : val = <<h>>,
         tag = pendingTag => val \in URI,
         IsUnknown(tag) => val \in Seq(Byte) /\ Len(val) <= MaxPayloadSize
  PROVE  [tag |-> tag, val |-> val] \in Attestation
<1> DEFINE a == [tag |-> tag, val |-> val]
<1>1. tag \in Bytes(2, 2)
  BY DEF Bytes
<1>2. HasHeight(tag) => val \in Seq(Nat) /\ Len(val) = 1 /\ val[1] < Word
  <2>1. ASSUME NEW h \in 0..(Word - 1)
        PROVE  <<h>> \in Seq(Nat) /\ Len(<<h>>) = 1 /\ <<h>>[1] < Word
    <3>1. h \in Nat /\ h < Word
      BY Sizes
    <3> QED BY <3>1
  <2> QED BY <2>1
<1>3. tag = pendingTag => val \in Seq(Nat)
  BY URIIs, ByteNat
<1>4. IsUnknown(tag) => val \in Seq(Nat) /\ val \in Bytes(0, MaxPayloadSize)
  BY ByteNat, SizesAssumption DEF Bytes
<1>5. val \in Seq(Nat)
  BY <1>2, <1>3, <1>4, Kinds
<1>6. a \in [tag : Bytes(2, 2), val : Seq(Nat)] /\ a.tag = tag /\ a.val = val
  BY <1>1, <1>5
<1>7. (CASE HasHeight(a.tag)   -> Len(a.val) = 1 /\ a.val[1] < Word
         [] a.tag = pendingTag -> a.val \in URI
         [] IsUnknown(a.tag)   -> a.val \in Bytes(0, MaxPayloadSize))
  BY <1>2, <1>4, <1>6, Kinds
<1> QED BY <1>6, <1>7 DEF Attestation

\* The payload of an attestation, never above MaxPayloadSize.
LEMMA PayloadIs ==
  ASSUME NEW a \in Attestation
  PROVE  /\ Payload(a) \in Seq(Byte) /\ Len(Payload(a)) \in 0..MaxPayloadSize
         /\ HasHeight(a.tag) => Payload(a) = WriteVarUint[a.val[1]]
         /\ a.tag = pendingTag => Payload(a) = WriteVarBytes(a.val)
         /\ IsUnknown(a.tag) => Payload(a) = a.val
<1>1. /\ HasHeight(a.tag) => Payload(a) = WriteVarUint[a.val[1]]
      /\ a.tag = pendingTag => Payload(a) = WriteVarBytes(a.val)
      /\ IsUnknown(a.tag) => Payload(a) = a.val
  BY Kinds DEF Payload
<1>2. CASE HasHeight(a.tag)
  <2> DEFINE h == a.val[1]
  <2>1. h \in 0..(Word - 1) /\ h \in Nat
    BY <1>2, AttestationIs
  <2>2. WriteVarUint[h] \in Seq(Byte) /\ Len(WriteVarUint[h]) <= MaxPayloadSize
    BY <2>1, WriteByte, PayloadAssumption
  <2> QED BY <1>1, <1>2, <2>2, StringIs, SizesAssumption
<1>3. CASE a.tag = pendingTag
  <2> DEFINE u == a.val
             n == Len(u)
             w == WriteVarUint[n]
  <2>1. u \in Seq(Byte) /\ n \in 0..MaxURILength /\ n \in Nat
    BY <1>3, AttestationIs, URIIs
  <2>2. w \in Seq(Byte) /\ Len(w) + n <= MaxPayloadSize
    BY <2>1, WriteByte, PayloadAssumption
  <2>3. w \o u \in Seq(Byte) /\ Len(w \o u) = Len(w) + n
    BY <2>1, <2>2, ConcatIs
  <2>4. Payload(a) = w \o u
    BY <1>1, <1>3 DEF WriteVarBytes
  <2>5. MaxPayloadSize \in Nat /\ Len(w) \in Nat
    BY <2>2, SizesAssumption, StringIs
  <2> HIDE DEF u, w
  <2>6. Payload(a) \in Seq(Byte) /\ Len(Payload(a)) \in 0..MaxPayloadSize
    BY <2>1, <2>2, <2>3, <2>4, <2>5
  <2> QED BY <1>1, <2>6
<1>4. CASE IsUnknown(a.tag)
  BY <1>1, <1>4, AttestationIs
<1> QED BY <1>1, <1>2, <1>3, <1>4, Kinds

\* ReadPayload case by case.
LEMMA ReadPayloadIs ==
  ASSUME NEW tag, NEW p
  PROVE  /\ HasHeight(tag) => ReadPayload(tag, p) =
              IF ReadVarUint[p].st = "ok" THEN Ok(<<ReadVarUint[p].val>>, ReadVarUint[p].rest)
              ELSE ReadVarUint[p]
         /\ tag = pendingTag => ReadPayload(tag, p) = CheckURI(ReadVarBytes(p, MaxURILength))
         /\ IsUnknown(tag) => ReadPayload(tag, p) = Ok(p, p)
BY Kinds DEF ReadPayload

\* CheckURI lets URIs pass and nothing else.
LEMMA CheckURIIs ==
  ASSUME NEW r \in Results(Seq(Byte)), r.st = "ok" => Len(r.val) <= MaxURILength
  PROVE  /\ CheckURI(r) \in Results(URI)
         /\ r.st # "ok" => CheckURI(r) = r
         /\ r.st = "ok" /\ r.val \in URI => CheckURI(r) = r
         /\ r.st = "ok" /\ r.val \notin URI => CheckURI(r) = Failed
<1>1. CASE r.st # "ok"
  <2>1. CheckURI(r) = r
    BY <1>1 DEF CheckURI
  <2> QED BY <1>1, <2>1, ResultIs, FailedIs
<1>2. CASE r.st = "ok"
  <2> DEFINE s == r.val
  <2>1. s \in Seq(Byte) /\ Len(s) <= MaxURILength /\ r.rest \in Seq(Byte) /\ r = Ok(s, r.rest)
    BY <1>2, ResultIs
  <2>2. (\A i \in DOMAIN s : s[i] \in URIChar) <=> s \in URI
    <3>1. ASSUME s \in URI PROVE \A i \in DOMAIN s : s[i] \in URIChar
      BY <2>1, <3>1, URIIs
    <3> QED BY <2>1, <3>1, IsURI
  <2>3. CheckURI(r) = IF s \in URI THEN r ELSE Failed
    BY <1>2, <2>2 DEF CheckURI
  <2> QED BY <1>2, <2>1, <2>3, FailedIs, OkIs
<1> QED BY <1>1, <1>2

\* notary.Deserialize step by step.
LEMMA AttestationSteps ==
  ASSUME NEW b, NEW t, t = ReadBytes(b, 2),
         NEW p, p = ReadVarBytes(t.rest, MaxPayloadSize),
         NEW q, q = ReadPayload(t.val, p.val)
  PROVE  DeserializeAttestation(b) =
           IF t.st # "ok" THEN t
           ELSE IF p.st # "ok" THEN p
           ELSE IF q.st # "ok" THEN q
           ELSE IF q.rest # <<>> THEN Failed
           ELSE Ok([tag |-> t.val, val |-> q.val], p.rest)
BY DEF DeserializeAttestation

\* The limits on lengths are no length that becomes negative.
LEMMA Limits ==
  /\ MaxLength \in Nat /\ MaxPayloadSize \in Nat /\ MaxURILength \in Nat
  /\ MaxLength < Word \div 2 /\ MaxPayloadSize < Word \div 2 /\ MaxURILength < Word \div 2
  /\ -Word \in Int /\ \A n \in Nat : -Word <= n /\ (n < Word \div 2 => n < Word)
BY SizesAssumption, Sizes, HalfWord

\* What ReadVarBytes accepts has no more than max bytes.
LEMMA ReadVarBytesIs ==
  ASSUME NEW b \in Seq(Byte), NEW max \in Nat
  PROVE  LET r == ReadVarBytes(b, max)
         IN  /\ r \in Results(Seq(Byte))
             /\ r.st = "ok" => /\ Len(r.val) \in 0..max
                               /\ Len(r.rest) < Len(b)
<1>1. -Word \in Int /\ max \in Int
  BY Limits
<1>2. LET r == ReadVarBytesMinMax(b, -Word, max)
      IN  /\ r \in Results(Seq(Byte))
          /\ r.st = "ok" => /\ Len(r.val) \in (-Word)..max /\ Len(r.val) \in Nat
                            /\ Len(r.rest) < Len(b)
  BY <1>1, VarBytesIs
<1> QED BY <1>1, <1>2 DEF ReadVarBytes

\* ReadVarBytes reads what WriteVarBytes wrote.
LEMMA ReadVarBytesWhole ==
  ASSUME NEW s \in Seq(Byte), NEW rest \in Seq(Byte), NEW max \in Nat,
         Len(s) <= max, max < Word \div 2
  PROVE  ReadVarBytes(WriteVarBytes(s) \o rest, max) = Ok(s, rest)
<1>1. -Word \in Int /\ max \in Int /\ Len(s) \in (-Word)..max
  BY Limits, StringIs
<1> QED BY <1>1, VarBytesWhole DEF ReadVarBytes

\* ReadVarBytes of a string that is cut.
LEMMA ReadVarBytesCut ==
  ASSUME NEW s \in Seq(Byte), NEW b, NEW c, Cut(WriteVarBytes(s), b, c),
         NEW max \in Nat, Len(s) <= max, max < Word \div 2
  PROVE  \/ ReadVarBytes(b, max) = Failed
         \/ \E d \in Seq(Byte), z \in Seq(Byte) :
              /\ Cut(s, d, c) /\ d # <<>>
              /\ ReadVarBytes(b, max) = Ok(d \o Push(0, z), <<>>)
              /\ Zeros(z) /\ Len(z) + 1 = Len(c)
<1>1. -Word \in Int /\ max \in Int /\ Len(s) \in (-Word)..max
  BY Limits, StringIs
<1> QED BY <1>1, VarBytesCut DEF ReadVarBytes

\* A payload that is accepted makes an attestation.
LEMMA ReadPayloadTyped ==
  ASSUME NEW tag \in Seq(Byte), Len(tag) = 2, NEW p \in Seq(Byte), Len(p) <= MaxPayloadSize,
         NEW q, q = ReadPayload(tag, p), q.st = "ok"
  PROVE  [tag |-> tag, val |-> q.val] \in Attestation
<1>1. CASE HasHeight(tag)
  <2> DEFINE u == ReadVarUint[p]
  <2>1. u \in Results(0..(Word - 1))
    BY ReadVarUintIs
  <2>2. q = IF u.st = "ok" THEN Ok(<<u.val>>, u.rest) ELSE u
    BY <1>1, ReadPayloadIs
  <2> HIDE DEF u
  <2>3. u.st = "ok" /\ u.val \in 0..(Word - 1)
    BY <2>1, <2>2, ResultIs
  <2>4. q.val = <<u.val>>
    BY <2>2, <2>3 DEF Ok
  <2> QED BY <1>1, <2>3, <2>4, Kinds, IsAttestation
<1>2. CASE tag = pendingTag
  <2> DEFINE u == ReadVarBytes(p, MaxURILength)
  <2>1. u \in Results(Seq(Byte)) /\ (u.st = "ok" => Len(u.val) <= MaxURILength)
    BY ReadVarBytesIs, Limits
  <2>2. q = CheckURI(u)
    BY <1>2, ReadPayloadIs
  <2> HIDE DEF u
  <2>3. q \in Results(URI)
    BY <2>1, <2>2, CheckURIIs
  <2>4. q.val \in URI
    BY <2>3, ResultIs
  <2> QED BY <1>2, <2>4, Kinds, IsAttestation
<1>3. CASE IsUnknown(tag)
  <2>1. q.val = p
    BY <1>3, ReadPayloadIs DEF Ok
  <2> QED BY <1>3, <2>1, Kinds, IsAttestation
<1> QED BY <1>1, <1>2, <1>3, Kinds

\* A payload that is not is an error.
LEMMA ReadPayloadResult ==
  ASSUME NEW tag, NEW p \in Seq(Byte), NEW q, q = ReadPayload(tag, p), q.st # "ok"
  PROVE  q \in {Failed, Panicked}
<1>1. CASE HasHeight(tag)
  <2> DEFINE u == ReadVarUint[p]
  <2>1. u \in Results(0..(Word - 1))
    BY ReadVarUintIs
  <2>2. q = IF u.st = "ok" THEN Ok(<<u.val>>, u.rest) ELSE u
    BY <1>1, ReadPayloadIs
  <2> QED BY <2>1, <2>2, ResultIs, OkIs
<1>2. CASE tag = pendingTag
  <2> DEFINE u == ReadVarBytes(p, MaxURILength)
  <2>1. u \in Results(Seq(Byte)) /\ (u.st = "ok" => Len(u.val) <= MaxURILength)
    BY ReadVarBytesIs, Limits
  <2>2. q = CheckURI(u)
    BY <1>2, ReadPayloadIs
  <2> HIDE DEF u
  <2>3. q \in Results(URI)
    BY <2>1, <2>2, CheckURIIs
  <2> QED BY <2>3, ResultIs
<1>3. CASE IsUnknown(tag)
  BY <1>3, ReadPayloadIs DEF Ok
<1> QED BY <1>1, <1>2, <1>3, Kinds

\* notary.Deserialize returns an attestation or refuses, and consumes bytes.
LEMMA DeserializeAttestationIs ==
  ASSUME NEW b \in Seq(Byte)
  PROVE  LET r == DeserializeAttestation(b)
         IN  /\ r \in Results(Attestation)
             /\ r.st = "ok" => Len(r.rest) < Len(b)
<1> DEFINE t == ReadBytes(b, 2)
           p == ReadVarBytes(t.rest, MaxPayloadSize)
           q == ReadPayload(t.val, p.val)
           r == DeserializeAttestation(b)
<1>1. r = IF t.st # "ok" THEN t
          ELSE IF p.st # "ok" THEN p
          ELSE IF q.st # "ok" THEN q
          ELSE IF q.rest # <<>> THEN Failed
          ELSE Ok([tag |-> t.val, val |-> q.val], p.rest)
  BY AttestationSteps
<1>2. /\ t \in Results(Seq(Byte))
      /\ t.st = "ok" => Len(t.val) = 2 /\ Len(t.rest) <= Len(b)
  <2>1. ASSUME NEW n \in Int
        PROVE  /\ ReadBytes(b, n) \in Results(Seq(Byte))
               /\ ReadBytes(b, n).st = "ok" =>
                    Len(ReadBytes(b, n).val) = n /\ Len(ReadBytes(b, n).rest) <= Len(b)
    BY ReadBytesIs
  <2>2. 2 \in Int
    OBVIOUS
  <2> QED BY <2>1, <2>2
<1>3. CASE t.st # "ok"
  BY <1>1, <1>2, <1>3, ResultIs, FailedIs
<1>4. CASE t.st = "ok"
  <2>1. t.val \in Seq(Byte) /\ t.rest \in Seq(Byte)
    BY <1>2, <1>4, ResultIs
  <2>2. /\ p \in Results(Seq(Byte))
        /\ p.st = "ok" => /\ Len(p.val) \in 0..MaxPayloadSize /\ Len(p.rest) < Len(t.rest)
    BY <2>1, ReadVarBytesIs, Limits
  <2>3. CASE p.st # "ok"
    BY <1>1, <1>4, <2>2, <2>3, ResultIs, FailedIs
  <2>4. CASE p.st = "ok"
    <3>1. p.val \in Seq(Byte) /\ p.rest \in Seq(Byte) /\ Len(p.val) <= MaxPayloadSize
      BY <2>2, <2>4, ResultIs, Limits
    <3>2. CASE q.st # "ok"
      <4>1. q \in {Failed, Panicked}
        BY <3>1, <3>2, ReadPayloadResult
      <4> QED BY <1>1, <1>4, <2>4, <3>2, <4>1, FailedIs
    <3>3. CASE q.st = "ok"
      <4> DEFINE a == [tag |-> t.val, val |-> q.val]
      <4>1. a \in Attestation
        BY <1>2, <1>4, <2>1, <3>1, <3>3, ReadPayloadTyped
      <4>2. r = IF q.rest # <<>> THEN Failed ELSE Ok(a, p.rest)
        BY <1>1, <1>4, <2>4, <3>3
      <4>3. Len(p.rest) < Len(b)
        BY <1>2, <1>4, <2>1, <2>2, <2>4, <3>1, StringIs
      <4> HIDE DEF a, p, q, t
      <4>4. CASE q.rest # <<>>
        BY <4>2, <4>4, FailedIs
      <4>5. CASE q.rest = <<>>
        BY <4>1, <4>2, <4>3, <4>5, <3>1, OkIs
      <4> QED BY <4>4, <4>5 DEF r
    <3> QED BY <3>2, <3>3
  <2> QED BY <2>3, <2>4
<1> QED BY <1>3, <1>4

\* An attestation is written as bytes.
LEMMA AttestationBytes ==
  ASSUME NEW a \in Attestation
  PROVE  /\ SerializeAttestation(a) \in Seq(Byte) /\ Len(SerializeAttestation(a)) > 0
         /\ WriteVarBytes(Payload(a)) \in Seq(Byte)
         /\ SerializeAttestation(a) = a.tag \o WriteVarBytes(Payload(a))
<1> DEFINE p == Payload(a)
           w == WriteVarUint[Len(p)]
<1>1. p \in Seq(Byte) /\ Len(p) \in Nat
  BY PayloadIs, StringIs
<1>2. w \in Seq(Byte)
  BY <1>1, WriteByte
<1> HIDE DEF w
<1>3. w \o p \in Seq(Byte) /\ w \o p = WriteVarBytes(p)
  BY <1>1, <1>2, ConcatIs DEF WriteVarBytes, w
<1> HIDE DEF p
<1>4. a.tag \in Seq(Byte) /\ Len(a.tag) = 2
  BY AttestationIs
<1>5. SerializeAttestation(a) = a.tag \o WriteVarBytes(p)
  BY DEF SerializeAttestation, p
<1>6. Len(WriteVarBytes(p)) \in Nat
  BY <1>3, StringIs
<1> DEFINE y == WriteVarBytes(p)
<1>7. a.tag \o y \in Seq(Byte) /\ Len(a.tag \o y) = Len(a.tag) + Len(y)
  BY <1>3, <1>4, ConcatIs
<1>8. Len(a.tag \o y) > 0
  BY <1>4, <1>6, <1>7
<1> QED BY <1>3, <1>5, <1>7, <1>8 DEF p

\* The payload of an attestation is read as its value; that of an unknown
\* kind is left unread.
LEMMA PayloadWhole ==
  ASSUME NEW a \in Attestation
  PROVE  ReadPayload(a.tag, Payload(a)) =
           IF IsUnknown(a.tag) THEN Ok(a.val, a.val) ELSE Ok(a.val, <<>>)
<1>1. CASE HasHeight(a.tag)
  <2> DEFINE h == a.val[1]
             w == WriteVarUint[h]
  <2>1. h \in 0..(Word - 1) /\ a.val = <<h>> /\ h \in Nat
    BY <1>1, AttestationIs
  <2>2. w \in Seq(Byte) /\ w \o <<>> = w /\ <<>> \in Seq(Byte)
    BY <2>1, WriteByte, StringIs
  <2>3. ReadVarUint[w \o <<>>] = Ok(h, <<>>)
    BY <2>1, <2>2, VarUintRoundTrip
  <2>4. Payload(a) = w
    BY <1>1, PayloadIs
  <2>5. ReadVarUint[Payload(a)] = Ok(h, <<>>)
    BY <2>2, <2>3, <2>4
  <2> HIDE DEF h, w
  <2>6. ReadPayload(a.tag, Payload(a)) = Ok(<<h>>, <<>>)
    BY <1>1, <2>5, ReadPayloadIs, OkIs
  <2> QED BY <1>1, <2>1, <2>6, Kinds
<1>2. CASE a.tag = pendingTag
  <2> DEFINE u == a.val
             w == WriteVarBytes(u)
             r == Ok(u, <<>>)
  <2>1. u \in URI /\ u \in Seq(Byte) /\ Len(u) <= MaxURILength
    BY <1>2, AttestationIs, URIIs, Limits
  <2>2. Payload(a) = w /\ w \in Seq(Byte)
    BY <1>2, PayloadIs
  <2>3. w \o <<>> = w /\ <<>> \in Seq(Byte)
    BY <2>2, StringIs
  <2>4. ReadVarBytes(w \o <<>>, MaxURILength) = r
    BY <2>1, <2>3, ReadVarBytesWhole, Limits
  <2>5. r \in Results(Seq(Byte)) /\ r.st = "ok" /\ r.val = u
    BY <2>1, <2>3, OkIs
  <2> HIDE DEF r, u
  <2>6. CheckURI(r) = r
    BY <2>1, <2>5, CheckURIIs
  <2>7. ReadPayload(a.tag, w) = r
    BY <1>2, <2>3, <2>4, <2>6, ReadPayloadIs
  <2> QED BY <1>2, <2>2, <2>7, Kinds DEF r, u
<1>3. CASE IsUnknown(a.tag)
  BY <1>3, PayloadIs, ReadPayloadIs
<1> QED BY <1>1, <1>2, <1>3, Kinds

\* notary.Deserialize reads back what Serialize wrote, but refuses an
\* attestation of an unknown kind with a payload.
LEMMA AttestationWhole ==
  ASSUME NEW a \in Attestation, NEW rest \in Seq(Byte)
  PROVE  DeserializeAttestation(SerializeAttestation(a) \o rest) =
           IF IsUnknown(a.tag) /\ a.val # <<>> THEN Failed ELSE Ok(a, rest)
<1> DEFINE w == WriteVarBytes(Payload(a))
           x == w \o rest
           b == a.tag \o x
           t == ReadBytes(b, 2)
           p == ReadVarBytes(t.rest, MaxPayloadSize)
           q == ReadPayload(t.val, p.val)
<1>1. a.tag \in Seq(Byte) /\ Len(a.tag) = 2 /\ w \in Seq(Byte) /\ a = [tag |-> a.tag, val |-> a.val]
  BY AttestationIs, AttestationBytes
<1>2. x \in Seq(Byte) /\ SerializeAttestation(a) \o rest = b
  <2> HIDE DEF w
  <2>1. SerializeAttestation(a) = a.tag \o w
    BY AttestationBytes DEF w
  <2>2. (a.tag \o w) \o rest = a.tag \o (w \o rest)
    BY <1>1, ConcatAssoc
  <2> QED BY <1>1, <2>1, <2>2, ConcatIs
<1>3. t = Ok(a.tag, x)
  <2> HIDE DEF x
  <2> QED BY <1>1, <1>2, ReadBytesWhole
<1>4. ReadVarBytes(x, MaxPayloadSize) = Ok(Payload(a), rest)
  BY PayloadIs, Limits, ReadVarBytesWhole
<1> HIDE DEF x, w
<1>5. p = Ok(Payload(a), rest)
  BY <1>3, <1>4, OkIs
<1>6. q = IF IsUnknown(a.tag) THEN Ok(a.val, a.val) ELSE Ok(a.val, <<>>)
  BY <1>3, <1>5, PayloadWhole, OkIs
<1>7. DeserializeAttestation(b) =
           IF t.st # "ok" THEN t
           ELSE IF p.st # "ok" THEN p
           ELSE IF q.st # "ok" THEN q
           ELSE IF q.rest # <<>> THEN Failed
           ELSE Ok([tag |-> t.val, val |-> q.val], p.rest)
  BY AttestationSteps
<1> HIDE DEF b, t, p, q
<1>8. DeserializeAttestation(b) =
           IF q.rest # <<>> THEN Failed ELSE Ok([tag |-> a.tag, val |-> q.val], rest)
  BY <1>3, <1>5, <1>6, <1>7, OkIs
<1>9. q.val = a.val /\ q.rest = IF IsUnknown(a.tag) THEN a.val ELSE <<>>
  BY <1>6, OkIs
<1> QED BY <1>1, <1>2, <1>8, <1>9

-----------------------------------------------------------------------------
(***************************************************************************)
(* Attestations that are cut.                                              *)
(***************************************************************************)

\* A block height that is cut and filled up with zeros reads as a lower one.
LEMMA HeightCut ==
  ASSUME NEW h \in 0..(Word - 1), NEW e, NEW c, Cut(WriteVarUint[h], e, c), e # <<>>,
         NEW z \in Seq(Byte)
  PROVE  \E w \in 0..(h - 1) : ReadVarUint[e \o Push(0, z)] = Ok(w, z)
<1>1. CASE h = 0
  <2>1. WriteVarUint[0] = Push(0, <<>>) /\ 0 \in Byte
    BY WriteByte, Sizes
  <2> QED BY <1>1, <2>1, CutOne
<1>2. CASE h # 0
  <2>1. h \in 1..(Word - 1)
    BY <1>2, Sizes
  <2> QED BY <2>1, VarUintFilled
<1> QED BY <1>1, <1>2

\* The byte that ReadBytes fills up with is in no URI.
LEMMA ZeroByte == 0 \in Byte /\ 0 \notin URIChar
BY Sizes DEF Byte, URIChar

\* A URI that is cut and filled up with zeros is refused: by CheckURI, or
\* because bytes are left.
LEMMA URICut ==
  ASSUME NEW u \in URI, NEW e, NEW c, Cut(WriteVarBytes(u), e, c), e # <<>>,
         NEW z \in Seq(Byte), Zeros(z), Len(z) + 1 = Len(c),
         NEW q, q = CheckURI(ReadVarBytes(e \o Push(0, z), MaxURILength))
  PROVE  q = Failed \/ (q.st = "ok" /\ q.rest # <<>>)
<1> DEFINE n == Len(u)
           w == WriteVarUint[n]
           f == Push(0, z)
           s == e \o f
           r == ReadVarBytes(s, MaxURILength)
<1>1. /\ u \in Seq(Byte) /\ n \in 0..MaxURILength /\ n \in Nat /\ n \in 0..(Word - 1)
      /\ n < Word \div 2 /\ n <= MaxURILength
  BY URIIs, Limits, Sizes, StringIs, HalfWord
<1>2. w \in Seq(Byte) /\ Cut(w \o u, e, c)
  BY <1>1, WriteByte DEF WriteVarBytes
<1>3. e \in Seq(Byte) /\ c \in Seq(Byte) /\ w \o u = e \o c
  BY <1>2 DEF Cut
<1>4. f \in Seq(Byte) /\ Len(f) = 1 + Len(z) /\ f[1] = 0 /\ Len(z) \in Nat
  BY PushIs, ZeroByte, StringIs
<1>5. s \in Seq(Byte)
  BY <1>3, <1>4, ConcatIs
<1> HIDE DEF f, s
<1>6. r \in Results(Seq(Byte)) /\ (r.st = "ok" => Len(r.val) <= MaxURILength)
  BY <1>5, ReadVarBytesIs, Limits
<1>7. ASSUME NEW i \in Nat, r.st = "ok", i \in 1..Len(r.val), r.val[i] = 0
      PROVE  q = Failed
  <2>1. r.val \notin URI
    BY <1>7, URIIs, ZeroByte
  <2> QED BY <1>6, <1>7, <2>1, CheckURIIs DEF f, s
<1>8. ASSUME NEW m \in 0..MaxURILength, NEW t, ReadVarUint[s] = Ok(m, t)
      PROVE  r = ReadBytes(t, m)
  <2> DEFINE low == -Word
             high == MaxURILength
  <2>1. Signed(m) = m
    <3>1. m < Word \div 2
      BY Limits, HalfWord
    <3> QED BY <3>1 DEF Signed
  <2>2. m \in low..high
    BY Limits, Sizes
  <2> HIDE DEF low, high
  <2>3. ReadVarBytesMinMax(s, low, high) =
          IF Signed(m) \notin low..high THEN Failed ELSE ReadBytes(t, Signed(m))
    BY <1>5, <1>8, VarBytesLength
  <2>4. r = ReadVarBytesMinMax(s, low, high)
    BY DEF ReadVarBytes, low, high
  <2> QED BY <2>1, <2>2, <2>3, <2>4
<1>9. CASE \E d \in Seq(Byte) : Cut(w, e, d)
  <2>1. PICK d \in Seq(Byte) : Cut(w, e, d)
    BY <1>9
  <2>2. PICK m \in 0..(n - 1) : ReadVarUint[s] = Ok(m, z)
    BY <1>1, <2>1, HeightCut DEF s, f
  <2>3. r = ReadBytes(z, m) /\ m \in Nat /\ n \in Nat \ {0}
    BY <1>1, <1>8, <2>2, Limits
  <2>4. z # <<>>
    <3>1. w = e \o d /\ d # <<>>
      BY <2>1 DEF Cut
    <3>2. /\ Len(w \o u) = Len(w) + n /\ Len(w) = Len(e) + Len(d)
          /\ Len(e \o c) = Len(e) + Len(c)
      BY <1>1, <1>2, <1>3, <3>1, ConcatIs
    <3>3. Len(e) \in Nat /\ Len(c) \in Nat /\ Len(d) \in Nat /\ Len(d) # 0
      BY <1>3, <3>1, StringIs
    <3>4. Len(z) # 0
      BY <1>1, <1>3, <1>4, <2>3, <3>2, <3>3
    <3> QED BY <3>4, StringIs
  <2>5. CASE m = 0
    <3>1. r = Ok(<<>>, z)
      BY <2>3, <2>5 DEF ReadBytes
    <3>2. <<>> \in URI
      BY Limits DEF URI
    <3>3. r.st = "ok" /\ r.val \in URI /\ r.rest = z
      BY <3>1, <3>2, OkIs
    <3>4. CheckURI(r) = r
      BY <1>6, <3>3, CheckURIIs
    <3> QED BY <2>4, <3>3, <3>4 DEF s, f
  <2>6. CASE m # 0
    <3>1. m > 0 /\ Len(z) > 0 /\ z[1] = 0
      <4>1. Len(z) # 0 /\ m > 0
        BY <2>3, <2>4, <2>6, StringIs
      <4> QED BY <1>4, <4>1 DEF Zeros
    <3> DEFINE v == [i \in 1..m |-> IF i <= Len(z) THEN z[i] ELSE 0]
    <3>2. r = Ok(v, SubSeq(z, m + 1, Len(z)))
      BY <2>3, <2>4, <3>1 DEF ReadBytes
    <3>3. v[1] = 0 /\ 1 \in 1..m
      BY <2>3, <3>1, <1>4
    <3> HIDE DEF v
    <3>4. r.st = "ok" /\ r.val = v
      BY <3>2 DEF Ok
    <3>5. Len(r.val) = m
      BY <1>6, <2>3, <3>1, <3>4 DEF v
    <3>6. q = Failed
      BY <1>7, <3>3, <3>4, <3>5
    <3> QED BY <3>6
  <2> QED BY <2>5, <2>6
<1>10. ASSUME NEW d \in Seq(Byte), e = w \o d, Cut(u, d, c)
       PROVE  q = Failed
  <2> DEFINE y == d \o f
  <2>1. y \in Seq(Byte) /\ Len(y) = Len(d) + Len(f) /\ s = w \o y
    BY <1>2, <1>4, <1>10, ConcatIs, ConcatAssoc DEF s
  <2>2. Len(u) = Len(d) + Len(c) /\ Len(d) \in Nat
    BY <1>3, <1>10, ConcatIs, StringIs DEF Cut
  <2>3. Len(y) = n
    BY <1>4, <2>1, <2>2
  <2>4. y[Len(d) + 1] = 0 /\ Len(d) + 1 \in 1..n
    <3>1. Len(d) + 1 \in 1..(Len(d) + Len(f))
      BY <1>4, <2>2
    <3>2. y[Len(d) + 1] = f[Len(d) + 1 - Len(d)]
      BY <3>1, <2>2, <1>4, ConcatAt
    <3> QED BY <3>1, <3>2, <1>4, <2>1, <2>2, <2>3
  <2> HIDE DEF y
  <2>5. ReadVarUint[s] = Ok(n, y)
    BY <1>1, <2>1, VarUintRoundTrip
  <2>6. r = ReadBytes(y, n)
    BY <1>1, <1>8, <2>5
  <2>7. ReadBytes(y, Len(y)) = Ok(y, <<>>)
    <3>1. y \o <<>> = y /\ <<>> \in Seq(Byte)
      BY <2>1, StringIs
    <3>2. ReadBytes(y \o <<>>, Len(y)) = Ok(y, <<>>)
      BY <2>1, <3>1, ReadBytesWhole
    <3> QED BY <3>1, <3>2
  <2>8. r.st = "ok" /\ r.val = y
    BY <2>3, <2>6, <2>7, OkIs
  <2> QED BY <1>7, <2>2, <2>3, <2>4, <2>8
<1> HIDE DEF w
<1>11. \/ \E d \in Seq(Byte) : Cut(w, e, d)
       \/ \E d \in Seq(Byte) : e = w \o d /\ Cut(u, d, c)
  BY <1>1, <1>2, CutConcat
<1>12. CASE \E d \in Seq(Byte) : e = w \o d /\ Cut(u, d, c)
  BY <1>10, <1>12
<1> QED BY <1>9, <1>11, <1>12

\* Of an attestation that is cut, at most a lower block height is read.
LEMMA AttestationCut ==
  ASSUME NEW a \in Attestation, NEW b, NEW c, Cut(SerializeAttestation(a), b, c)
  PROVE  \/ DeserializeAttestation(b).st = "error"
         \/ /\ HasHeight(a.tag)
            /\ \E w \in 0..(a.val[1] - 1) :
                 DeserializeAttestation(b) = Ok([tag |-> a.tag, val |-> <<w>>], <<>>)
<1> DEFINE x == WriteVarBytes(Payload(a))
           t == ReadBytes(b, 2)
           p == ReadVarBytes(t.rest, MaxPayloadSize)
           q == ReadPayload(t.val, p.val)
<1>1. /\ a.tag \in Seq(Byte) /\ Len(a.tag) = 2 /\ x \in Seq(Byte)
      /\ Payload(a) \in Seq(Byte) /\ Len(Payload(a)) <= MaxPayloadSize
  BY AttestationIs, AttestationBytes, PayloadIs, Limits
<1>2. Cut(a.tag \o x, b, c) /\ b \in Seq(Byte)
  BY AttestationBytes DEF Cut
<1>3. DeserializeAttestation(b) =
        IF t.st # "ok" THEN t
        ELSE IF p.st # "ok" THEN p
        ELSE IF q.st # "ok" THEN q
        ELSE IF q.rest # <<>> THEN Failed
        ELSE Ok([tag |-> t.val, val |-> q.val], p.rest)
  BY AttestationSteps
<1>4. ASSUME NEW d \in Seq(Byte), Cut(a.tag, b, d)
      PROVE  DeserializeAttestation(b) = Failed
  <2>1. CASE b = <<>>
    <3>1. t = Failed
      BY <1>1, <1>4, <2>1, ReadBytesCut
    <3> QED BY <1>3, <3>1, FailedIs
  <2>2. CASE b # <<>>
    <3>1. PICK z : t = Ok(z, <<>>)
      BY <1>1, <1>4, <2>2, ReadBytesCut
    <3>2. t.st = "ok" /\ t.rest = <<>>
      BY <3>1, OkIs
    <3>3. ReadVarBytes(<<>>, MaxPayloadSize) = Failed
      BY ReadNothing, FailedIs, VarBytesNoLength DEF ReadVarBytes
    <3>4. p = Failed
      BY <3>2, <3>3
    <3> HIDE DEF p, t
    <3> QED BY <1>3, <3>2, <3>4, FailedIs
  <2> QED BY <2>1, <2>2
<1>5. ASSUME NEW d \in Seq(Byte), b = a.tag \o d, Cut(x, d, c)
      PROVE  \/ DeserializeAttestation(b).st = "error"
             \/ /\ HasHeight(a.tag)
                /\ \E w \in 0..(a.val[1] - 1) :
                     DeserializeAttestation(b) = Ok([tag |-> a.tag, val |-> <<w>>], <<>>)
  <2>1. t = Ok(a.tag, d)
    BY <1>1, <1>5, ReadBytesWhole
  <2>2. t.st = "ok" /\ t.rest = d /\ t.val = a.tag
    BY <2>1, OkIs
  <2>3. \/ ReadVarBytes(d, MaxPayloadSize) = Failed
        \/ \E e \in Seq(Byte), z \in Seq(Byte) :
             /\ Cut(Payload(a), e, c) /\ e # <<>>
             /\ ReadVarBytes(d, MaxPayloadSize) = Ok(e \o Push(0, z), <<>>)
             /\ Zeros(z) /\ Len(z) + 1 = Len(c)
    BY <1>1, <1>5, Limits, ReadVarBytesCut
  <2>4. CASE ReadVarBytes(d, MaxPayloadSize) = Failed
    <3>1. p = Failed
      BY <2>2, <2>4
    <3> HIDE DEF p, t
    <3> QED BY <1>3, <2>2, <3>1, FailedIs
  <2>5. ASSUME NEW e \in Seq(Byte), NEW z \in Seq(Byte), Cut(Payload(a), e, c), e # <<>>,
               ReadVarBytes(d, MaxPayloadSize) = Ok(e \o Push(0, z), <<>>),
               Zeros(z), Len(z) + 1 = Len(c)
        PROVE  \/ DeserializeAttestation(b).st = "error"
               \/ /\ HasHeight(a.tag)
                  /\ \E w \in 0..(a.val[1] - 1) :
                       DeserializeAttestation(b) = Ok([tag |-> a.tag, val |-> <<w>>], <<>>)
    <3> DEFINE s == e \o Push(0, z)
               Q == ReadPayload(a.tag, s)
    <3>1. s \in Seq(Byte) /\ s # <<>>
      <4> DEFINE f == Push(0, z)
      <4>1. f \in Seq(Byte) /\ Len(f) = 1 + Len(z)
        BY PushIs, ZeroByte
      <4> HIDE DEF f
      <4>2. Len(e \o f) = Len(e) + (1 + Len(z)) /\ e \o f \in Seq(Byte)
        BY <4>1, ConcatIs
      <4>3. Len(e \o f) # 0
        BY <4>2, StringIs
      <4> QED BY <4>2, <4>3, StringIs DEF f
    <3>2. p = Ok(s, <<>>)
      BY <2>2, <2>5
    <3> HIDE DEF s, p
    <3>3. p.st = "ok" /\ p.val = s /\ p.rest = <<>>
      BY <3>2, OkIs
    <3>4. q = Q
      BY <2>2, <3>3
    <3> HIDE DEF p, t, s
    <3>5. DeserializeAttestation(b) =
            IF Q.st # "ok" THEN Q
            ELSE IF Q.rest # <<>> THEN Failed
            ELSE Ok([tag |-> a.tag, val |-> Q.val], <<>>)
      BY <1>3, <2>2, <3>3, <3>4
    <3>6. CASE HasHeight(a.tag)
      <4> DEFINE h == a.val[1]
      <4>1. h \in 0..(Word - 1) /\ Cut(WriteVarUint[h], e, c)
        BY <2>5, <3>6, AttestationIs, PayloadIs
      <4>2. PICK w \in 0..(h - 1) : ReadVarUint[s] = Ok(w, z)
        BY <2>5, <4>1, HeightCut DEF s
      <4>3. Q = Ok(<<w>>, z)
        BY <3>6, <4>2, ReadPayloadIs DEF Ok
      <4>4. Q.st = "ok" /\ Q.val = <<w>> /\ Q.rest = z
        BY <4>3, OkIs
      <4> HIDE DEF Q
      <4>5. CASE z = <<>>
        BY <3>5, <3>6, <4>2, <4>4, <4>5
      <4>6. CASE z # <<>>
        BY <3>5, <4>4, <4>6, FailedIs
      <4> QED BY <4>5, <4>6
    <3>7. CASE a.tag = pendingTag
      <4> DEFINE r == ReadVarBytes(s, MaxURILength)
      <4>1. a.val \in URI /\ Cut(WriteVarBytes(a.val), e, c) /\ Q = CheckURI(r)
        BY <2>5, <3>7, AttestationIs, PayloadIs, ReadPayloadIs
      <4>2. Q = Failed \/ (Q.st = "ok" /\ Q.rest # <<>>)
        BY <2>5, <4>1, URICut DEF s
      <4> HIDE DEF Q
      <4> QED BY <3>5, <4>2, FailedIs
    <3>8. CASE IsUnknown(a.tag)
      <4>1. Q = Ok(s, s)
        BY <3>8, ReadPayloadIs
      <4>2. Q.st = "ok" /\ Q.rest = s
        BY <4>1, OkIs
      <4> HIDE DEF Q
      <4> QED BY <3>1, <3>5, <4>2, FailedIs
    <3> QED BY <3>6, <3>7, <3>8, Kinds
  <2> QED BY <2>3, <2>4, <2>5
<1> HIDE DEF x
<1>6. \/ \E d \in Seq(Byte) : Cut(a.tag, b, d)
      \/ \E d \in Seq(Byte) : b = a.tag \o d /\ Cut(x, d, c)
  BY <1>1, <1>2, CutConcat
<1> QED BY <1>4, <1>5, <1>6, FailedIs

-----------------------------------------------------------------------------
(***************************************************************************)
(* Ops.                                                                    *)
(***************************************************************************)

\* The parts of an op.
LEMMA OpIs ==
  ASSUME NEW o \in Op
  PROVE  /\ o.tag \in 1..6 /\ o.tag \in Byte /\ o.arg \in Seq(Byte) /\ Len(o.arg) \in 0..MaxLength
         /\ o = [tag |-> o.tag, arg |-> o.arg]
         /\ IsBinary(o.tag) => Len(o.arg) \in 1..MaxLength
         /\ ~IsBinary(o.tag) => o.arg = <<>>
<1>1. /\ o.tag \in 1..6 /\ o.arg \in Seq(Byte) /\ Len(o.arg) \in 0..MaxLength
      /\ o = [tag |-> o.tag, arg |-> o.arg]
      /\ IsBinary(o.tag) <=> o.arg # <<>>
  BY DEF Op, OpTag, Bytes
<1>2. o.tag \in Byte
  BY <1>1, Sizes DEF Byte
<1>3. o.arg # <<>> => Len(o.arg) \in 1..MaxLength
  BY <1>1, StringIs, Limits
<1> QED BY <1>1, <1>2, <1>3

\* What makes an op.
LEMMA IsOp ==
  ASSUME NEW tag \in OpTag, NEW arg \in Seq(Byte), Len(arg) <= MaxLength,
         IsBinary(tag) <=> Len(arg) # 0
  PROVE  [tag |-> tag, arg |-> arg] \in Op
<1>1. arg \in Bytes(0, MaxLength)
  BY StringIs, Limits DEF Bytes
<1>2. IsBinary(tag) <=> arg # <<>>
  BY StringIs
<1> QED BY <1>1, <1>2 DEF Op

\* What SerializeOp writes after the tag.
OpRest(o) == IF IsBinary(o.tag) THEN WriteVarBytes(o.arg) ELSE <<>>

\* An op is written as its tag and, if it has one, its argument.
LEMMA OpBytes ==
  ASSUME NEW o \in Op
  PROVE  OpRest(o) \in Seq(Byte) /\ SerializeOp(o) = Push(o.tag, OpRest(o))
<1>1. SerializeOp(o) = Push(o.tag, OpRest(o))
  BY DEF SerializeOp, OpRest, Push
<1>2. o.arg \in Seq(Byte) /\ Len(o.arg) \in Nat
  BY OpIs, StringIs
<1>3. WriteVarUint[Len(o.arg)] \in Seq(Byte)
  BY <1>2, WriteByte
<1>4. WriteVarBytes(o.arg) \in Seq(Byte)
  BY <1>2, <1>3, ConcatIs DEF WriteVarBytes
<1> QED BY <1>1, <1>4, StringIs DEF OpRest

\* op.DeserializeFromTag case by case.
LEMMA FromTagCases ==
  ASSUME NEW b, NEW tag, NEW r, r = ReadVarBytesMinMax(b, 1, MaxLength)
  PROVE  DeserializeFromTag(b, tag) =
           IF tag \notin OpTag THEN Failed
           ELSE IF IsBinary(tag)
                THEN IF r.st = "ok" THEN Ok([tag |-> tag, arg |-> r.val], r.rest) ELSE r
           ELSE Ok([tag |-> tag, arg |-> <<>>], b)
BY DEF DeserializeFromTag

\* op.DeserializeFromTag returns an op or refuses.
LEMMA DeserializeFromTagIs ==
  ASSUME NEW b \in Seq(Byte), NEW tag
  PROVE  LET r == DeserializeFromTag(b, tag)
         IN  /\ r \in Results(Op)
             /\ r.st = "ok" => Len(r.rest) <= Len(b)
<1> DEFINE r == ReadVarBytesMinMax(b, 1, MaxLength)
           res == DeserializeFromTag(b, tag)
<1>1. /\ r \in Results(Seq(Byte))
      /\ r.st = "ok" => Len(r.val) \in 1..MaxLength /\ Len(r.rest) < Len(b)
  <2> DEFINE low == 1
             high == MaxLength
  <2>1. low \in Int /\ high \in Int
    BY Limits
  <2> HIDE DEF low, high
  <2>2. LET s == ReadVarBytesMinMax(b, low, high)
        IN  /\ s \in Results(Seq(Byte))
            /\ s.st = "ok" => Len(s.val) \in low..high /\ Len(s.rest) < Len(b)
    BY <2>1, VarBytesIs
  <2> QED BY <2>2 DEF low, high
<1>2. res = IF tag \notin OpTag THEN Failed
            ELSE IF IsBinary(tag)
                 THEN IF r.st = "ok" THEN Ok([tag |-> tag, arg |-> r.val], r.rest) ELSE r
            ELSE Ok([tag |-> tag, arg |-> <<>>], b)
  BY FromTagCases
<1>3. CASE tag \notin OpTag
  BY <1>2, <1>3, FailedIs
<1>4. CASE tag \in OpTag /\ IsBinary(tag)
  <2>1. CASE r.st # "ok"
    BY <1>1, <1>2, <1>4, <2>1, ResultIs, FailedIs
  <2>2. CASE r.st = "ok"
    <3> DEFINE o == [tag |-> tag, arg |-> r.val]
    <3>1. /\ r.val \in Seq(Byte) /\ r.rest \in Seq(Byte)
          /\ Len(r.val) \in 1..MaxLength /\ Len(r.rest) < Len(b)
      BY <1>1, <2>2, ResultIs
    <3>2. Len(r.val) <= MaxLength /\ Len(r.val) # 0 /\ Len(r.rest) <= Len(b)
      BY <3>1, Limits, StringIs
    <3>3. o \in Op
      BY <1>4, <3>1, <3>2, IsOp
    <3>4. res = Ok(o, r.rest)
      BY <1>2, <1>4, <2>2
    <3> HIDE DEF o, r
    <3> QED BY <3>1, <3>2, <3>3, <3>4, OkIs
  <2> QED BY <2>1, <2>2
<1>5. CASE tag \in OpTag /\ ~IsBinary(tag)
  <2> DEFINE o == [tag |-> tag, arg |-> <<>>]
  <2> DEFINE none == <<>>
  <2>0. none \in Seq(Byte) /\ Len(none) = 0 /\ Len(none) <= MaxLength
    BY StringIs, Limits
  <2> HIDE DEF none
  <2>1. [tag |-> tag, arg |-> none] \in Op
    BY <1>5, <2>0, IsOp
  <2>2. res = Ok(o, b)
    BY <1>2, <1>5
  <2> HIDE DEF o
  <2>3. o \in Op
    BY <2>1 DEF o, none
  <2> QED BY <2>2, <2>3, OkIs, StringIs
<1> QED BY <1>3, <1>4, <1>5

\* op.DeserializeFromTag reads back what was written.
LEMMA OpWhole ==
  ASSUME NEW o \in Op, NEW rest \in Seq(Byte)
  PROVE  DeserializeFromTag(OpRest(o) \o rest, o.tag) = Ok(o, rest)
<1> DEFINE b == OpRest(o) \o rest
           r == ReadVarBytesMinMax(b, 1, MaxLength)
<1>1. /\ o.tag \in OpTag /\ o.arg \in Seq(Byte) /\ o = [tag |-> o.tag, arg |-> o.arg]
      /\ IsBinary(o.tag) => Len(o.arg) \in 1..MaxLength
      /\ ~IsBinary(o.tag) => o.arg = <<>>
  BY OpIs DEF OpTag
<1>2. DeserializeFromTag(b, o.tag) =
        IF o.tag \notin OpTag THEN Failed
        ELSE IF IsBinary(o.tag)
             THEN IF r.st = "ok" THEN Ok([tag |-> o.tag, arg |-> r.val], r.rest) ELSE r
        ELSE Ok([tag |-> o.tag, arg |-> <<>>], b)
  BY FromTagCases
<1>3. CASE IsBinary(o.tag)
  <2> DEFINE low == 1
             high == MaxLength
  <2>1. low \in Int /\ high \in Int /\ Len(o.arg) \in low..high /\ high < Word \div 2
    BY <1>1, <1>3, Limits
  <2>2. b = WriteVarBytes(o.arg) \o rest
    BY <1>3 DEF OpRest
  <2> HIDE DEF low, high
  <2>3. ReadVarBytesMinMax(WriteVarBytes(o.arg) \o rest, low, high) = Ok(o.arg, rest)
    BY <1>1, <2>1, VarBytesWhole
  <2>4. r = Ok(o.arg, rest)
    BY <2>2, <2>3 DEF low, high
  <2>5. r.st = "ok" /\ r.val = o.arg /\ r.rest = rest
    BY <2>4, OkIs
  <2> HIDE DEF r, b
  <2>6. DeserializeFromTag(b, o.tag) = Ok(o, rest)
    BY <1>1, <1>2, <1>3, <2>5
  <2> QED BY <2>6 DEF b
<1>4. CASE ~IsBinary(o.tag)
  <2>1. b = rest
    BY <1>4, StringIs DEF OpRest
  <2> QED BY <1>1, <1>2, <1>4, <2>1
<1> QED BY <1>3, <1>4

\* Of an op that is cut nothing is read, or an op after which nothing is left.
LEMMA OpCut ==
  ASSUME NEW o \in Op, NEW b, NEW c, Cut(OpRest(o), b, c)
  PROVE  \/ DeserializeFromTag(b, o.tag) = Failed
         \/ \E p \in Op : DeserializeFromTag(b, o.tag) = Ok(p, <<>>)
<1> DEFINE r == ReadVarBytesMinMax(b, 1, MaxLength)
           res == DeserializeFromTag(b, o.tag)
<1>1. /\ o.tag \in OpTag /\ o.arg \in Seq(Byte)
      /\ IsBinary(o.tag) => Len(o.arg) \in 1..MaxLength
  BY OpIs DEF OpTag
<1>2. b \in Seq(Byte) /\ c \in Seq(Byte) /\ c # <<>> /\ OpRest(o) = b \o c
  BY DEF Cut
<1>3. res =
        IF o.tag \notin OpTag THEN Failed
        ELSE IF IsBinary(o.tag)
             THEN IF r.st = "ok" THEN Ok([tag |-> o.tag, arg |-> r.val], r.rest) ELSE r
        ELSE Ok([tag |-> o.tag, arg |-> <<>>], b)
  BY FromTagCases
<1>4. res \in Results(Op)
  BY <1>2, DeserializeFromTagIs
<1>5. CASE ~IsBinary(o.tag)
  <2>1. <<>> = b \o c
    BY <1>2, <1>5 DEF OpRest
  <2>2. Len(b \o c) = Len(b) + Len(c) /\ Len(b) \in Nat /\ Len(c) \in Nat /\ Len(c) # 0
    BY <1>2, ConcatIs, StringIs
  <2>3. Len(b \o c) # 0
    BY <2>2
  <2> QED BY <2>1, <2>3, StringIs
<1>6. CASE IsBinary(o.tag)
  <2> DEFINE low == 1
             high == MaxLength
  <2>1. low \in Int /\ high \in Int /\ Len(o.arg) \in low..high /\ high < Word \div 2
    BY <1>1, <1>6, Limits
  <2>2. Cut(WriteVarBytes(o.arg), b, c)
    BY <1>6 DEF OpRest
  <2> HIDE DEF low, high
  <2>3. \/ ReadVarBytesMinMax(b, low, high) = Failed
        \/ \E s : ReadVarBytesMinMax(b, low, high) = Ok(s, <<>>)
    BY <1>1, <2>1, <2>2, VarBytesCut
  <2>4. r = Failed \/ \E s : r = Ok(s, <<>>)
    BY <2>3 DEF low, high
  <2> HIDE DEF r
  <2>5. CASE r = Failed
    BY <1>1, <1>3, <1>6, <2>5, FailedIs
  <2>6. ASSUME NEW s, r = Ok(s, <<>>)
        PROVE  \E p \in Op : res = Ok(p, <<>>)
    <3> DEFINE p == [tag |-> o.tag, arg |-> s]
    <3>1. r.st = "ok" /\ r.val = s /\ r.rest = <<>>
      BY <2>6, OkIs
    <3>2. res = Ok(p, <<>>)
      BY <1>1, <1>3, <1>6, <3>1
    <3> HIDE DEF p, res
    <3>3. res.st = "ok" /\ res.val = p
      BY <3>2, OkIs
    <3>4. p \in Op
      BY <1>4, <3>3, ResultIs
    <3> QED BY <3>2, <3>4
  <2> QED BY <2>4, <2>5, <2>6
<1> QED BY <1>5, <1>6
=============================================================================
