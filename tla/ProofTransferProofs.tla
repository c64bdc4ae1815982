------------------------ MODULE ProofTransferProofs -------------------------
(***************************************************************************)
(* Theorems about ProofTransfer, for any attestations and ops, any sizes   *)
(* of the format, any limits and any damage to the bytes.                  *)
(***************************************************************************)
EXTENDS CodecProofs

-----------------------------------------------------------------------------
(***************************************************************************)
(* Detached files.                                                         *)
(***************************************************************************)

\* The digest and the recursion limit are within the limits.
LEMMA LimitsIs ==
  /\ DigestLength \in Nat /\ DigestLength # 0 /\ DigestLength <= MaxLength
  /\ RecursionLimit \in Nat /\ RecursionLimit # 0 /\ Stamps[RecursionLimit] \subseteq Stamp
<1>1. DigestLength \in Nat /\ DigestLength # 0 /\ DigestLength <= MaxLength
  BY SizesAssumption
<1>2. Stamps[RecursionLimit] \subseteq Stamps[MaxNesting]
  BY Nesting, StampsMonotone
<1> QED BY <1>1, <1>2, Nesting DEF Stamp

\* Reading bytes returns a timestamp or refuses.
LEMMA BytesTyped ==
  ASSUME NEW b \in Seq(Byte)
  PROVE  DeserializeBytes(b) \in Results(Stamp)
<1> DEFINE r == DeserializeBytes(b)
<1>1. r \in Shorter(Len(b), RecursionLimit)
  BY LimitsIs, DeserializeIs DEF DeserializeBytes
<1> HIDE DEF r
<1>2. CASE r.st = "ok"
  <2>1. r.val \in Stamp /\ r.rest \in Seq(Byte) /\ r = Ok(r.val, r.rest)
    BY <1>1, <1>2, ShorterIs, LimitsIs
  <2> DEFINE v == r.val
             s == r.rest
  <2> HIDE DEF v, s
  <2>2. Ok(v, s) \in Results(Stamp)
    BY <2>1, OkIs DEF v, s
  <2> QED BY <2>1, <2>2 DEF r, v, s
<1>3. CASE r.st # "ok"
  <2>1. r \in {Failed, Panicked}
    BY <1>1, <1>3, ShorterIs
  <2>2. r \in Results(Stamp)
    BY <2>1, FailedIs
  <2> QED BY <2>2 DEF r
<1> QED BY <1>2, <1>3

\* The magic is bytes.
LEMMA Magic == headerMagic \in Seq(Byte) /\ Len(headerMagic) = 2
BY Sizes DEF headerMagic, Byte

\* AssertEOF.
AtEnd(r) == IF r.st = "ok" /\ r.rest # <<>> THEN Failed ELSE r

\* DeserializeDetachedTimestampFile step by step.
LEMMA DetachedSteps ==
  ASSUME NEW b, NEW m, m = ReadBytes(b, 2), NEW v, v = m.rest,
         NEW o, o = DeserializeFromTag(SubSeq(v, 3, Len(v)), v[2]),
         NEW d, d = ReadBytes(o.rest, DigestLength),
         NEW r, r = DeserializeBytes(d.rest)
  PROVE  DeserializeDetached(b) =
           IF m.st # "ok" \/ m.val # headerMagic THEN Failed
           ELSE IF Len(v) < 2 \/ v[1] # majorVersion THEN Failed
           ELSE IF o.st # "ok" THEN o
           ELSE IF o.val.tag # sha256Tag THEN Failed
           ELSE IF d.st # "ok" THEN d
           ELSE AtEnd(r)
BY Magic DEF DeserializeDetached, AtEnd

\* A detached file is refused, or what is read of it is the bare timestamp
\* it contains.
LEMMA DetachedCases ==
  ASSUME NEW b \in Seq(Byte)
  PROVE  \/ DeserializeDetached(b) \in {Failed, Panicked}
         \/ \E e \in Seq(Byte) : DeserializeDetached(b) = DeserializeBytes(e)
<1> DEFINE m == ReadBytes(b, 2)
           v == m.rest
           o == DeserializeFromTag(SubSeq(v, 3, Len(v)), v[2])
           d == ReadBytes(o.rest, DigestLength)
           r == DeserializeBytes(d.rest)
           z == DeserializeDetached(b)
<1>1. z = IF m.st # "ok" \/ m.val # headerMagic THEN Failed
           ELSE IF Len(v) < 2 \/ v[1] # majorVersion THEN Failed
           ELSE IF o.st # "ok" THEN o
           ELSE IF o.val.tag # sha256Tag THEN Failed
           ELSE IF d.st # "ok" THEN d
           ELSE AtEnd(r)
  BY DetachedSteps
<1>2. m \in Results(Seq(Byte))
  BY ReadBytesIs
<1> HIDE DEF m, z
<1>3. CASE m.st # "ok" \/ m.val # headerMagic
  <2> HIDE DEF o, d, r, v
  <2>1. z = Failed
    BY <1>1, <1>3
  <2> QED BY <2>1 DEF z
<1>4. CASE ~(m.st # "ok" \/ m.val # headerMagic)
  <2>1. v \in Seq(Byte)
    BY <1>2, <1>4, ResultIs
  <2> HIDE DEF v
  <2>2. SubSeq(v, 3, Len(v)) \in Seq(Byte)
    BY <2>1
  <2>3. o \in Results(Op)
    BY <2>2, DeserializeFromTagIs
  <2> HIDE DEF o
  <2>4. CASE o.st # "ok"
    <3>1. o \in {Failed, Panicked}
      BY <2>3, <2>4, ResultIs
    <3> HIDE DEF d, r
    <3>2. z \in {Failed, Panicked}
      BY <1>1, <1>4, <2>4, <3>1
    <3> QED BY <3>2 DEF z
  <2>5. CASE o.st = "ok"
    <3>1. o.rest \in Seq(Byte)
      BY <2>3, <2>5, ResultIs
    <3>2. d \in Results(Seq(Byte))
      BY <3>1, LimitsIs, ReadBytesIs
    <3> HIDE DEF d
    <3>3. CASE d.st # "ok"
      <4>1. d \in {Failed, Panicked}
        BY <3>2, <3>3, ResultIs
      <4> HIDE DEF r
      <4>2. z \in {Failed, Panicked}
        BY <1>1, <1>4, <2>5, <3>3, <4>1
      <4> QED BY <4>2 DEF z
    <3>4. CASE d.st = "ok"
      <4>1. d.rest \in Seq(Byte)
        BY <3>2, <3>4, ResultIs
      <4> HIDE DEF r
      <4>2. z = Failed \/ z = r
        BY <1>1, <1>4, <2>5, <3>4 DEF AtEnd
      <4> QED BY <4>1, <4>2 DEF z, r
    <3> QED BY <3>3, <3>4
  <2> QED BY <2>4, <2>5
<1> QED BY <1>3, <1>4

\* Reading a detached file returns a timestamp or refuses.
LEMMA DetachedTyped ==
  ASSUME NEW b \in Seq(Byte)
  PROVE  DeserializeDetached(b) \in Results(Stamp)
BY DetachedCases, BytesTyped, FailedIs

\* The version, the file hash op and the digest are bytes.
LEMMA Preamble ==
  /\ majorVersion \in Byte /\ sha256Tag \in Byte
  /\ digest \in Seq(Byte) /\ Len(digest) = DigestLength
<1>1. majorVersion \in Byte /\ sha256Tag \in Byte
  BY Sizes DEF majorVersion, sha256Tag, Byte
<1>2. \A i \in Nat : i % Group \in Byte
  BY SizesAssumption DEF Byte
<1>3. digest \in [1..DigestLength -> Byte]
  BY <1>2 DEF digest
<1>4. digest \in Seq(Byte) /\ Len(digest) = DigestLength
  BY <1>3, LimitsIs
<1> QED BY <1>1, <1>4

\* A detached file with the timestamp s.
Header(s) == headerMagic \o Push(majorVersion, Push(sha256Tag, digest \o s))

\* A detached file is bytes.
LEMMA HeaderIs ==
  ASSUME NEW s \in Seq(Byte)
  PROVE  /\ digest \o s \in Seq(Byte)
         /\ Push(sha256Tag, digest \o s) \in Seq(Byte)
         /\ Push(majorVersion, Push(sha256Tag, digest \o s)) \in Seq(Byte)
         /\ Header(s) \in Seq(Byte)
<1>1. digest \o s \in Seq(Byte)
  BY Preamble, ConcatIs
<1>2. Push(sha256Tag, digest \o s) \in Seq(Byte)
  BY <1>1, Preamble, PushIs
<1>3. Push(majorVersion, Push(sha256Tag, digest \o s)) \in Seq(Byte)
  BY <1>2, Preamble, PushIs
<1>4. Header(s) \in Seq(Byte)
  BY <1>3, Magic, ConcatIs DEF Header
<1> QED BY <1>1, <1>2, <1>3, <1>4

\* What SerializeDetached writes.
LEMMA DetachedIs ==
  ASSUME NEW t \in Stamp
  PROVE  SerializeDetached(digest, t) = Header(Serialize[t])
<1> DEFINE s == Serialize[t]
           p == <<majorVersion, sha256Tag>>
<1>1. s \in Seq(Byte)
  BY SerializeIs
<1>2. p \in Seq(Byte)
  BY Preamble
<1> HIDE DEF s
<1>3. p \o (digest \o s) = Push(majorVersion, Push(sha256Tag, digest \o s))
  <2> DEFINE q == digest \o s
             x == Push(sha256Tag, <<>>)
  <2>1. q \in Seq(Byte)
    BY <1>1, HeaderIs
  <2> HIDE DEF q
  <2>2. x \in Seq(Byte) /\ x \o q = Push(sha256Tag, <<>> \o q)
    BY <2>1, Preamble, PushIs, PushConcat, StringIs
  <2>3. p = Push(majorVersion, x)
    BY DEF Push
  <2> HIDE DEF p, x
  <2>4. p \o q = Push(majorVersion, x \o q)
    BY <2>1, <2>2, <2>3, Preamble, PushConcat
  <2>5. <<>> \o q = q
    BY <2>1, StringIs
  <2> QED BY <2>2, <2>4, <2>5 DEF p, q
<1> HIDE DEF p
<1>4. ((headerMagic \o p) \o digest) \o s = headerMagic \o (p \o (digest \o s))
  <2>1. headerMagic \o p \in Seq(Byte) /\ digest \o s \in Seq(Byte)
    BY <1>1, <1>2, Magic, ConcatIs, HeaderIs
  <2>2. ((headerMagic \o p) \o digest) \o s = (headerMagic \o p) \o (digest \o s)
    BY <1>1, <2>1, Preamble, ConcatAssoc
  <2>3. (headerMagic \o p) \o (digest \o s) = headerMagic \o (p \o (digest \o s))
    BY <1>2, <2>1, Magic, ConcatAssoc
  <2> QED BY <2>2, <2>3
<1>5. SerializeDetached(digest, t) = ((headerMagic \o p) \o digest) \o s
  BY DEF SerializeDetached, p, s
<1> QED BY <1>3, <1>4, <1>5 DEF Header, s

\* What follows a detached file follows its timestamp.
LEMMA HeaderMore ==
  ASSUME NEW s \in Seq(Byte), NEW rest \in Seq(Byte)
  PROVE  Header(s) \o rest = Header(s \o rest)
<1> DEFINE q == digest \o s
           x == Push(sha256Tag, q)
           y == Push(majorVersion, x)
<1>1. q \in Seq(Byte) /\ x \in Seq(Byte) /\ y \in Seq(Byte)
  BY HeaderIs
<1>2. q \o rest = digest \o (s \o rest)
  BY Preamble, ConcatAssoc
<1> HIDE DEF q
<1>3. x \o rest = Push(sha256Tag, q \o rest)
  BY <1>1, Preamble, PushConcat
<1> HIDE DEF x
<1>4. y \o rest = Push(majorVersion, x \o rest)
  BY <1>1, Preamble, PushConcat
<1> HIDE DEF y
<1>5. (headerMagic \o y) \o rest = headerMagic \o (y \o rest)
  BY <1>1, Magic, ConcatAssoc
<1> QED BY <1>2, <1>3, <1>4, <1>5 DEF Header, q, x, y

\* The bytes after the version.
LEMMA AfterVersion ==
  ASSUME NEW q \in Seq(Byte)
  PROVE  LET v == Push(majorVersion, Push(sha256Tag, q))
         IN  /\ v \in Seq(Byte) /\ ~(Len(v) < 2) /\ v[1] = majorVersion /\ v[2] = sha256Tag
             /\ SubSeq(v, 3, Len(v)) = q
<1> DEFINE x == Push(sha256Tag, q)
           v == Push(majorVersion, x)
           n == Len(q)
<1>1. /\ x \in Seq(Byte) /\ Len(x) = 1 + n /\ n \in Nat /\ x[1] = sha256Tag
      /\ \A i \in 1..n : x[i + 1] = q[i]
  BY Preamble DEF Push
<1> HIDE DEF x
<1>2. /\ v \in Seq(Byte) /\ Len(v) = 1 + Len(x) /\ v[1] = majorVersion
      /\ \A i \in 1..Len(x) : v[i + 1] = x[i]
  BY <1>1, Preamble DEF Push
<1> HIDE DEF v, n
<1>3. Len(v) = n + 2 /\ ~(Len(v) < 2)
  BY <1>1, <1>2
<1>4. v[2] = sha256Tag
  <2>1. 1 \in 1..Len(x) /\ 1 + 1 = 2
    BY <1>1
  <2>2. \A i \in 1..Len(x) : v[i + 1] = x[i]
    BY <1>2
  <2> HIDE DEF v, x
  <2>3. v[1 + 1] = x[1]
    BY <2>1, <2>2
  <2> QED BY <1>1, <2>1, <2>3
<1>5. \A i \in 1..n : v[i + 2] = q[i]
  <2> SUFFICES ASSUME NEW i \in 1..n PROVE v[i + 2] = q[i]
    OBVIOUS
  <2>1. i + 1 \in 1..Len(x) /\ (i + 1) + 1 = i + 2
    BY <1>1
  <2> QED BY <1>1, <1>2, <2>1
<1> DEFINE u == SubSeq(v, 3, Len(v))
<1>6. u \in Seq(Byte) /\ Len(u) = n /\ \A i \in 1..n : u[i] = v[i + 2]
  BY <1>1, <1>2, <1>3
<1> HIDE DEF u
<1>7. u = q
  BY <1>5, <1>6, SameString DEF n
<1> QED BY <1>2, <1>3, <1>4, <1>7 DEF u, v, x

\* The file hash op is read back.
LEMMA HashOp ==
  ASSUME NEW q \in Seq(Byte)
  PROVE  LET o == DeserializeFromTag(q, sha256Tag)
         IN  o.st = "ok" /\ o.val.tag = sha256Tag /\ o.rest = q
BY OkIs DEF DeserializeFromTag, sha256Tag, OpTag, IsBinary, appendTag, prependTag, Ok

\* Past the magic, the version and the hash op comes the digest.
LEMMA AfterHeader ==
  ASSUME NEW q \in Seq(Byte), NEW d, d = ReadBytes(q, DigestLength)
  PROVE  DeserializeDetached(headerMagic \o Push(majorVersion, Push(sha256Tag, q))) =
           IF d.st # "ok" THEN d ELSE AtEnd(DeserializeBytes(d.rest))
<1> DEFINE v == Push(majorVersion, Push(sha256Tag, q))
           b == headerMagic \o v
           m == ReadBytes(b, 2)
           o == DeserializeFromTag(q, sha256Tag)
           r == DeserializeBytes(d.rest)
<1>1. v \in Seq(Byte) /\ ~(Len(v) < 2) /\ v[1] = majorVersion /\ v[2] = sha256Tag
      /\ SubSeq(v, 3, Len(v)) = q
  BY AfterVersion
<1> HIDE DEF v
<1>2. m = Ok(headerMagic, v)
  BY <1>1, Magic, ReadBytesWhole
<1> HIDE DEF b
<1>3. m = ReadBytes(b, 2) /\ o.st = "ok" /\ o.val.tag = sha256Tag /\ o.rest = q
  BY HashOp
<1> HIDE DEF m, o
<1>4. m.st = "ok" /\ m.val = headerMagic /\ v = m.rest
  BY <1>2, OkIs
<1>5. o = DeserializeFromTag(SubSeq(v, 3, Len(v)), v[2]) /\ d = ReadBytes(o.rest, DigestLength)
  BY <1>1, <1>3 DEF o
<1> HIDE DEF r
<1>6. r = DeserializeBytes(d.rest)
  BY DEF r
<1>7. DeserializeDetached(b) =
           IF m.st # "ok" \/ m.val # headerMagic THEN Failed
           ELSE IF Len(v) < 2 \/ v[1] # majorVersion THEN Failed
           ELSE IF o.st # "ok" THEN o
           ELSE IF o.val.tag # sha256Tag THEN Failed
           ELSE IF d.st # "ok" THEN d
           ELSE AtEnd(r)
  BY <1>3, <1>4, <1>5, <1>6, DetachedSteps
<1>8. DeserializeDetached(b) = IF d.st # "ok" THEN d ELSE AtEnd(r)
  BY <1>1, <1>3, <1>4, <1>7
<1> QED BY <1>8 DEF b, v, r

\* A detached file is read as its timestamp, at the end of which nothing may
\* follow.
LEMMA HeaderWhole ==
  ASSUME NEW s \in Seq(Byte)
  PROVE  DeserializeDetached(Header(s)) = AtEnd(DeserializeBytes(s))
<1> DEFINE q == digest \o s
           d == ReadBytes(q, DigestLength)
<1>1. q \in Seq(Byte)
  BY HeaderIs
<1>2. d = Ok(digest, s)
  BY Preamble, ReadBytesWhole
<1> HIDE DEF q
<1>3. d = ReadBytes(q, DigestLength)
  OBVIOUS
<1> HIDE DEF d
<1>4. DeserializeDetached(Header(s)) = IF d.st # "ok" THEN d ELSE AtEnd(DeserializeBytes(d.rest))
  BY <1>1, <1>3, AfterHeader DEF Header, q
<1>5. d.st = "ok" /\ d.rest = s
  BY <1>2, OkIs
<1> QED BY <1>4, <1>5

-----------------------------------------------------------------------------
(***************************************************************************)
(* The inductive invariant.                                                *)
(***************************************************************************)

\* The sender applied every op, and no node has two edges under one op.
Composed == Applicable[<<tree, DigestLength>>] /\ Distinct[tree]

\* What the receiver read are the bytes it has, and how they come from those
\* the sender wrote.
Delivered ==
  damage # "unsent" =>
    /\ Serializable[tree]
    /\ got = Read(form, wire)
    /\ damage = "none" => wire = Write(form)
    /\ damage = "trailing" => \E v \in Trailing : wire = Append(Write(form), v)
    /\ damage = "cut" => \E c : Cut(Write(form), wire, c)

\* Nothing was read before anything was sent.
Unread == damage = "unsent" => got = Failed

\* The inductive invariant.
IInv == TypeOK /\ Composed /\ Unread /\ Delivered

\* Reading either form returns a timestamp or refuses.
LEMMA ReadTyped ==
  ASSUME NEW f, NEW b \in Seq(Byte)
  PROVE  Read(f, b) \in Results(Stamp)
BY BytesTyped, DetachedTyped DEF Read

\* Writing either form writes bytes.
LEMMA WriteIs ==
  ASSUME NEW f, tree \in Stamp
  PROVE  Write(f) \in Seq(Byte)
<1>1. Serialize[tree] \in Seq(Byte)
  BY SerializeIs
<1>2. SerializeDetached(digest, tree) \in Seq(Byte)
  BY <1>1, DetachedIs, HeaderIs
<1> QED BY <1>1, <1>2 DEF Write

\* The tree at the start.
LEMMA EmptyTree == Empty \in Stamp /\ Applicable[<<Empty, DigestLength>>] /\ Distinct[Empty]
<1>1. MaxNesting \in Nat /\ MaxNesting # 0
  BY Nesting
<1> DEFINE C == [op : Op, stamp : Stamps[MaxNesting - 1]]
           nil == <<>>
<1>2. nil \in Seq(Attestation) /\ nil \in Seq(C) /\ DOMAIN nil = {}
  OBVIOUS
<1> HIDE DEF nil
<1>3. [atts |-> nil, ops |-> nil] \in Stamps[MaxNesting]
  BY <1>1, <1>2, IsNode
<1>4. Empty \in Stamp /\ DOMAIN Empty.ops = {}
  BY <1>2, <1>3 DEF Empty, Stamp, nil
<1>5. Applicable[<<Empty, DigestLength>>]
  BY <1>4, ApplicableIs, LimitsIs
<1>6. Distinct[Empty]
  BY <1>4, DistinctIs DEF Apart
<1> QED BY <1>4, <1>5, <1>6

\* The invariant holds at the start.
LEMMA InitIInv ==
  ASSUME Init PROVE IInv
<1>1. TypeOK
  BY EmptyTree, StringIs, FailedIs, ProofTransferAssumption DEF Init, TypeOK
<1> QED BY <1>1, EmptyTree DEF Init, IInv, Composed, Unread, Delivered

\* Composing a proof keeps the invariant.
LEMMA ComposeIInv ==
  ASSUME IInv, NEW t, NEW n \in Nat, Compose(t, n), Distinct[t]
  PROVE  IInv'
<1> USE DEF Compose
<1>1. TypeOK'
  BY ProofTransferAssumption DEF IInv, TypeOK
<1> QED BY <1>1 DEF IInv, Composed, Unread, Delivered

\* Sending a proof keeps the invariant.
LEMMA DeliverIInv ==
  ASSUME IInv, NEW f \in {"bare", "detached"}, NEW what \in {"none", "cut", "altered", "trailing"},
         NEW b \in Seq(Byte), Deliver(f, what, b),
         what = "none" => b = Write(f),
         what = "trailing" => \E v \in Trailing : b = Append(Write(f), v),
         what = "cut" => \E c : Cut(Write(f), b, c)
  PROVE  IInv'
<1>1. Read(f, b) \in Results(Stamp)
  BY ReadTyped
<1>2. TypeOK'
  BY <1>1 DEF IInv, TypeOK, Deliver
<1>3. Composed'
  BY DEF IInv, Composed, Deliver
<1>4. Write(f)' = Write(f) /\ Read(f, b)' = Read(f, b)
  BY DEF Deliver, Write, Read
<1>5. Delivered'
  <2>1. form' = f /\ damage' = what /\ wire' = b /\ got' = Read(f, b) /\ tree' = tree /\ Serializable[tree]
    BY DEF Deliver
  <2>2. Write(form)' = Write(f) /\ Read(form, wire)' = Read(f, b)
    BY <2>1 DEF Write, Read
  <2> QED BY <2>1, <2>2 DEF Delivered
<1>6. Unread'
  BY DEF Unread, Deliver
<1> QED BY <1>2, <1>3, <1>5, <1>6 DEF IInv

\* Every step keeps the invariant.
LEMMA NextIInv ==
  ASSUME IInv, [Next]_vars PROVE IInv'
<1>0. tree \in Stamp /\ Distinct[tree] /\ tree.ops \in Seq(Edge)
      /\ tree = [atts |-> tree.atts, ops |-> tree.ops]
  <2>1. tree \in Stamp /\ Distinct[tree]
    BY DEF IInv, TypeOK, Composed
  <2> QED BY <2>1, StampIs
<1>1. ASSUME NEW a \in Attestations, AddAttestation(a) PROVE IInv'
  <2> DEFINE t == [tree EXCEPT !.atts = Append(@, a)]
  <2>1. Compose(t, 1)
    BY <1>1 DEF AddAttestation
  <2>2. t.ops = tree.ops
    BY <1>0
  <2> HIDE DEF t
  <2>3. t \in Stamp
    BY <2>1 DEF Compose
  <2>4. Distinct[t]
    BY <1>0, <2>2, <2>3, DistinctIs DEF Apart
  <2> QED BY <2>1, <2>4, ComposeIInv
<1>2. ASSUME NEW o \in Ops, NEW a \in Attestations, AddOp(o, a) PROVE IInv'
  <2> DEFINE e == [op |-> o, stamp |-> Single(a)]
             s == tree.ops
             t == [tree EXCEPT !.ops = Append(@, e)]
             n == Len(s)
  <2>1. Compose(t, 2) /\ \A i \in DOMAIN s : s[i].op # o
    BY <1>2 DEF AddOp
  <2>2. t.ops = Append(s, e)
    BY <1>0
  <2>3. t \in Stamp /\ e.op = o /\ e.stamp = Single(a)
    BY <2>1 DEF Compose
  <2>4. Distinct[e.stamp]
    BY <2>3, SingleDistinct, ProofTransferAssumption
  <2>5. s \in Seq(Edge) /\ Apart(tree) /\ \A i \in DOMAIN s : Distinct[s[i].stamp]
    BY <1>0, DistinctIs
  <2> HIDE DEF t, e, s
  <2>6. n \in Nat /\ DOMAIN s = 1..n
    BY <2>5
  <2> DEFINE v == Append(s, e)
  <2>7. DOMAIN v = 1..(n + 1) /\ v[n + 1] = e /\ \A i \in 1..n : v[i] = s[i]
    BY <2>5
  <2> HIDE DEF n, v
  <2>8. \A i \in 1..(n + 1) : i \in 1..n \/ i = n + 1
    BY <2>6
  <2>9. Apart(t)
    <3>1. \A i, j \in 1..(n + 1) : v[i].op = v[j].op => i = j
      <4> SUFFICES ASSUME NEW i \in 1..(n + 1), NEW j \in 1..(n + 1), v[i].op = v[j].op PROVE i = j
        OBVIOUS
      <4>1. CASE i \in 1..n /\ j \in 1..n
        BY <2>5, <2>6, <2>7, <4>1 DEF Apart, s
      <4>2. CASE i \in 1..n /\ j = n + 1
        BY <2>1, <2>3, <2>6, <2>7, <4>2
      <4>3. CASE i = n + 1 /\ j \in 1..n
        BY <2>1, <2>3, <2>6, <2>7, <4>3
      <4> QED BY <2>8, <4>1, <4>2, <4>3
    <3> QED BY <2>2, <2>7, <3>1 DEF Apart, v
  <2>10. \A i \in DOMAIN t.ops : Distinct[t.ops[i].stamp]
    <3>1. \A i \in 1..(n + 1) : Distinct[v[i].stamp]
      BY <2>4, <2>5, <2>6, <2>7, <2>8
    <3> QED BY <2>2, <2>7, <3>1 DEF v
  <2>11. Distinct[t]
    BY <2>3, <2>9, <2>10, DistinctIs
  <2> QED BY <2>1, <2>11, ComposeIInv
<1>3. ASSUME NEW o \in Ops, AddParent(o) PROVE IInv'
  <2> DEFINE t == Under(o, tree)
             e == [op |-> o, stamp |-> tree]
             x == <<e>>
  <2>1. Compose(t, 1) /\ t.ops = x /\ e.stamp = tree
    BY <1>3, UnderIs DEF AddParent
  <2> HIDE DEF t, e
  <2>2. DOMAIN x = {1} /\ x[1] = e
    OBVIOUS
  <2> HIDE DEF x
  <2>3. t \in Stamp
    BY <2>1 DEF Compose
  <2>4. Distinct[t]
    BY <1>0, <2>1, <2>2, <2>3, DistinctIs DEF Apart
  <2> QED BY <2>1, <2>4, ComposeIInv
<1>4. ASSUME NEW f \in {"bare", "detached"}, Send(f) PROVE IInv'
  <2>1. Write(f) \in Seq(Byte)
    BY <1>0, WriteIs
  <2> DEFINE w == Write(f)
  <2>2. w \in Seq(Byte) /\ Deliver(f, "none", w) /\ w = Write(f)
    BY <1>4, <2>1 DEF Send
  <2> HIDE DEF w
  <2> QED BY <2>2, DeliverIInv
<1>5. ASSUME NEW f \in {"bare", "detached"}, SendCut(f) PROVE IInv'
  <2>1. PICK w \in {Write(f)} : \E k \in 0..(Len(w) - 1) : Deliver(f, "cut", SubSeq(w, 1, k))
    BY <1>5 DEF SendCut
  <2>2. PICK k \in 0..(Len(w) - 1) : Deliver(f, "cut", SubSeq(w, 1, k))
    BY <2>1
  <2>3. w = Write(f) /\ w \in Seq(Byte)
    BY <1>0, <2>1, WriteIs
  <2> DEFINE b == SubSeq(w, 1, k)
             c == SubSeq(w, k + 1, Len(w))
             n == Len(w)
  <2>4. /\ b \in Seq(Byte) /\ c \in Seq(Byte) /\ Len(b) = k /\ Len(c) = n - k /\ n \in Nat
        /\ \A i \in 1..k : b[i] = w[i]
        /\ \A i \in 1..(n - k) : c[i] = w[i + k]
    BY <2>3
  <2> HIDE DEF b, c
  <2>5. w = b \o c
    <3>1. \A i \in 1..Len(b) : w[i] = b[i]
      BY <2>4
    <3>2. \A i \in 1..Len(c) : w[Len(b) + i] = c[i]
      <4> SUFFICES ASSUME NEW i \in 1..(n - k) PROVE w[k + i] = c[i]
        BY <2>4
      <4>1. k + i = i + k
        OBVIOUS
      <4> QED BY <2>4, <4>1
    <3>3. Len(w) = Len(b) + Len(c)
      BY <2>4
    <3> QED BY <2>3, <2>4, <3>1, <3>2, <3>3, IsConcat
  <2>6. c # <<>>
    <3>1. Len(c) # 0
      BY <2>4
    <3> QED BY <2>4, <3>1, StringIs
  <2>7. Cut(Write(f), b, c)
    BY <2>3, <2>4, <2>5, <2>6 DEF Cut
  <2>8. Deliver(f, "cut", b)
    BY <2>2 DEF b
  <2> QED BY <2>4, <2>7, <2>8, DeliverIInv
<1>6. ASSUME NEW f \in {"bare", "detached"}, SendAltered(f) PROVE IInv'
  <2>1. PICK w \in {Write(f)} : \E i \in DOMAIN w : \E v \in Byte \ {w[i]} :
                                  Deliver(f, "altered", [w EXCEPT ![i] = v])
    BY <1>6 DEF SendAltered
  <2>2. PICK i \in DOMAIN w, v \in Byte : Deliver(f, "altered", [w EXCEPT ![i] = v])
    BY <2>1
  <2>3. w \in Seq(Byte)
    BY <1>0, <2>1, WriteIs
  <2> DEFINE b == [w EXCEPT ![i] = v]
  <2>4. b \in Seq(Byte)
    BY <2>3
  <2>5. Deliver(f, "altered", b)
    BY <2>2
  <2> HIDE DEF b
  <2> QED BY <2>4, <2>5, DeliverIInv
<1>7. ASSUME NEW f \in {"bare", "detached"}, SendTrailing(f) PROVE IInv'
  <2>1. PICK w \in {Write(f)} : \E v \in Trailing : Deliver(f, "trailing", Append(w, v))
    BY <1>7 DEF SendTrailing
  <2>2. PICK v \in Trailing : Deliver(f, "trailing", Append(w, v))
    BY <2>1
  <2>3. w \in Seq(Byte) /\ v \in Byte /\ w = Write(f)
    BY <1>0, <2>1, WriteIs, ProofTransferAssumption
  <2> DEFINE b == Append(w, v)
  <2>4. b \in Seq(Byte) /\ b = Append(Write(f), v)
    BY <2>3
  <2>5. Deliver(f, "trailing", b)
    BY <2>2
  <2> HIDE DEF b
  <2> QED BY <2>4, <2>5, DeliverIInv
<1>8. CASE UNCHANGED vars
  <2>1. Write(form)' = Write(form) /\ Read(form, wire)' = Read(form, wire)
    BY <1>8 DEF vars, Write, Read
  <2> QED BY <1>8, <2>1 DEF vars, IInv, TypeOK, Composed, Unread, Delivered
<1> QED BY <1>1, <1>2, <1>3, <1>4, <1>5, <1>6, <1>7, <1>8 DEF Next

(***************************************************************************)
(* TypeOK: composing keeps proofs within the bounds, and whatever bytes    *)
(* arrive, Deserialize and DeserializeDetachedTimestampFile end: with a    *)
(* timestamp, an error or the panic of make.                               *)
(***************************************************************************)
THEOREM TypeCorrect == Spec => []TypeOK
<1>1. Init => IInv
  BY InitIInv
<1>2. IInv /\ [Next]_vars => IInv'
  BY NextIInv
<1>3. IInv => TypeOK
  BY DEF IInv
<1> QED BY <1>1, <1>2, <1>3, PTL DEF Spec

\* Either form of what was written is read back, or refused if it is not
\* supported.
LEMMA ReadBack ==
  ASSUME NEW t \in Stamp, Serializable[t], Applicable[<<t, DigestLength>>], NEW rest \in Seq(Byte)
  PROVE  /\ DeserializeBytes(Serialize[t] \o rest) =
              IF Supported[<<t, RecursionLimit>>] THEN Ok(Normal[t], rest) ELSE Failed
         /\ DeserializeDetached(SerializeDetached(digest, t) \o rest) =
              IF Supported[<<t, RecursionLimit>>] /\ rest = <<>> THEN Ok(Normal[t], rest) ELSE Failed
<1> DEFINE r == DeserializeBytes(Serialize[t] \o rest)
           y == Supported[<<t, RecursionLimit>>]
<1>1. r = IF y THEN Ok(Normal[t], rest) ELSE Failed
  BY LimitsIs, TreeBack DEF Back, DeserializeBytes
<1>2. Serialize[t] \in Seq(Byte) /\ Serialize[t] \o rest \in Seq(Byte)
  BY SerializeIs, ConcatIs
<1>3. SerializeDetached(digest, t) \o rest = Header(Serialize[t] \o rest)
  BY <1>2, DetachedIs, HeaderMore
<1>4. DeserializeDetached(Header(Serialize[t] \o rest)) = AtEnd(r)
  BY <1>2, HeaderWhole
<1> HIDE DEF r, y
<1>5. AtEnd(r) = IF y /\ rest = <<>> THEN Ok(Normal[t], rest) ELSE Failed
  <2>1. CASE y
    <3>1. r.st = "ok" /\ r.rest = rest
      BY <1>1, <2>1, OkIs
    <3> QED BY <1>1, <2>1, <3>1 DEF AtEnd
  <2>2. CASE ~y
    BY <1>1, <2>2, FailedIs DEF AtEnd
  <2> QED BY <2>1, <2>2
<1> QED BY <1>1, <1>3, <1>4, <1>5 DEF r, y

\* RoundTrip follows from the invariant.
LEMMA IInvRoundTrip ==
  ASSUME IInv PROVE RoundTrip
<1> SUFFICES ASSUME damage \in {"none", "trailing"}
             PROVE  IF Supported[<<tree, RecursionLimit>>] /\ (form = "bare" \/ damage = "none")
                    THEN /\ got.st = "ok"
                         /\ TreeEqual[<<tree, got.val>>]
                         /\ Len(got.rest) = IF damage = "none" THEN 0 ELSE 1
                    ELSE got.st = "error"
  BY DEF RoundTrip
<1>1. /\ tree \in Stamp /\ Applicable[<<tree, DigestLength>>] /\ Distinct[tree]
      /\ Serializable[tree] /\ got = Read(form, wire) /\ form \in {"bare", "detached"}
      /\ damage = "none" => wire = Write(form)
      /\ damage = "trailing" => \E v \in Trailing : wire = Append(Write(form), v)
  BY DEF IInv, TypeOK, Composed, Unread, Delivered
<1>2. Write(form) \in Seq(Byte)
  BY <1>1, WriteIs
<1>3. PICK rest \in Seq(Byte) : /\ wire = Write(form) \o rest
                                /\ damage = "none" => rest = <<>>
                                /\ Len(rest) = IF damage = "none" THEN 0 ELSE 1
  <2>1. CASE damage = "none"
    <3>1. Write(form) \o <<>> = Write(form)
      BY <1>2, StringIs
    <3> QED BY <1>1, <2>1, <3>1, StringIs
  <2>2. CASE damage = "trailing"
    <3>1. PICK v \in Trailing : wire = Append(Write(form), v)
      BY <1>1, <2>2
    <3>2. v \in Byte
      BY ProofTransferAssumption
    <3> DEFINE w == Write(form)
               x == <<v>>
    <3> HIDE DEF w
    <3>3. x \in Seq(Byte) /\ Len(x) = 1 /\ Append(w, v) = w \o x
      BY <1>2, <3>2 DEF w
    <3> HIDE DEF x
    <3> QED BY <2>2, <3>1, <3>3 DEF w
  <2> QED BY <2>1, <2>2
<1> DEFINE y == Supported[<<tree, RecursionLimit>>]
           u == Normal[tree]
<1>4. TreeEqual[<<tree, u>>]
  BY <1>1, NormalEqual
<1>5. CASE form = "bare"
  <2>1. got = IF y THEN Ok(u, rest) ELSE Failed
    BY <1>1, <1>3, <1>5, ReadBack DEF Read, Write
  <2> HIDE DEF y, u
  <2>2. CASE y
    <3>1. got.st = "ok" /\ got.val = u /\ got.rest = rest
      BY <2>1, <2>2, OkIs
    <3> QED BY <1>3, <1>4, <1>5, <2>2, <3>1 DEF y
  <2>3. CASE ~y
    BY <2>1, <2>3, FailedIs DEF y
  <2> QED BY <2>2, <2>3
<1>6. CASE form = "detached"
  <2>1. got = IF y /\ rest = <<>> THEN Ok(u, rest) ELSE Failed
    BY <1>1, <1>3, <1>6, ReadBack DEF Read, Write
  <2> HIDE DEF y, u
  <2>2. CASE y /\ damage = "none"
    <3>1. got.st = "ok" /\ got.val = u /\ got.rest = rest
      BY <1>3, <2>1, <2>2, OkIs
    <3> QED BY <1>3, <1>4, <1>6, <2>2, <3>1 DEF y
  <2>3. CASE ~(y /\ damage = "none")
    <3>1. ~(y /\ rest = <<>>)
      <4>1. CASE damage # "none"
        <5>1. Len(rest) = 1
          BY <1>3, <4>1
        <5>2. rest # <<>>
          BY <5>1, StringIs
        <5> QED BY <5>2
      <4> QED BY <2>3, <4>1
    <3> QED BY <1>6, <2>1, <2>3, <3>1, FailedIs DEF y
  <2> QED BY <2>2, <2>3
<1> QED BY <1>1, <1>5, <1>6

(***************************************************************************)
(* RoundTrip, for every tree that can be composed of any attestations and  *)
(* ops, at any sizes of the format: Deserialize reads what Serialize wrote *)
(* as an Equal tree, refuses trees beyond its limits, ignores bytes after  *)
(* a bare timestamp and refuses them after a detached file.                *)
(***************************************************************************)
THEOREM RoundTripHolds == Spec => []RoundTrip
<1>1. Init => IInv
  BY InitIInv
<1>2. IInv /\ [Next]_vars => IInv'
  BY NextIInv
<1>3. IInv => RoundTrip
  BY IInvRoundTrip
<1> QED BY <1>1, <1>2, <1>3, PTL DEF Spec

-----------------------------------------------------------------------------
(***************************************************************************)
(* CutConfined.                                                            *)
(***************************************************************************)

\* A detached file that is cut is refused, or it is its timestamp that is cut.
LEMMA HeaderCut ==
  ASSUME NEW s \in Seq(Byte), NEW b, NEW c, Cut(Header(s), b, c)
  PROVE  \/ DeserializeDetached(b) = Failed
         \/ \E e : Cut(s, e, c) /\ DeserializeDetached(b) = AtEnd(DeserializeBytes(e))
<1> DEFINE q == digest \o s
           x == Push(sha256Tag, q)
           y == Push(majorVersion, x)
<1>1. q \in Seq(Byte) /\ x \in Seq(Byte) /\ y \in Seq(Byte) /\ b \in Seq(Byte)
  BY HeaderIs, CutIs
<1>2. Cut(headerMagic \o y, b, c)
  BY DEF Header
<1> HIDE DEF y
<1>3. (\E z \in Seq(Byte) : Cut(headerMagic, b, z)) \/ (\E e \in Seq(Byte) : b = headerMagic \o e /\ Cut(y, e, c))
  BY <1>1, <1>2, Magic, CutConcat
<1>4. ASSUME NEW m, m = ReadBytes(b, 2), m.st # "ok" \/ Len(m.rest) < 2
      PROVE  DeserializeDetached(b) = Failed
  <2> DEFINE v == m.rest
             o == DeserializeFromTag(SubSeq(v, 3, Len(v)), v[2])
             d == ReadBytes(o.rest, DigestLength)
             r == DeserializeBytes(d.rest)
  <2>1. DeserializeDetached(b) =
           IF m.st # "ok" \/ m.val # headerMagic THEN Failed
           ELSE IF Len(v) < 2 \/ v[1] # majorVersion THEN Failed
           ELSE IF o.st # "ok" THEN o
           ELSE IF o.val.tag # sha256Tag THEN Failed
           ELSE IF d.st # "ok" THEN d
           ELSE AtEnd(r)
    BY <1>4, DetachedSteps
  <2> HIDE DEF o, d, r
  <2> QED BY <1>4, <2>1
<1>5. ASSUME NEW z \in Seq(Byte), Cut(headerMagic, b, z) PROVE DeserializeDetached(b) = Failed
  <2>1. \/ ReadBytes(b, 2) = Failed
        \/ \E w : ReadBytes(b, 2) = Ok(w, <<>>)
    BY <1>5, Magic, ReadBytesCut
  <2>2. CASE ReadBytes(b, 2) = Failed
    <3>1. ReadBytes(b, 2).st # "ok"
      BY <2>2, FailedIs
    <3> QED BY <1>4, <3>1
  <2>3. ASSUME NEW w, ReadBytes(b, 2) = Ok(w, <<>>) PROVE DeserializeDetached(b) = Failed
    <3>1. Len(ReadBytes(b, 2).rest) = 0
      BY <2>3, OkIs, StringIs
    <3>2. 0 < 2
      OBVIOUS
    <3> QED BY <1>4, <3>1, <3>2
  <2> QED BY <2>1, <2>2, <2>3
<1>6. ASSUME NEW e \in Seq(Byte), b = headerMagic \o e, Cut(y, e, c)
      PROVE  \/ DeserializeDetached(b) = Failed
             \/ \E f : Cut(s, f, c) /\ DeserializeDetached(b) = AtEnd(DeserializeBytes(f))
  <2>1. ReadBytes(b, 2) = Ok(headerMagic, e)
    BY <1>6, Magic, ReadBytesWhole
  <2>2. ASSUME Len(e) < 2 PROVE DeserializeDetached(b) = Failed
    <3>1. Len(ReadBytes(b, 2).rest) < 2
      BY <2>1, <2>2, OkIs
    <3> QED BY <1>4, <3>1
  <2>3. CASE e = <<>>
    <3>1. Len(e) = 0 /\ 0 < 2
      BY <2>3, StringIs
    <3> QED BY <2>2, <3>1
  <2>4. CASE e # <<>>
    <3> HIDE DEF x
    <3>1. PICK f \in Seq(Byte) : e = Push(majorVersion, f) /\ Cut(x, f, c)
      BY <1>1, <1>6, <2>4, Preamble, CutPush DEF y
    <3>2. CASE f = <<>>
      <4>1. Len(e) = 1 + Len(f) /\ Len(f) = 0
        BY <3>1, <3>2, Preamble, PushIs, StringIs
      <4>2. Len(e) < 2
        BY <4>1
      <4> QED BY <2>2, <4>2
    <3>3. CASE f # <<>>
      <4> HIDE DEF q
      <4>1. PICK g \in Seq(Byte) : f = Push(sha256Tag, g) /\ Cut(q, g, c)
        BY <1>1, <3>1, <3>3, Preamble, CutPush DEF x
      <4> DEFINE d == ReadBytes(g, DigestLength)
      <4>2. DeserializeDetached(b) = IF d.st # "ok" THEN d ELSE AtEnd(DeserializeBytes(d.rest))
        BY <1>6, <3>1, <4>1, AfterHeader
      <4>3. (\E z \in Seq(Byte) : Cut(digest, g, z)) \/ (\E z \in Seq(Byte) : g = digest \o z /\ Cut(s, z, c))
        BY <4>1, Preamble, CutConcat DEF q
      <4>4. ASSUME NEW z \in Seq(Byte), Cut(digest, g, z) PROVE DeserializeDetached(b) = Failed
        <5>1. d = Failed \/ \E w : d = Ok(w, <<>>)
          BY <4>4, Preamble, ReadBytesCut
        <5> HIDE DEF d
        <5>2. CASE d = Failed
          BY <4>2, <5>2, FailedIs
        <5>3. ASSUME NEW w, d = Ok(w, <<>>) PROVE DeserializeDetached(b) = Failed
          <6>1. d.st = "ok" /\ d.rest = <<>>
            BY <5>3, OkIs
          <6>2. DeserializeBytes(<<>>) = Failed
            BY ReadEnd, LimitsIs DEF DeserializeBytes
          <6>3. AtEnd(Failed) = Failed
            BY FailedIs DEF AtEnd
          <6> QED BY <4>2, <6>1, <6>2, <6>3
        <5> QED BY <5>1, <5>2, <5>3
      <4>5. ASSUME NEW z \in Seq(Byte), g = digest \o z, Cut(s, z, c)
            PROVE  DeserializeDetached(b) = AtEnd(DeserializeBytes(z))
        <5>1. b = Header(z)
          BY <1>6, <3>1, <4>1, <4>5 DEF Header
        <5> QED BY <5>1, HeaderWhole
      <4> QED BY <4>3, <4>4, <4>5
    <3> QED BY <3>2, <3>3
  <2> QED BY <2>3, <2>4
<1> QED BY <1>3, <1>5, <1>6

\* CutConfined follows from the invariant.
LEMMA IInvCutConfined ==
  ASSUME IInv PROVE CutConfined
<1> DEFINE y == Supported[<<tree, RecursionLimit>>]
           u == DeserializeBytes(Serialize[tree]).val
           v == Normal[tree]
<1> SUFFICES ASSUME damage = "cut"
             PROVE  \/ got.st = "error"
                    \/ got.st = "ok" /\ y /\ LastHeightLower[<<u, got.val>>]
  BY DEF CutConfined
<1>1. /\ tree \in Stamp /\ Applicable[<<tree, DigestLength>>] /\ Serializable[tree]
      /\ got = Read(form, wire) /\ form \in {"bare", "detached"}
      /\ \E c : Cut(Write(form), wire, c)
  BY DEF IInv, TypeOK, Composed, Delivered
<1>2. ASSUME y PROVE u = v
  <2>1. Serialize[tree] \o <<>> = Serialize[tree] /\ <<>> \in Seq(Byte)
    BY <1>1, SerializeIs, StringIs
  <2>2. DeserializeBytes(Serialize[tree] \o <<>>) = Ok(v, <<>>)
    BY <1>1, <1>2, <2>1, ReadBack
  <2> QED BY <2>1, <2>2, OkIs
<1>3. Short(Serialize[tree], DigestLength, RecursionLimit, y, v)
  BY <1>1, LimitsIs, Nesting, TreeShort
<1>4. PICK c : Cut(Write(form), wire, c)
  BY <1>1
<1> HIDE DEF y, u, v
<1>5. ASSUME NEW r, Spoiled(r, y, v), got = r \/ got = Failed
      PROVE  \/ got.st = "error"
             \/ got.st = "ok" /\ y /\ LastHeightLower[<<u, got.val>>]
  BY <1>2, <1>5, FailedIs DEF Spoiled, Lower
<1>6. CASE form = "bare"
  <2>1. Cut(Serialize[tree], wire, c) /\ got = DeserializeBytes(wire)
    BY <1>1, <1>4, <1>6 DEF Write, Read
  <2>2. Spoiled(DeserializeBytes(wire), y, v)
    BY <1>3, <2>1 DEF Short, DeserializeBytes
  <2> QED BY <1>5, <2>1, <2>2
<1>7. CASE form = "detached"
  <2>1. Cut(SerializeDetached(digest, tree), wire, c) /\ got = DeserializeDetached(wire)
    BY <1>1, <1>4, <1>7 DEF Write, Read
  <2>2. Cut(Header(Serialize[tree]), wire, c) /\ Serialize[tree] \in Seq(Byte)
    BY <1>1, <2>1, DetachedIs, SerializeIs
  <2>3. \/ got = Failed
        \/ \E e : Cut(Serialize[tree], e, c) /\ got = AtEnd(DeserializeBytes(e))
    BY <2>1, <2>2, HeaderCut
  <2>4. CASE got = Failed
    BY <2>4, FailedIs
  <2>5. ASSUME NEW e, Cut(Serialize[tree], e, c), got = AtEnd(DeserializeBytes(e))
        PROVE  \/ got.st = "error"
               \/ got.st = "ok" /\ y /\ LastHeightLower[<<u, got.val>>]
    <3> DEFINE r == DeserializeBytes(e)
    <3>1. Spoiled(r, y, v)
      BY <1>3, <2>5 DEF Short, DeserializeBytes
    <3> HIDE DEF r
    <3>2. got = r \/ got = Failed
      BY <2>5 DEF AtEnd, r
    <3> QED BY <1>5, <3>1, <3>2
  <2> QED BY <2>3, <2>4, <2>5
<1> QED BY <1>1, <1>6, <1>7

(***************************************************************************)
(* CutConfined, for every tree and wherever its bytes are cut: Deserialize *)
(* refuses them, although ReadBytes fills up with zeros, or the proof is   *)
(* the same but for a lower height in its last attestation.                *)
(***************************************************************************)
THEOREM CutConfinedHolds == Spec => []CutConfined
<1>1. Init => IInv
  BY InitIInv
<1>2. IInv /\ [Next]_vars => IInv'
  BY NextIInv
<1>3. IInv => CutConfined
  BY IInvCutConfined
<1> QED BY <1>1, <1>2, <1>3, PTL DEF Spec

-----------------------------------------------------------------------------
(***************************************************************************)
(* ParsedFacts.                                                            *)
(***************************************************************************)

\* What is read of a proof that was not damaged is the sorted tree.
LEMMA WholeIs ==
  ASSUME IInv, damage = "none", got.st = "ok"
  PROVE  /\ tree \in Stamp /\ Serializable[tree] /\ Distinct[tree]
         /\ Applicable[<<tree, DigestLength>>] /\ got.val = Normal[tree]
<1> DEFINE nil == <<>>
           u == Normal[tree]
<1>1. /\ tree \in Stamp /\ Applicable[<<tree, DigestLength>>] /\ Distinct[tree]
      /\ Serializable[tree] /\ got = Read(form, wire) /\ form \in {"bare", "detached"}
      /\ wire = Write(form)
  BY DEF IInv, TypeOK, Composed, Delivered
<1>2. nil \in Seq(Byte) /\ Write(form) \in Seq(Byte)
  BY <1>1, WriteIs, StringIs
<1>3. Write(form) \o nil = Write(form)
  BY <1>2, StringIs
<1> HIDE DEF nil
<1>4. got = Ok(u, nil) \/ got = Failed
  <2>1. CASE form = "bare"
    <3>1. got = DeserializeBytes(Serialize[tree] \o nil)
      BY <1>1, <1>3, <2>1 DEF Read, Write
    <3> QED BY <1>1, <1>2, <3>1, ReadBack
  <2>2. CASE form = "detached"
    <3>1. got = DeserializeDetached(SerializeDetached(digest, tree) \o nil)
      BY <1>1, <1>3, <2>2 DEF Read, Write
    <3> QED BY <1>1, <1>2, <3>1, ReadBack
  <2> QED BY <1>1, <2>1, <2>2
<1> HIDE DEF u
<1>5. got.val = u
  BY <1>4, OkIs, FailedIs
<1> QED BY <1>1, <1>5 DEF u

\* ParsedFacts follows from the invariant.
LEMMA IInvParsedFacts ==
  ASSUME IInv PROVE ParsedFacts
<1> DEFINE A == ToSet(AllAttestations[tree])
           H == {a.val[1] : a \in {b \in A : b.tag = bitcoinTag}}
           p == ParseProof(got.val)
<1> SUFFICES ASSUME damage = "none", got.st = "ok"
             PROVE  /\ p.complete <=> H # {}
                    /\ p.height = {h \in H : \A g \in H : h <= g}
                    /\ p.pending = {a.val : a \in {b \in A : b.tag = pendingTag}}
  BY DEF ParsedFacts
<1>1. tree \in Stamp /\ got.val = Normal[tree]
  BY WholeIs
<1>2. got.val \in Stamp /\ A = ToSet(AllAttestations[got.val])
  BY <1>1, NormalIs, AllNormal
<1>3. H = Claimed(A)
  BY DEF Claimed
<1> HIDE DEF A, H
<1>4. /\ p.complete <=> Claimed(A) # {}
      /\ p.height = {h \in Claimed(A) : \A g \in Claimed(A) : h <= g}
      /\ p.pending = {a.val : a \in {b \in A : b.tag = pendingTag}}
  BY <1>2, ParseProofIs
<1> QED BY <1>3, <1>4

(***************************************************************************)
(* ParsedFacts, for every tree: ParseProof reports the lowest height and   *)
(* exactly the pending calendars of the proof that was sent.               *)
(***************************************************************************)
THEOREM ParsedFactsHold == Spec => []ParsedFacts
<1>1. Init => IInv
  BY InitIInv
<1>2. IInv /\ [Next]_vars => IInv'
  BY NextIInv
<1>3. IInv => ParsedFacts
  BY IInvParsedFacts
<1> QED BY <1>1, <1>2, <1>3, PTL DEF Spec

-----------------------------------------------------------------------------
(***************************************************************************)
(* PassedOn.                                                               *)
(***************************************************************************)

\* Whatever bytes are accepted as a bare timestamp.
LEMMA BytesSound ==
  ASSUME NEW b \in Seq(Byte), DeserializeBytes(b).st = "ok"
  PROVE  Sound(DeserializeBytes(b).val, DigestLength, RecursionLimit)
BY DeserializeSound, LimitsIs, Nesting DEF DeserializeBytes

\* Whatever bytes are accepted in either form.
LEMMA ReadSound ==
  ASSUME NEW f, NEW b \in Seq(Byte), Read(f, b).st = "ok"
  PROVE  Sound(Read(f, b).val, DigestLength, RecursionLimit)
<1>1. CASE f = "bare"
  BY <1>1, BytesSound DEF Read
<1>2. CASE f # "bare"
  <2>1. Read(f, b) = DeserializeDetached(b)
    BY <1>2 DEF Read
  <2>2. DeserializeDetached(b) \notin {Failed, Panicked}
    BY <2>1, FailedIs
  <2>3. PICK e \in Seq(Byte) : DeserializeDetached(b) = DeserializeBytes(e)
    BY <2>2, DetachedCases
  <2> QED BY <2>1, <2>3, BytesSound
<1> QED BY <1>1, <1>2

\* PassedOn follows from the invariant.
LEMMA IInvPassedOn ==
  ASSUME IInv PROVE PassedOn
<1> DEFINE v == got.val
           w == Serialize[v]
           r == DeserializeBytes(w)
           nil == <<>>
<1> SUFFICES ASSUME got.st = "ok"
             PROVE  /\ Serializable[v] /\ r.st = "ok" /\ r.rest = <<>>
                    /\ ToSet(AllAttestations[r.val]) = ToSet(AllAttestations[v])
                    /\ Distinct[v] => Serialize[r.val] = w
                    /\ damage = "none" => Serialize[Reversed[tree]] = w
  BY DEF PassedOn
<1>1. damage # "unsent" => got = Read(form, wire) /\ wire \in Seq(Byte)
  BY DEF IInv, TypeOK, Delivered
<1>2. damage = "unsent" => got.st # "ok"
  BY FailedIs DEF IInv, Unread
<1>3. Sound(v, DigestLength, RecursionLimit)
  BY <1>1, <1>2, ReadSound
<1>4. v \in Stamp /\ Serializable[v] /\ Applicable[<<v, DigestLength>>] /\ Supported[<<v, RecursionLimit>>]
  BY <1>3 DEF Sound
<1>5. w \in Seq(Byte) /\ nil \in Seq(Byte) /\ w \o nil = w
  BY <1>4, SerializeIs, StringIs
<1> HIDE DEF nil, v
<1>6. r = Ok(Normal[v], nil)
  BY <1>4, <1>5, ReadBack
<1>7. r.st = "ok" /\ r.rest = nil /\ r.val = Normal[v]
  BY <1>6, OkIs
<1>8. ToSet(AllAttestations[r.val]) = ToSet(AllAttestations[v])
  BY <1>4, <1>7, AllNormal
<1>9. Distinct[v] => Serialize[r.val] = w
  BY <1>4, <1>7, NormalShuffles, ShuffledBytes
<1>10. ASSUME damage = "none" PROVE Serialize[Reversed[tree]] = w
  <2>1. tree \in Stamp /\ Distinct[tree] /\ v = Normal[tree]
    BY <1>10, WholeIs DEF v
  <2>2. Serialize[Reversed[tree]] = Serialize[tree]
    BY <2>1, ReversedShuffles, ShuffledBytes
  <2>3. Serialize[Normal[tree]] = Serialize[tree]
    BY <2>1, NormalShuffles, ShuffledBytes
  <2> QED BY <2>1, <2>2, <2>3
<1> QED BY <1>4, <1>7, <1>8, <1>9, <1>10 DEF nil

(***************************************************************************)
(* PassedOn, for whatever bytes were accepted: the proof is written again  *)
(* and read back completely, as the same bytes, which do not depend on the *)
(* order it was composed in.                                               *)
(***************************************************************************)
THEOREM PassedOnHolds == Spec => []PassedOn
<1>1. Init => IInv
  BY InitIInv
<1>2. IInv /\ [Next]_vars => IInv'
  BY NextIInv
<1>3. IInv => PassedOn
  BY IInvPassedOn
<1> QED BY <1>1, <1>2, <1>3, PTL DEF Spec
=============================================================================
