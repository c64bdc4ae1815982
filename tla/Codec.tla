------------------------------- MODULE Codec -------------------------------
(***************************************************************************)
(* Proofs as bytes: Serialize, Deserialize, Equal and the detached file of *)
(* internal/core/timestamp, and ParseProof.                                *)
(*                                                                         *)
(* A timestamp is [atts, ops]: a sequence of attestations and one of       *)
(* [op, stamp].  Messages follow from the ops and are left out, but for    *)
(* their lengths.                                                          *)
(***************************************************************************)
EXTENDS Wire, SequencesExt

CONSTANTS
  RecursionLimit,  \* 256
  MaxNesting       \* bound: of the timestamps that are considered at all

ASSUME NestingAssumption ==
  /\ RecursionLimit \in Nat \ {0}
  /\ MaxNesting \in Nat /\ RecursionLimit <= MaxNesting

\* Timestamps nested at most n deep.
Stamps[n \in Nat] ==
  IF n = 0 THEN {}
  ELSE [atts : Seq(Attestation), ops : Seq([op : Op, stamp : Stamps[n - 1]])]

Stamp == Stamps[MaxNesting]

Empty == [atts |-> <<>>, ops |-> <<>>]

Single(a) == [atts |-> <<a>>, ops |-> <<>>]

Under(o, t) == [atts |-> <<>>, ops |-> <<[op |-> o, stamp |-> t]>>]

\* The items of t and then those of u.
Join(t, u) == [atts |-> t.atts \o u.atts, ops |-> t.ops \o u.ops]

-----------------------------------------------------------------------------
attestationMark == 0
forkMark == 7

\* Less: bytes.Compare of the tag and then of the argument.
Less(s, t) ==
  \E i \in DOMAIN t :
    /\ \A j \in 1..(i - 1) : j <= Len(s) /\ s[j] = t[j]
    /\ i > Len(s) \/ s[i] < t[i]

AttestationLess(a, b) == Less(a.tag \o a.val, b.tag \o b.val)
OpLess(a, b) == Less(<<a.op.tag>> \o a.op.arg, <<b.op.tag>> \o b.op.arg)

\* The elements of s, none of them less than one before it.
Sorted(s, Before(_, _)) ==
  LET p == CHOOSE p \in Bijection(DOMAIN s, DOMAIN s) :
             \A i, j \in DOMAIN s : i < j => ~Before(s[p[j]], s[p[i]])
  IN  [i \in DOMAIN s |-> s[p[i]]]

\* Mutant: the attestations stay in the order they were added in.
Unsorted(s) == s

SortAttestations(s) == Sorted(s, AttestationLess)
SortOps(s) == Sorted(s, OpLess)

\* Serialize gets as far as writing: no node is empty.
Serializable[t \in Stamp] ==
  /\ t # Empty
  /\ \A i \in DOMAIN t.ops : Serializable[t.ops[i].stamp]

\* Every item but the last is announced by a fork mark.
Marked[items \in Seq(Seq(Byte))] ==
  IF items = <<>> THEN <<>>
  ELSE IF Len(items) = 1 THEN items[1]
  ELSE <<forkMark>> \o items[1] \o Marked[Tail(items)]

Serialize[t \in Stamp] ==
  LET AttItems(s) == [i \in DOMAIN s |-> <<attestationMark>> \o SerializeAttestation(s[i])]
      OpItems(s) == [i \in DOMAIN s |-> SerializeOp(s[i].op) \o Serialize[s[i].stamp]]
  IN  Marked[AttItems(SortAttestations(t.atts)) \o OpItems(SortOps(t.ops))]

-----------------------------------------------------------------------------
\* Deserialize(ctx, message of this length, depth): the loop over the items
\* of a node is the recursion on the bytes left, at the same depth.
Deserialize[c \in Seq(Byte) \X Nat \X Nat] ==
  LET b == c[1]
      len == c[2]
      depth == c[3]
      Attested(a) == IF a.st = "ok" THEN Ok(Single(a.val), a.rest) ELSE a
      Child(o, r) == IF r.st = "ok" THEN Ok(Under(o, r.val), r.rest) ELSE r
      Applied(o) == IF o.st # "ok" THEN o
                    ELSE IF ResultLength(o.val, len) > MaxLength THEN Failed
                    ELSE Child(o.val, Deserialize[<<o.rest, ResultLength(o.val, len), depth - 1>>])
      ReadItem(tag, s) == IF tag = attestationMark THEN Attested(DeserializeAttestation(s))
                          ELSE Applied(DeserializeFromTag(s, tag))
      Both(t, r) == IF r.st = "ok" THEN Ok(Join(t, r.val), r.rest) ELSE r
      More(r) == IF r.st = "ok" THEN Both(r.val, Deserialize[<<r.rest, len, depth>>]) ELSE r
  IN  IF depth = 0 \/ len > MaxLength \/ b = <<>> THEN Failed
      ELSE IF b[1] # forkMark THEN ReadItem(b[1], Tail(b))
      ELSE IF Len(b) = 1 THEN Failed
      ELSE More(ReadItem(b[2], Tail(Tail(b))))

DeserializeBytes(b) == Deserialize[<<b, DigestLength, RecursionLimit>>]

\* Equal: the same attestations, and equal children under the same ops.
TreeEqual[c \in Stamp \X Stamp] ==
  LET t == c[1]
      u == c[2]
      Match(o) == CHOOSE j \in DOMAIN u.ops : u.ops[j].op = o
  IN  /\ Len(t.atts) = Len(u.atts) /\ Len(t.ops) = Len(u.ops)
      /\ ToSet(t.atts) \subseteq ToSet(u.atts)
      /\ \A i \in DOMAIN t.ops :
           /\ \E j \in DOMAIN u.ops : u.ops[j].op = t.ops[i].op
           /\ TreeEqual[<<t.ops[i].stamp, u.ops[Match(t.ops[i].op)].stamp>>]

AllAttestations[t \in Stamp] ==
  t.atts \o FlattenSeq([i \in DOMAIN t.ops |-> AllAttestations[t.ops[i].stamp]])

-----------------------------------------------------------------------------
(***************************************************************************)
(* DetachedTimestampFile, and ParseProof.                                  *)
(***************************************************************************)
headerMagic == <<0, 6>>
majorVersion == 1

SerializeDetached(digest, t) ==
  headerMagic \o <<majorVersion, sha256Tag>> \o digest \o Serialize[t]

\* ReadUint8, the file hash op and the digest, after the magic.
DeserializeDetached(b) ==
  LET AtEnd(r) == IF r.st = "ok" /\ r.rest # <<>> THEN Failed ELSE r
      Digest(d) == IF d.st # "ok" THEN d ELSE AtEnd(DeserializeBytes(d.rest))
      HashOp(o) == IF o.st # "ok" THEN o
                   ELSE IF o.val.tag # sha256Tag THEN Failed
                   ELSE Digest(ReadBytes(o.rest, DigestLength))
      Version(v) == IF Len(v) < 2 \/ v[1] # majorVersion THEN Failed
                    ELSE HashOp(DeserializeFromTag(SubSeq(v, 3, Len(v)), v[2]))
      Magic(m) == IF m.st # "ok" \/ m.val # headerMagic THEN Failed ELSE Version(m.rest)
  IN  Magic(ReadBytes(b, Len(headerMagic)))

\* Mutant: the last height read is reported.
LastHeight(heights) == heights[Len(heights)]

\* result.BlockHeight, the first of the sorted heights.
BlockHeight(heights) == Sorted(heights, <)[1]

\* The loop's heights: those of the Bitcoin attestations, in their order.
Heights[s \in Seq(Attestation)] ==
  IF s = <<>> THEN <<>>
  ELSE (IF s[1].tag = bitcoinTag THEN s[1].val ELSE <<>>) \o Heights[Tail(s)]

\* What a proof claims, without asking anybody; height is {} or one number.
ParseProof(t) ==
  LET atts == AllAttestations[t]
      heights == Heights[atts]
  IN  [complete |-> heights # <<>>,
       height   |-> IF heights = <<>> THEN {} ELSE {BlockHeight(heights)},
       pending  |-> {a.val : a \in {b \in ToSet(atts) : b.tag = pendingTag}}]
=============================================================================
