-------------------------------- MODULE Wire --------------------------------
(***************************************************************************)
(* The byte format below the level of proof trees: internal/core/serialize *)
(* and the (de)serializers of internal/core/notary and internal/core/op.   *)
(*                                                                         *)
(* The format is kept and its sizes are CONSTANTS, which the instances     *)
(* scale down.  Tags of attestations have 2 bytes instead of 8, and the    *)
(* special bytes keep their order: 00 < 02 < 03 < 08 < 67 < f0 < f1 < ff   *)
(* become 0 to 7.                                                          *)
(*                                                                         *)
(* A reader maps the bytes left to [st, val, rest]: whether it succeeded,  *)
(* returned an error or panicked, what it read, and the bytes left then.   *)
(***************************************************************************)
EXTENDS Integers, Sequences

CONSTANTS
  Group,           \* 2^7: values of the payload of a varint byte
  Word,            \* 2^64: values of uint64 and int
  DigestLength,    \* 32
  MaxLength,       \* 4096: MaxResultLength and MaxMsgLength
  MaxPayloadSize,  \* 8192
  MaxURILength     \* 1000

ASSUME SizesAssumption ==
  /\ Group \in Nat /\ Group >= 4       \* the special bytes are bytes
  /\ Word \in Nat /\ Group <= Word
  /\ MaxLength \in Nat /\ MaxPayloadSize \in Nat /\ MaxURILength \in Nat
  /\ DigestLength \in 1..MaxLength
  /\ MaxLength < Word \div 2 /\ MaxPayloadSize < Word \div 2
  /\ MaxURILength <= MaxPayloadSize

Byte == 0..(2 * Group - 1)

\* Byte strings of these lengths.
Bytes(min, max) == {s \in Seq(Byte) : Len(s) \in min..max}

Ok(val, rest) == [st |-> "ok", val |-> val, rest |-> rest]
Failed == [st |-> "error", val |-> <<>>, rest |-> <<>>]
Panicked == [st |-> "panic", val |-> <<>>, rest |-> <<>>]

\* What a reader of values in S may return.
Results(S) ==
  [st : {"ok"}, val : S, rest : Seq(Byte)] \cup {Failed, Panicked}

-----------------------------------------------------------------------------
(***************************************************************************)
(* serialize.Context.                                                      *)
(***************************************************************************)
WriteVarUint[v \in Nat] ==
  IF v < Group THEN <<v>>
  ELSE <<Group + (v % Group)>> \o WriteVarUint[v \div Group]

\* There is no end to the groups, and bits shifted out of the word are lost.
ReadVarUint[b \in Seq(Byte)] ==
  IF b = <<>> THEN Failed
  ELSE LET High(r) == IF r.st = "ok"
                      THEN Ok(((b[1] % Group) + Group * r.val) % Word, r.rest)
                      ELSE r
       IN  IF b[1] < Group THEN Ok(b[1], Tail(b))
           ELSE High(ReadVarUint[Tail(b)])

\* bytes.Buffer.Read returns what there is; only an empty buffer is an error,
\* and make refuses a negative length.
ReadBytes(b, n) ==
  IF n < 0 THEN Panicked
  ELSE IF n = 0 THEN Ok(<<>>, b)
  ELSE IF b = <<>> THEN Failed
  ELSE Ok([i \in 1..n |-> IF i <= Len(b) THEN b[i] ELSE 0],
          SubSeq(b, n + 1, Len(b)))

\* int(l)
Signed(l) == IF l < Word \div 2 THEN l ELSE l - Word

\* Mutant: a length that cannot be read is taken as zero.
ReadVarBytesMinMaxLoose(b, min, max) ==
  LET Body(l) == IF l.st # "ok" THEN Ok(<<>>, <<>>)
                 ELSE IF Signed(l.val) \notin min..max THEN Failed
                 ELSE ReadBytes(l.rest, Signed(l.val))
  IN  Body(ReadVarUint[b])

ReadVarBytesMinMax(b, min, max) ==
  LET Body(l) == IF l.st # "ok" THEN l
                 ELSE IF Signed(l.val) \notin min..max THEN Failed
                 ELSE ReadBytes(l.rest, Signed(l.val))
  IN  Body(ReadVarUint[b])

\* Mutant: the limit is exclusive.
ReadVarBytesBelow(b, max) == ReadVarBytesMinMax(b, -Word, max - 1)

\* No lower limit.
ReadVarBytes(b, max) == ReadVarBytesMinMax(b, -Word, max)

WriteVarBytes(s) == WriteVarUint[Len(s)] \o s

-----------------------------------------------------------------------------
(***************************************************************************)
(* Attestations: [tag, val], the value being the URI, the height (as a     *)
(* sequence of one number) or the payload.                                 *)
(***************************************************************************)
bitcoinTag  == <<2, 1>>
litecoinTag == <<3, 2>>
pendingTag  == <<6, 5>>

HasHeight(tag) == tag \in {bitcoinTag, litecoinTag}
IsUnknown(tag) == tag \notin {bitcoinTag, litecoinTag, pendingTag}

\* allowedURIChars: neither the zero byte nor most of the others.
URIChar == {3, 4}

URI == {s \in Seq(URIChar) : Len(s) <= MaxURILength}

Attestation ==
  {a \in [tag : Bytes(2, 2), val : Seq(Nat)] :
     CASE HasHeight(a.tag)   -> Len(a.val) = 1 /\ a.val[1] < Word
       [] a.tag = pendingTag -> a.val \in URI
       [] IsUnknown(a.tag)   -> a.val \in Bytes(0, MaxPayloadSize)}

CheckURI(r) ==
  IF r.st # "ok" \/ \A i \in DOMAIN r.val : r.val[i] \in URIChar THEN r ELSE Failed

Payload(a) ==
  CASE HasHeight(a.tag)    -> WriteVarUint[a.val[1]]
    [] a.tag = pendingTag  -> WriteVarBytes(a.val)
    [] IsUnknown(a.tag)    -> a.val

SerializeAttestation(a) == a.tag \o WriteVarBytes(Payload(a))

\* The default case of notary.Deserialize takes the payload as it is, and
\* leaves it unread for the AssertEOF that follows.
ReadPayload(tag, p) ==
  LET Height(r) == IF r.st = "ok" THEN Ok(<<r.val>>, r.rest) ELSE r
  IN  CASE HasHeight(tag)   -> Height(ReadVarUint[p])
        [] tag = pendingTag -> CheckURI(ReadVarBytes(p, MaxURILength))
        [] IsUnknown(tag)   -> Ok(p, p)

DeserializeAttestation(b) ==
  LET Read(tag, p, rest) == IF p.st # "ok" THEN p
                            ELSE IF p.rest # <<>> THEN Failed
                            ELSE Ok([tag |-> tag, val |-> p.val], rest)
      Body(tag, p) == IF p.st # "ok" THEN p
                      ELSE Read(tag, ReadPayload(tag, p.val), p.rest)
      Tag(t) == IF t.st # "ok" THEN t
                ELSE Body(t.val, ReadVarBytes(t.rest, MaxPayloadSize))
  IN  Tag(ReadBytes(b, 2))

-----------------------------------------------------------------------------
(***************************************************************************)
(* Ops: [tag, arg].                                                        *)
(***************************************************************************)
sha1Tag      == 1
ripemd160Tag == 2
sha256Tag    == 3
keccak256Tag == 4
appendTag    == 5
prependTag   == 6

OpTag == 1..6
IsBinary(tag) == tag \in {appendTag, prependTag}

Op == {o \in [tag : OpTag, arg : Bytes(0, MaxLength)] :
         IsBinary(o.tag) <=> o.arg # <<>>}

SerializeOp(o) == <<o.tag>> \o (IF IsBinary(o.tag) THEN WriteVarBytes(o.arg) ELSE <<>>)

\* Mutant: an argument may be empty.
DeserializeAnyFromTag(b, tag) ==
  LET Arg(r) == IF r.st = "ok" THEN Ok([tag |-> tag, arg |-> r.val], r.rest) ELSE r
  IN  IF tag \notin OpTag THEN Failed
      ELSE IF IsBinary(tag) THEN Arg(ReadVarBytesMinMax(b, 0, MaxLength))
      ELSE Ok([tag |-> tag, arg |-> <<>>], b)

DeserializeFromTag(b, tag) ==
  LET Arg(r) == IF r.st = "ok" THEN Ok([tag |-> tag, arg |-> r.val], r.rest) ELSE r
  IN  IF tag \notin OpTag THEN Failed
      ELSE IF IsBinary(tag) THEN Arg(ReadVarBytesMinMax(b, 1, MaxLength))
      ELSE Ok([tag |-> tag, arg |-> <<>>], b)

\* Apply, of which the format only needs the length of the result; above
\* MaxLength it is an error.  SHA-1 and RIPEMD-160 digests are shorter.
ResultLength(o, len) ==
  IF IsBinary(o.tag) THEN len + Len(o.arg)
  ELSE IF o.tag \in {sha1Tag, ripemd160Tag} THEN DigestLength - 1
  ELSE DigestLength

-----------------------------------------------------------------------------
(***************************************************************************)
(* The payloads that the program writes itself are within MaxPayloadSize.  *)
(***************************************************************************)
ASSUME PayloadAssumption ==
  /\ \A h \in 0..(Word - 1) : Len(WriteVarUint[h]) <= MaxPayloadSize
  /\ \A n \in 0..MaxURILength : Len(WriteVarUint[n]) + n <= MaxPayloadSize
=============================================================================
