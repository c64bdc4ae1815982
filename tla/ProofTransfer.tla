--------------------------- MODULE ProofTransfer ---------------------------
(***************************************************************************)
(* A proof on its way: somebody composes it out of attestations and ops,   *)
(* writes it as a bare timestamp (the answers of POST /digest and GET      *)
(* /timestamp, the values of the store, the proofs in verify requests) or  *)
(* as a detached file (.ots), and somebody else reads the bytes, which may *)
(* have been cut (Client reads at most maxResponse bytes and does not ask  *)
(* for more), altered or followed by others.                               *)
(***************************************************************************)
EXTENDS Codec

CONSTANTS
  Attestations,  \* those the sender uses
  Ops,           \* the ops it uses
  Trailing,      \* bytes that may follow a proof
  MaxItems,      \* bound: attestations and ops in the sender's proof
  MaxAltered     \* bound: the same, for proofs that are altered

ASSUME ProofTransferAssumption ==
  /\ Attestations \subseteq Attestation /\ Ops \subseteq Op
  /\ Trailing \subseteq Byte
  /\ MaxItems \in Nat /\ MaxAltered \in Nat

VARIABLES
  tree,     \* the sender's proof
  size,     \* its attestations and ops
  form,     \* "bare" or "detached"
  damage,   \* what happened to the bytes; "unsent" while it is composed
  wire,     \* the bytes the receiver has
  got       \* what reading them returned

vars == <<tree, size, form, damage, wire, got>>

TypeOK ==
  /\ size \in 0..MaxItems
  /\ form \in {"bare", "detached"}
  /\ damage \in {"unsent", "none", "cut", "altered", "trailing"}
  /\ tree \in Stamp
  /\ wire \in Seq(Byte)
  /\ got \in Results(Stamp)

Init ==
  /\ tree = Empty
  /\ size = 0
  /\ form = "bare"
  /\ damage = "unsent"
  /\ wire = <<>>
  /\ got = Failed

-----------------------------------------------------------------------------
(***************************************************************************)
(* Composing a proof: AddAttestation, AddOp, and Merge under a new op.     *)
(***************************************************************************)
\* AddOp applies the op, and refuses a result that is too long.
Applicable[c \in Stamp \X Nat] ==
  LET t == c[1]
      len == c[2]
  IN  /\ len <= MaxLength
      /\ \A i \in DOMAIN t.ops :
           Applicable[<<t.ops[i].stamp, ResultLength(t.ops[i].op, len)>>]

Compose(t, n) ==
  /\ damage = "unsent"
  /\ size + n <= MaxItems
  /\ t \in Stamp /\ Applicable[<<t, DigestLength>>]
  /\ tree' = t
  /\ size' = size + n
  /\ UNCHANGED <<form, damage, wire, got>>

AddAttestation(a) ==
  /\ a \notin ToSet(tree.atts)
  /\ Compose([tree EXCEPT !.atts = Append(@, a)], 1)

AddOp(o, a) ==
  /\ o \notin {tree.ops[i].op : i \in DOMAIN tree.ops}
  /\ Compose([tree EXCEPT !.ops = Append(@, [op |-> o, stamp |-> Single(a)])], 2)

AddParent(o) ==
  /\ tree # Empty
  /\ Compose(Under(o, tree), 1)

-----------------------------------------------------------------------------
digest == [i \in 1..DigestLength |-> i % Group]

Write(f) == IF f = "bare" THEN Serialize[tree] ELSE SerializeDetached(digest, tree)

Read(f, b) == IF f = "bare" THEN DeserializeBytes(b) ELSE DeserializeDetached(b)

Deliver(f, what, b) ==
  /\ damage = "unsent"
  /\ Serializable[tree]
  /\ form' = f
  /\ damage' = what
  /\ wire' = b
  /\ got' = Read(f, b)
  /\ UNCHANGED <<tree, size>>

Send(f) == Deliver(f, "none", Write(f))

SendCut(f) ==
  \E w \in {Write(f)} : \E k \in 0..(Len(w) - 1) : Deliver(f, "cut", SubSeq(w, 1, k))

SendAltered(f) ==
  /\ size <= MaxAltered
  /\ \E w \in {Write(f)} : \E i \in DOMAIN w : \E v \in Byte \ {w[i]} :
       Deliver(f, "altered", [w EXCEPT ![i] = v])

SendTrailing(f) ==
  \E w \in {Write(f)} : \E v \in Trailing : Deliver(f, "trailing", Append(w, v))

Next ==
  \/ \E a \in Attestations : AddAttestation(a)
  \/ \E o \in Ops, a \in Attestations : AddOp(o, a)
  \/ \E o \in Ops : AddParent(o)
  \/ \E f \in {"bare", "detached"} :
       Send(f) \/ SendCut(f) \/ SendAltered(f) \/ SendTrailing(f)

Spec == Init /\ [][Next]_vars

-----------------------------------------------------------------------------
\* What a reader of this program takes at all: nested less deeply than
\* recursionLimit, and no attestation of an unknown kind with a payload,
\* which Deserialize leaves unread before AssertEOF.
Supported[c \in Stamp \X Nat] ==
  LET t == c[1]
      depth == c[2]
  IN  /\ depth > 0
      /\ \A i \in DOMAIN t.atts : IsUnknown(t.atts[i].tag) => t.atts[i].val = <<>>
      /\ \A i \in DOMAIN t.ops : Supported[<<t.ops[i].stamp, depth - 1>>]

(***************************************************************************)
(* What Serialize writes Deserialize reads: an equal proof (Equal), all    *)
(* the bytes used, for every tree within the limits and at the limits, and *)
(* nothing is read of a proof beyond them.  Bytes after a proof are        *)
(* ignored in a bare timestamp and refused in a detached file.             *)
(***************************************************************************)
RoundTrip ==
  damage \in {"none", "trailing"} =>
    IF Supported[<<tree, RecursionLimit>>] /\ (form = "bare" \/ damage = "none")
    THEN /\ got.st = "ok"
         /\ TreeEqual[<<tree, got.val>>]
         /\ Len(got.rest) = IF damage = "none" THEN 0 ELSE 1
    ELSE got.st = "error"

\* The same proof but for the last attestation of the last branch, where a
\* block height has become lower.
LastHeightLower[c \in Stamp \X Stamp] ==
  LET t == c[1]
      u == c[2]
  IN  IF t.ops = <<>>
      THEN /\ u.ops = <<>> /\ Len(u.atts) = Len(t.atts)
           /\ Front(u.atts) = Front(t.atts)
           /\ Last(u.atts).tag = Last(t.atts).tag /\ HasHeight(Last(t.atts).tag)
           /\ Last(u.atts).val[1] < Last(t.atts).val[1]
      ELSE /\ u.atts = t.atts /\ Len(u.ops) = Len(t.ops)
           /\ Front(u.ops) = Front(t.ops)
           /\ Last(u.ops).op = Last(t.ops).op
           /\ LastHeightLower[<<Last(t.ops).stamp, Last(u.ops).stamp>>]

(***************************************************************************)
(* Bytes cut short are refused, although ReadBytes fills up what is        *)
(* missing with zeros (serialize.go:150), with one exception: of a proof   *)
(* that ends in a block height of several bytes, the last attestation may  *)
(* come out with a lower height.  No branch gets lost or is moved, no URI  *)
(* is shortened, and reading never panics.                                 *)
(***************************************************************************)
CutConfined ==
  damage = "cut" =>
    \/ got.st = "error"
    \/ /\ got.st = "ok"
       /\ Supported[<<tree, RecursionLimit>>]
       /\ LastHeightLower[<<DeserializeBytes(Serialize[tree]).val, got.val>>]

\* The same proof, composed in the opposite order.
Reversed[t \in Stamp] ==
  [atts |-> Reverse(t.atts),
   ops  |-> Reverse([i \in DOMAIN t.ops |->
                       [t.ops[i] EXCEPT !.stamp = Reversed[@]]])]

\* No node has two children under one op.  AddOp keeps it so; in bytes that
\* were altered one op may have become the other, and sort.Slice promises no
\* order of the two.
Apart(t) == \A i, j \in DOMAIN t.ops : t.ops[i].op = t.ops[j].op => i = j

Distinct[t \in Stamp] ==
  Apart(t) /\ \A i \in DOMAIN t.ops : Distinct[t.ops[i].stamp]

(***************************************************************************)
(* Whatever bytes were accepted, altered ones included, the proof can be   *)
(* passed on: postUpgradeJSON answers a request by writing the proof it    *)
(* has read, and what it writes is read back completely, with the same     *)
(* attestations, and is written as the same bytes once more.  The bytes of *)
(* a proof do not depend on the order it was composed in: equal proofs are *)
(* equal files.                                                            *)
(***************************************************************************)
PassedOn ==
  got.st = "ok" =>
    LET Again(b, r) == /\ r.st = "ok" /\ r.rest = <<>>
                       /\ ToSet(AllAttestations[r.val]) = ToSet(AllAttestations[got.val])
                       /\ Distinct[got.val] => Serialize[r.val] = b
                       /\ damage = "none" => Serialize[Reversed[tree]] = b
        Hop(b) == Again(b, DeserializeBytes(b))
    IN  Serializable[got.val] /\ Hop(Serialize[got.val])

(***************************************************************************)
(* ParseProof tells of the proof that was sent, in whatever order it was   *)
(* composed and however the attestations are spread over its branches: the *)
(* lowest height it claims, and exactly the calendars still pending.       *)
(***************************************************************************)
ParsedFacts ==
  damage = "none" /\ got.st = "ok" =>
    LET sent == ToSet(AllAttestations[tree])
        heights == {a.val[1] : a \in {b \in sent : b.tag = bitcoinTag}}
        Claims(p) == /\ p.complete <=> heights # {}
                     /\ p.height = {h \in heights : \A g \in heights : h <= g}
                     /\ p.pending = {a.val : a \in {b \in sent : b.tag = pendingTag}}
    IN  Claims(ParseProof(got.val))
=============================================================================
