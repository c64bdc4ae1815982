----------------------------- MODULE ProofMerge -----------------------------
(***************************************************************************)
(* How a client's proof tree is put together: Pool.Stamp merges the trees  *)
(* of several calendars in the order in which they arrive, and Upgrade     *)
(* merges later answers into the nodes it finds by their messages, while   *)
(* it walks a list taken before the tree changed.  The tree may also be a  *)
(* foreign one, read from a file or a request.                             *)
(*                                                                         *)
(* Trees are plain values: Deserialize and Merge make nodes of their own,  *)
(* so the trees of a client, unlike those of TimestampTree, share none.    *)
(* The lists keep their order, since Merge and findNode take the first     *)
(* match.  An operation that can fail returns [t, ok]: the tree as it left *)
(* it, and whether the error is nil.                                       *)
(***************************************************************************)
EXTENDS Integers, Sequences, SequencesExt, Functions, FiniteSets

CONSTANTS
  Calendar,      \* the calendars of the pool
  Digest,        \* the digest that is stamped: a message
  Receipts,      \* shapes of trees that calendars answer Submit with
  Answers,       \* shapes of trees that calendars answer GetTimestamp with
  Foreign,       \* shapes of proofs from elsewhere
  MaxMsgLength,  \* op.MaxMsgLength
  MaxUpgrades    \* bound: calls of Upgrade

VARIABLES
  proof,         \* the client's tree, or NoProof
  pc,            \* "idle", "stamp" or "upgrade"
  waiting,       \* Stamp: calendars whose result is not yet taken
  arrived,       \* history: the trees Stamp took, in this order
  items,         \* Upgrade: what is left of the list it took at its start
  before,        \* Upgrade: the length of that list
  upgraded,      \* what the last Upgrade returned
  start,         \* history: the proof when the last Upgrade started
  pooled,        \* history: the proof was made by Stamp
  given,         \* history: all that was read or received, with its message
  rounds         \* calls of Upgrade

vars == <<proof, pc, waiting, arrived, items, before, upgraded, start, pooled,
          given, rounds>>

T == INSTANCE TimestampTree

NoProof == [msg |-> <<>>, atts |-> <<>>, ops |-> <<>>]

-----------------------------------------------------------------------------
(* Trees. *)

\* New: a node without attestations and ops.
New(m) == [msg |-> m, atts |-> <<>>, ops |-> <<>>]

\* The tree that is read for a shape under message m: Deserialize computes
\* every message from the ops, and refuses the tree if one is too long.
RECURSIVE At(_, _)
At(m, shape) ==
  [msg |-> m, atts |-> shape.atts,
   ops |-> [i \in DOMAIN shape.ops |->
              [op    |-> shape.ops[i].op,
               stamp |-> At(T!Apply(shape.ops[i].op, m), shape.ops[i].stamp)]]]

RECURSIVE Nodes(_)
Nodes(t) == {t} \cup UNION {Nodes(t.ops[i].stamp) : i \in DOMAIN t.ops}

Fits(m) == Len(m) <= MaxMsgLength

\* The trees of these shapes that can be read under message m.
Readable(m, shapes) ==
  {t \in {At(m, s) : s \in shapes} : \A n \in Nodes(t) : Fits(n.msg)}

\* AllAttestations, depth first.
RECURSIVE AllAttestations(_)
AllAttestations(t) ==
  [i \in DOMAIN t.atts |-> [msg |-> t.msg, att |-> t.atts[i]]]
    \o FlattenSeq([i \in DOMAIN t.ops |-> AllAttestations(t.ops[i].stamp)])

\* The first child of t under op o, or 0.
ChildUnder(t, o) == SelectInSeq(t.ops, LAMBDA p : p.op = o)

RECURSIVE Equal(_, _)
Equal(t, u) ==
  /\ t.msg = u.msg
  /\ Len(t.atts) = Len(u.atts) /\ Len(t.ops) = Len(u.ops)
  /\ ToSet(t.atts) \subseteq ToSet(u.atts)
  /\ \A i \in DOMAIN t.ops :
       LET j == ChildUnder(u, t.ops[i].op)
       IN  j # 0 /\ Equal(t.ops[i].stamp, u.ops[j].stamp)

-----------------------------------------------------------------------------
(* Merge. *)

\* Mutant: the child is made for the parent's message.
AddOpOnParent(t, o) ==
  [t |-> [t EXCEPT !.ops = Append(@, [op |-> o, stamp |-> New(t.msg)])],
   ok |-> Fits(t.msg)]

\* AddOp for an op that t does not have.
AddOp(t, o) ==
  LET m == T!Apply(o, t.msg)
  IN  IF Fits(m)
      THEN [t |-> [t EXCEPT !.ops = Append(@, [op |-> o, stamp |-> New(m)])], ok |-> TRUE]
      ELSE [t |-> t, ok |-> FALSE]

\* Mutant: attestations are appended without looking.
AppendAll(atts, more) == atts \o more

\* Mutant: a node that has attestations gets no others.
AppendIfNone(atts, more) == IF atts = <<>> THEN more ELSE atts

\* The attestations of another node, unless hasAttestation.
AddAttestations(atts, more) ==
  FoldLeft(LAMBDA s, a : IF a \in ToSet(s) THEN s ELSE Append(s, a), atts, more)

RECURSIVE Merge(_, _)
Merge(t, other) ==
  LET \* One turn of the loop over other.Ops, after turns that left r.
      MergeOp(r, p) ==
        LET known  == ChildUnder(r.t, p.op)
            added  == IF known # 0 THEN r ELSE AddOp(r.t, p.op)
            child  == IF known # 0 THEN known ELSE Len(added.t.ops)
            merged == Merge(added.t.ops[child].stamp, p.stamp)
        IN  IF ~r.ok \/ ~added.ok
            THEN [r EXCEPT !.ok = FALSE]
            ELSE [t |-> [added.t EXCEPT !.ops[child].stamp = merged.t], ok |-> merged.ok]
      withAtts == [t |-> [t EXCEPT !.atts = AddAttestations(@, other.atts)], ok |-> TRUE]
  IN  IF t.msg # other.msg
      THEN [t |-> t, ok |-> FALSE]
      ELSE FoldLeft(MergeOp, withAtts, other.ops)

-----------------------------------------------------------------------------
(***************************************************************************)
(* Stamp and reading a proof.                                              *)
(***************************************************************************)
Facts(t) == ToSet(AllAttestations(t))

Init ==
  /\ proof = NoProof
  /\ pc = "idle"
  /\ waiting = {}
  /\ arrived = <<>>
  /\ items = <<>>
  /\ before = 0
  /\ upgraded = FALSE
  /\ start = NoProof
  /\ pooled = FALSE
  /\ given = {}
  /\ rounds = 0

upgradeVars == <<items, before, upgraded, start, rounds>>

\* A proof is read as it is: a file, a request, or one calendar's receipt.
Load ==
  /\ pc = "idle" /\ proof = NoProof
  /\ \E t \in Readable(Digest, Foreign \cup Receipts) :
       proof' = t /\ given' = Facts(t)
  /\ UNCHANGED <<pc, waiting, arrived, pooled, upgradeVars>>

StampStart ==
  /\ pc = "idle" /\ proof = NoProof
  /\ pc' = "stamp"
  /\ waiting' = Calendar
  /\ UNCHANGED <<proof, arrived, pooled, given, upgradeVars>>

\* The results come out of the channel in the order the calendars answered.
\* One with an error, of the call or of Merge, is only noted.
StampResult(c) ==
  /\ pc = "stamp" /\ c \in waiting
  /\ waiting' = waiting \ {c}
  /\ \/ UNCHANGED <<proof, arrived, pooled, given>>
     \/ \E t \in Readable(Digest, Receipts) :
          /\ proof' = Merge(IF proof = NoProof THEN New(Digest) ELSE proof, t).t
          /\ arrived' = Append(arrived, t)
          /\ pooled' = TRUE
          /\ given' = given \cup Facts(t)
  /\ UNCHANGED <<pc, upgradeVars>>

StampDone ==
  /\ pc = "stamp" /\ waiting = {}
  /\ pc' = "idle"
  /\ arrived' = <<>>
  /\ UNCHANGED <<proof, waiting, pooled, given, upgradeVars>>

-----------------------------------------------------------------------------
(***************************************************************************)
(* Upgrade.                                                                *)
(***************************************************************************)
\* Mutant: what the first branch says is taken for the answer.
RECURSIVE FindInFirst(_, _)
FindInFirst(t, m) ==
  IF t.msg = m THEN {<<>>}
  ELSE IF t.ops = <<>> THEN {}
  ELSE {<<1>> \o way : way \in FindInFirst(t.ops[1].stamp, m)}

\* findNode: the way to the first node with that message, depth first; a set
\* of at most one.
RECURSIVE findNode(_, _)
findNode(t, m) ==
  LET below == [i \in DOMAIN t.ops |-> findNode(t.ops[i].stamp, m)]
      first == SelectInSeq(below, LAMBDA found : found # {})
  IN  IF t.msg = m THEN {<<>>}
      ELSE IF first = 0 THEN {}
      ELSE {<<first>> \o way : way \in below[first]}

\* sub.Merge(upgraded), where sub is the node at the end of the way.
RECURSIVE MergeAt(_, _, _)
MergeAt(t, way, other) ==
  IF way = <<>>
  THEN Merge(t, other)
  ELSE LET sub == MergeAt(t.ops[Head(way)].stamp, Tail(way), other)
       IN  [sub EXCEPT !.t = [t EXCEPT !.ops[Head(way)].stamp = sub.t]]

stampVars == <<waiting, arrived, pooled>>

UpgradeStart ==
  /\ pc = "idle" /\ proof # NoProof
  /\ rounds < MaxUpgrades
  /\ rounds' = rounds + 1
  /\ pc' = "upgrade"
  /\ items' = AllAttestations(proof)
  /\ before' = Len(items')
  /\ start' = proof
  /\ upgraded' = FALSE
  /\ UNCHANGED <<proof, given, stampVars>>

IsPending(item) == item.att[1] = "pending"

\* One turn of the loop.  GetTimestamp gives an error, or a tree for the
\* commitment asked for; an error of Merge ends Upgrade.
UpgradeItem ==
  /\ pc = "upgrade" /\ items # <<>>
  /\ LET item == Head(items)
     IN  \/ items' = Tail(items) /\ UNCHANGED <<proof, pc, given>>
         \/ /\ IsPending(item)
            /\ \E t \in Readable(item.msg, Answers) :
                 LET ways   == findNode(proof, item.msg)
                     merged == IF ways = {} THEN [t |-> proof, ok |-> TRUE]
                               ELSE MergeAt(proof, CHOOSE way \in ways : TRUE, t)
                 IN  /\ given' = given \cup Facts(t)
                     /\ proof' = merged.t
                     /\ items' = IF merged.ok THEN Tail(items) ELSE <<>>
                     /\ pc' = IF merged.ok THEN pc ELSE "idle"
  /\ UNCHANGED <<before, upgraded, start, rounds, stampVars>>

\* Mutant: no fewer is taken for more.
NoFewer(n, t) == Len(AllAttestations(t)) >= n

\* len(ts.AllAttestations()) > before
Gained(n, t) == Len(AllAttestations(t)) > n

UpgradeDone ==
  /\ pc = "upgrade" /\ items = <<>>
  /\ pc' = "idle"
  /\ upgraded' = Gained(before, proof)
  /\ before' = 0
  /\ UNCHANGED <<proof, items, start, given, rounds, stampVars>>

Next ==
  \/ Load
  \/ StampStart \/ StampDone
  \/ \E c \in Calendar : StampResult(c)
  \/ UpgradeStart \/ UpgradeItem \/ UpgradeDone

Spec == Init /\ [][Next]_vars

-----------------------------------------------------------------------------
\* No node is empty, and every child has the message its op computes.
Coherent(t) ==
  \A n \in Nodes(t) :
    /\ n.atts # <<>> \/ n.ops # <<>>
    /\ \A i \in DOMAIN n.ops : n.ops[i].stamp.msg = T!Apply(n.ops[i].op, n.msg)

\* No node has an attestation or an op twice.
Tidy(t) ==
  \A n \in Nodes(t) :
    /\ IsInjective(n.atts)
    /\ IsInjective([i \in DOMAIN n.ops |-> n.ops[i].op])

\* The variables keep their types; every proof can be serialized and every
\* path of it evaluates to the messages in it.
TypeOK ==
  /\ pc \in {"idle", "stamp", "upgrade"}
  /\ waiting \subseteq Calendar
  /\ before \in Nat
  /\ upgraded \in BOOLEAN
  /\ rounds \in 0..MaxUpgrades
  /\ proof # NoProof => Coherent(proof)

(***************************************************************************)
(* The proof attests exactly what was read and received: no attestation of *)
(* any calendar's answer is lost or ends up on another message, whatever   *)
(* else the answer contains, whether Stamp or Upgrade merged it, and       *)
(* although Upgrade looks its node up in a tree that has changed since the *)
(* list was taken; and no answer makes Merge or findNode fail.             *)
(***************************************************************************)
NothingLost == Facts(proof) = given

(***************************************************************************)
(* Pool.Stamp's proof does not depend on the order in which calendars      *)
(* answer: merged in any other order, what arrived gives a tree that is    *)
(* Equal, both ways round.                                                 *)
(***************************************************************************)
MergedIn(order) == FoldLeft(LAMBDA t, i : Merge(t, arrived[i]).t, New(Digest), order)

OrderIrrelevant ==
  arrived # <<>> =>
    \A order \in SetToSeqs(DOMAIN arrived) :
      Equal(proof, MergedIn(order)) /\ Equal(MergedIn(order), proof)

(***************************************************************************)
(* A proof that the pool made never has an attestation or an op twice at a *)
(* node, however often it is upgraded and whatever the calendars repeat:   *)
(* polling does not make it grow beyond what it says.                      *)
(***************************************************************************)
NoRepeats == pooled => Tidy(proof)

\* What a tree says: each attestation, with the ops that lead to it.
RECURSIVE Claims(_)
Claims(t) ==
  {[ops |-> <<>>, att |-> a] : a \in ToSet(t.atts)}
    \cup UNION {{[c EXCEPT !.ops = <<p.op>> \o @] : c \in Claims(p.stamp)} :
                 p \in ToSet(t.ops)}

(***************************************************************************)
(* "It reports whether the proof gained new attestations", which it tells  *)
(* by their number before and after: when Upgrade returns false the proof  *)
(* is as it was, and when it returns true the proof has an attestation     *)
(* that it did not have there, unless it had repetitions (a foreign proof).*)
(***************************************************************************)
ReportsGain ==
  pc = "idle" /\ rounds > 0 =>
    /\ ~upgraded => proof = start
    /\ upgraded /\ Tidy(start) => Claims(proof) # Claims(start)
=============================================================================
