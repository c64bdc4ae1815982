----------------------------- MODULE BlockProof -----------------------------
(***************************************************************************)
(* internal/bitcoin/blockproof.go and stamper.finalize on real trees: one  *)
(* anchor transaction whose merkle tip is over a set of commitments, and   *)
(* the attempts to extend that tip to the merkle root of the block the     *)
(* transaction is in: against the block's own header or, after a           *)
(* reorganisation, another one; again after a failed write; and in another *)
(* block.                                                                  *)
(*                                                                         *)
(* Stamper.tla abstracts all this to a set of branches, each with its      *)
(* first neighbour and whether it is attested.  Here the abstraction runs  *)
(* beside the trees.                                                       *)
(***************************************************************************)
EXTENDS TimestampTree

CONSTANTS
  NumLeaves,    \* commitments under the transaction
  MaxBlockTxs,  \* bound: transactions in a block
  NumBlocks,    \* bound: blocks the transaction is ever seen in
  MaxAttempts   \* bound: calls of finalize

ASSUME BlockProofAssumption ==
  /\ NumLeaves \in Nat \ {0}
  /\ MaxBlockTxs \in Nat \ {0, 1}
  /\ NumBlocks \in Nat
  /\ MaxAttempts \in Nat

VARIABLES
  heap,         \* the nodes reachable from utx
  tip,          \* utx.tip
  toPut,        \* leaves still to be stored
  receipts,     \* whether Submit's pending proofs reached the store
  store,        \* the calendar's store, per leaf: {} or one tree
  attempts,     \* calls of finalize so far
  branches,     \* the abstraction: [nbr, height, att] grafted so far
  outcome,      \* of the last MakeTimestampFromBlock
  predicted     \* what the abstraction says it should be

vars == <<heap, tip, toPut, receipts, store, attempts, branches, outcome, predicted>>

Leaf == 1..NumLeaves

Commitment(i) == Atom("commitment", i)

(***************************************************************************)
(* maybeSendTx: a node and its SHA-256 for each commitment, and the merkle *)
(* tree over them.  Leaf i is node 2i - 1.                                 *)
(***************************************************************************)
RECURSIVE Leaves(_, _)
Leaves(H, i) ==
  IF i > NumLeaves
  THEN H
  ELSE Leaves(Then(New(H, Commitment(i)), Sha256Op).h, i + 1)

LeafNode(i) == 2 * i - 1

Anchor == MakeMerkleTree(Leaves(<<>>, 1), [i \in Leaf |-> 2 * i])

\* The witness-stripped transaction is a prefix, the tip and a suffix.
Prefix == Atom("prefix", 0)
Suffix == Atom("suffix", 0)
TxIdOf(msg) == Sha(Sha(Prefix \o msg \o Suffix))

(***************************************************************************)
(* Blocks: the first transaction is the block's own coinbase, the anchor   *)
(* is at some later index, and the others may be in another block as well. *)
(***************************************************************************)
Blocks == {b \in [height: 1..NumBlocks, n: 2..MaxBlockTxs, index: 2..MaxBlockTxs] :
             b.index <= b.n}

TxIds(b) ==
  [k \in 1..b.n |-> IF k = 1 THEN Atom("coinbase", b.height)
                    ELSE IF k = b.index THEN TxIdOf(Anchor.h[Anchor.id].msg)
                    ELSE Atom("tx", k)]

(***************************************************************************)
(* Reference definitions, on messages alone: the merkle root of a list of  *)
(* txids, and the first hash other than its own that position i meets.     *)
(***************************************************************************)
\* Position i's sibling in a level; the last of an odd level is its own.
Sibling(s, i) == IF i % 2 = 0 THEN s[i - 1] ELSE s[IF i < Len(s) THEN i + 1 ELSE i]

LevelAbove(s) ==
  [k \in 1..((Len(s) + 1) \div 2) |-> Sha(Sha(s[2 * k - 1] \o Sibling(s, 2 * k - 1)))]

RECURSIVE MerkleRoot(_)
MerkleRoot(s) == IF Len(s) = 1 THEN s[1] ELSE MerkleRoot(LevelAbove(s))

RECURSIVE FirstNeighbour(_, _)
FirstNeighbour(s, i) ==
  IF Sibling(s, i) # s[i] THEN Sibling(s, i)
  ELSE FirstNeighbour(LevelAbove(s), (i + 1) \div 2)

-----------------------------------------------------------------------------
\* Satoshi's odd-leaf duplication.
Evened(s) == IF Len(s) > 1 /\ Len(s) % 2 = 1 THEN Append(s, s[Len(s)]) ELSE s

\* The levels of MakeTimestampFromBlock.
RECURSIVE BlockLevels(_, _)
BlockLevels(H, ids) ==
  IF Len(ids) = 1
  THEN Result(H, ids[1], TRUE)
  ELSE LET Up(next) == IF next.ok THEN BlockLevels(next.h, next.ids)
                                  ELSE Result(next.h, 0, FALSE)
       IN  Up(PairUp(H, Evened(ids), TRUE))

\* From the tip to the node whose message is the txid.
TxNode(H, t) ==
  LET raw == Then(AddOp(H, t, PrependOp(Prefix)), AppendOp(Suffix))
  IN  Then(Then(raw, Sha256Op), Sha256Op)

\* New nodes for the other txids of the block; [h, ids].
RECURSIVE BlockNodes(_, _, _, _)
BlockNodes(H, b, own, k) ==
  IF k > b.n
  THEN [h |-> H, ids |-> <<>>]
  ELSE LET Rest(n) == [BlockNodes(n.h, b, own, k + 1) EXCEPT !.ids = <<n.id>> \o @]
       IN  Rest(IF k = b.index THEN Result(H, own, TRUE) ELSE New(H, TxIds(b)[k]))

\* [h, id, outcome]: the root node, a divergence, or another root.
MakeTimestampFromBlock(H, t, b, merkleRoot) ==
  LET Level(own) == BlockNodes(own.h, b, own.id, 1)
      Top(level) == BlockLevels(level.h, level.ids)
      Compared(root) ==
        [h |-> root.h, id |-> root.id,
         outcome |-> IF ~root.ok THEN "diverged"
                     ELSE IF root.h[root.id].msg # merkleRoot THEN "mismatch"
                     ELSE "built"]
  IN  Compared(Top(Level(TxNode(H, t))))

-----------------------------------------------------------------------------
\* What Submit put in the store: the commitment with a pending attestation.
Pending == 0

Receipt(i) == [msg |-> Commitment(i), atts |-> {Pending}, ops |-> {}]

Init ==
  /\ heap = Anchor.h
  /\ tip = Anchor.id
  /\ toPut = {}
  /\ receipts \in BOOLEAN
  /\ store = [i \in Leaf |-> IF receipts THEN {Receipt(i)} ELSE {}]
  /\ attempts = 0
  /\ branches = {}
  /\ outcome = "none"
  /\ predicted = "none"

\* What Stamper.tla's FinalizeBuild does with the same block and header.
Predict(nbr, same) ==
  IF \E g \in branches : g.nbr = nbr THEN "diverged"
  ELSE IF same THEN "built" ELSE "mismatch"

\* finalize up to its loop; same: the header at that height is the block's.
Build(b, same) ==
  /\ toPut = {}
  /\ attempts < MaxAttempts
  /\ attempts' = attempts + 1
  /\ LET header == IF same THEN MerkleRoot(TxIds(b)) ELSE Atom("other root", 0)
         r   == MakeTimestampFromBlock(heap, tip, b, header)
         nbr == FirstNeighbour(TxIds(b), b.index)
         built == r.outcome = "built"
     IN  /\ outcome' = r.outcome
         /\ heap' = IF built THEN Attest(r.h, r.id, b.height) ELSE r.h
         /\ toPut' = IF built THEN Leaf ELSE {}
         /\ predicted' = Predict(nbr, same)
         /\ branches' = IF Predict(nbr, same) = "diverged" THEN branches
                        ELSE branches \cup {[nbr |-> nbr, height |-> b.height,
                                             att |-> same]}
  /\ UNCHANGED <<tip, receipts, store>>

\* BoltStore.Put of one leaf.
Put(i) ==
  /\ i \in toPut
  /\ Serializable(heap, LeafNode(i))
  /\ LET tree == Serialize(heap, LeafNode(i))
     IN  store' = [store EXCEPT ![i] =
                     IF @ = {} THEN {tree} ELSE {Merge(v, tree) : v \in @}]
  /\ toPut' = toPut \ {i}
  /\ UNCHANGED <<heap, tip, receipts, attempts, branches, outcome, predicted>>

\* Put fails, in the store or in Serialize: finalize returns the error.
PutFails ==
  /\ toPut # {}
  /\ toPut' = {}
  /\ outcome' = "not stored"
  /\ predicted' = "not stored"
  /\ UNCHANGED <<heap, tip, receipts, store, attempts, branches>>

Next ==
  \/ \E b \in Blocks, same \in BOOLEAN : Build(b, same)
  \/ \E i \in Leaf : Put(i)
  \/ PutFails

Spec == Init /\ [][Next]_vars

-----------------------------------------------------------------------------
(***************************************************************************)
(* The abstraction Stamper.tla works with is right: an attempt succeeds,   *)
(* diverges or finds another root exactly when the set of branches says    *)
(* so, and a leaf can be written exactly when every branch is attested.    *)
(***************************************************************************)
BranchesSuffice ==
  /\ outcome = predicted
  /\ toPut # {} => \A i \in Leaf :
       Serializable(heap, LeafNode(i)) <=> \A g \in branches : g.att

(***************************************************************************)
(* Every Bitcoin attestation in a stored proof sits on the merkle root of  *)
(* the block it names, computed from the block's txids alone; so the ops   *)
(* from the commitment through the batch's tree, the transaction and the   *)
(* block's tree are the right ones, for every leaf and position.           *)
(***************************************************************************)
StoredProofsTrue ==
  \A i \in Leaf : \A v \in store[i] :
    \A a \in AllAttestations(v) :
      IF a.att = Pending
      THEN a.msg = Commitment(i)
      ELSE \E b \in Blocks : b.height = a.att /\ a.msg = MerkleRoot(TxIds(b))

(***************************************************************************)
(* A proof finalize has stored is complete: it has the attestation of      *)
(* every block the transaction was proved to be in so far, and still the   *)
(* calendar's pending attestation (MakeMerkleTree and CatThenUnaryOp reach *)
(* every leaf; BoltStore.Put merges).                                      *)
(***************************************************************************)
StoredProofsComplete ==
  outcome = "built" =>
    \A i \in Leaf \ toPut : \E v \in store[i] :
      {g.height : g \in branches} \cup (IF receipts THEN {Pending} ELSE {})
        \subseteq {a.att : a \in AllAttestations(v)}
=============================================================================
