---------------------------- MODULE BitcoinNode ----------------------------
(***************************************************************************)
(* The Bitcoin node and wallet the stamper talks to through                *)
(* internal/bitcoin/client.go.  The node itself is not in the repository:  *)
(* what is modelled is what its answers to the RPCs of client.go can be:   *)
(* the active chain, the anchor transactions broadcast so far, blocks that *)
(* are mined, and reorganisations that replace the end of the chain.       *)
(*                                                                         *)
(* A block carries, of everything in it, only what the stamper can tell    *)
(* apart: its identity (hash, and hence its merkle root: two blocks never  *)
(* share their coinbase), the anchor transactions it contains, the anchor  *)
(* transactions whose inputs it spends with another transaction (which is  *)
(* what makes a wallet report negative confirmations), and the neighbour:  *)
(* the first hash, other than its own, an anchor is combined with on its   *)
(* way to the merkle root.                                                 *)
(***************************************************************************)
EXTENDS Integers, Sequences, FiniteSets

CONSTANTS
  Commitment,  \* the 44-byte commitments of the calendar
  MaxTxs,      \* bound: anchor transactions the wallet can fund
  MaxDepth,    \* bound: no block is mined once every anchor is this deep
  MaxReorg,    \* deepest reorganisation of the chain
  Neighbour    \* hashes an anchor can be paired with in a block merkle tree

ASSUME NodeAssumption ==
  /\ MaxTxs \in Nat
  /\ MaxDepth \in Nat
  /\ MaxReorg \in Nat

VARIABLES
  chain,       \* the active chain, a sequence of blocks (height = index)
  minted,      \* number of blocks ever mined; the last one's identity
  sent,        \* anchor transactions broadcast so far: 1..sent
  opReturn,    \* what the merkle tip in a transaction's OP_RETURN commits to
  deepest      \* history: the depth of the deepest reorganisation

nodeVars == <<chain, minted, sent, opReturn, deepest>>

TxId == 1..MaxTxs

Block == [id: Nat, nbr: Neighbour, txs: SUBSET TxId, kills: SUBSET TxId]

NodeTypeOK ==
  /\ chain \in Seq(Block)
  /\ minted \in Nat
  /\ sent \in 0..MaxTxs
  /\ opReturn \in [TxId -> SUBSET Commitment]
  /\ deepest \in 0..MaxReorg

NodeInit ==
  /\ chain = <<>>
  /\ minted = 0
  /\ sent = 0
  /\ opReturn = [t \in TxId |-> {}]
  /\ deepest = 0

(***************************************************************************)
(* What the wallet answers about transaction t (TxStatus): the heights it  *)
(* is mined at (none: BlockHash is then nil), and its confirmations,       *)
(* negative when a mined block spends its inputs otherwise.                *)
(***************************************************************************)
HeightsOf(t) == {h \in DOMAIN chain : t \in chain[h].txs}

KilledAt(t) == {h \in DOMAIN chain : t \in chain[h].kills}

HeightOf(t) == CHOOSE h \in HeightsOf(t) : TRUE

KillHeight(t) == CHOOSE h \in KilledAt(t) : TRUE

Confirmations(t) ==
  CASE HeightsOf(t) # {} -> Len(chain) - HeightOf(t) + 1
    [] HeightsOf(t) = {} /\ KilledAt(t) # {} -> -(Len(chain) - KillHeight(t) + 1)
    [] OTHER -> 0

mempool == {t \in 1..sent : HeightsOf(t) = {} /\ KilledAt(t) = {}}

\* SendOpReturn's last RPC, sendrawtransaction, hands a transaction that
\* commits to cs to the network.
Broadcast(cs) ==
  /\ sent < MaxTxs
  /\ sent' = sent + 1
  /\ opReturn' = [opReturn EXCEPT ![sent + 1] = cs]
  /\ UNCHANGED <<chain, minted, deepest>>

NewBlock(id, n, inc, kill) == [id |-> id, nbr |-> n, txs |-> inc, kills |-> kill]

\* A block without anchors only matters while some anchor is in a block and
\* shallower than MaxDepth.
Shallow == \E t \in 1..sent :
             Confirmations(t) \in (-(MaxDepth - 1)..(MaxDepth - 1)) \ {0}

MineBlock(n, inc, kill) ==
  /\ (inc \cup kill # {}) \/ Shallow
  /\ inc \subseteq mempool
  /\ kill \subseteq mempool \ inc
  /\ chain' = Append(chain, NewBlock(minted + 1, n, inc, kill))
  /\ minted' = minted + 1
  /\ UNCHANGED <<sent, opReturn, deepest>>

(***************************************************************************)
(* A branch of d + 1 blocks replaces the last d blocks.  Its first block   *)
(* may carry some of the anchors; the others fall back to the mempool and  *)
(* can be mined again later.                                               *)
(***************************************************************************)
Reorg(d, n, inc) ==
  /\ d \in 1..MaxReorg
  /\ d <= Len(chain)
  /\ LET base == SubSeq(chain, 1, Len(chain) - d)
         free == {t \in 1..sent : \A h \in DOMAIN base :
                                    t \notin base[h].txs \cup base[h].kills}
     IN  /\ inc \subseteq free
         /\ chain' = base \o
              [k \in 1..(d + 1) |->
                 NewBlock(minted + k, n, IF k = 1 THEN inc ELSE {}, {})]
  /\ minted' = minted + d + 1
  /\ deepest' = IF d > deepest THEN d ELSE deepest
  /\ UNCHANGED <<sent, opReturn>>
=============================================================================
