------------------------------ MODULE Stamper ------------------------------
(***************************************************************************)
(* internal/stamper/stamper.go: the background loop that takes commitments *)
(* out of the journal, anchors them in OP_RETURN transactions and, once a  *)
(* transaction is buried under MinConf blocks, adds the Bitcoin            *)
(* attestation to every commitment's proof in the store.                   *)
(*                                                                         *)
(* One step() of the code is a sequence of RPCs and store writes during    *)
(* which submissions, the network and a crash can intervene, so it is      *)
(* split where it calls out: pc says where the goroutine is.               *)
(*                                                                         *)
(*   idle -> Tick (ingestJournal) -> track -> TrackTx ... -> send -> idle  *)
(*                                    |  ^                     |           *)
(*                                    v  |                     v           *)
(*                              build -> put               sent -> idle    *)
(*                                                                         *)
(* The journal appends whole records atomically here; Journal.tla models   *)
(* what happens inside Append.                                             *)
(***************************************************************************)
EXTENDS BitcoinNode, Functions

CONSTANTS
  MinConf,     \* cfg.MinConfirmations
  MaxPending,  \* cfg.MaxPending
  FaultKinds,  \* which faults the environment may inject
  MaxFaults    \* bound: faults in one behaviour (a reorganisation: its depth)

ASSUME StamperAssumption ==
  /\ MinConf \in Nat \ {0}
  /\ MaxPending \in Nat
  /\ MaxFaults \in Nat

VARIABLES
  journal,     \* durable: the commitments, in append order
  receipts,    \* durable: commitments whose pending proof is in the store
  proofs,      \* durable: the Bitcoin attestations in each stored proof
  submitting,  \* Service.Submit between journal.Append and store.Put
  pending,     \* s.pending
  unconfirmed, \* s.unconfirmed (in the order sent: transaction numbers grow)
  tip,         \* utx.tip: the block branches already grafted on its tree
  cursor,      \* s.cursor: how many journal records have been ingested
  lastTxTime,  \* s.lastTxTime: "recent" iff set less than MinTxInterval ago
  pc,          \* where the stamper goroutine is
  todo,        \* transactions trackConfirmations has still to look at
  fin,         \* the transaction, block and height finalize works on
  toPut,       \* leaves finalize has still to write to the store
  faults       \* faults so far

volatile == <<submitting, pending, unconfirmed, tip, cursor, lastTxTime, pc,
              todo, fin, toPut>>
durable  == <<journal, receipts, proofs>>
vars == <<nodeVars, durable, volatile, faults>>

PC == {"down", "idle", "track", "build", "put", "send", "sent"}

\* A Bitcoin attestation reached through transaction tx: block and height.
Attestation == [tx: TxId, blk: Nat, height: Nat]

\* A merkle path from the transaction's tip into a block: its first
\* neighbour, the block it leads to, and whether an attestation hangs there.
Branch == [nbr: Neighbour, blk: Nat, height: Nat, att: BOOLEAN]

NoFin == [tx |-> 0, blk |-> 0, height |-> 0, nbr |-> {}]

Fin == [tx: TxId, blk: Nat, height: Nat, nbr: Neighbour] \cup {NoFin}

TypeOK ==
  /\ NodeTypeOK
  /\ journal \in Seq(Commitment)
  /\ receipts \subseteq Commitment
  /\ proofs \in [Commitment -> SUBSET Attestation]
  /\ submitting \subseteq Commitment
  /\ pending \subseteq Commitment
  /\ unconfirmed \subseteq 1..sent
  /\ tip \in [TxId -> SUBSET Branch]
  /\ cursor \in 0..Len(journal)
  /\ lastTxTime \in {"past", "recent"}
  /\ pc \in PC
  /\ todo \subseteq unconfirmed
  /\ fin \in Fin
  /\ toPut \subseteq Commitment
  /\ faults \in Nat

Faults(kind, n) ==
  /\ kind \in FaultKinds
  /\ faults + n <= MaxFaults
  /\ faults' = faults + n

Fault(kind) == Faults(kind, 1)

NoFault == UNCHANGED faults

(***************************************************************************)
(* New and Recover over an empty data directory.                           *)
(***************************************************************************)
Init ==
  /\ NodeInit
  /\ journal = <<>>
  /\ receipts = {}
  /\ proofs = [c \in Commitment |-> {}]
  /\ submitting = {}
  /\ pending = {}
  /\ unconfirmed = {}
  /\ tip = [t \in TxId |-> {}]
  /\ cursor = 0
  /\ lastTxTime = "past"
  /\ pc = "idle"
  /\ todo = {}
  /\ fin = NoFin
  /\ toPut = {}
  /\ faults = 0

\* isConfirmed: the stored proof carries a Bitcoin attestation.
isConfirmed(c) == proofs[c] # {}

\* IsPending: queued, or a leaf of a transaction waiting for confirmations.
IsPending(c) == c \in pending \/ \E t \in unconfirmed : c \in opReturn[t]

-----------------------------------------------------------------------------
(***************************************************************************)
(* Service.Submit, called by the aggregator's goroutine only: the journal  *)
(* append, then the store write, with the stamper running in between.      *)
(***************************************************************************)
SubmitJournal(c) ==
  /\ pc # "down"
  /\ submitting = {}
  /\ c \notin Range(journal)
  /\ journal' = Append(journal, c)
  /\ submitting' = {c}
  /\ UNCHANGED <<nodeVars, receipts, proofs, pending, unconfirmed, tip, cursor,
                 lastTxTime, pc, todo, fin, toPut, faults>>

\* Mutant: Put replaces the stored proof, as MemoryStore does.
Overwrite(stored, added) == added

\* BoltStore.Put merges: attestations already stored are kept.
Merge(stored, added) == stored \cup added

SubmitPut(c) ==
  /\ pc # "down"
  /\ c \in submitting
  /\ submitting' = {}
  /\ \/ /\ NoFault
        /\ receipts' = receipts \cup {c}
        /\ proofs' = [proofs EXCEPT ![c] = Merge(@, {})]
     \/ /\ Fault("put")
        /\ UNCHANGED <<receipts, proofs>>
  /\ UNCHANGED <<nodeVars, journal, pending, unconfirmed, tip, cursor,
                 lastTxTime, pc, todo, fin, toPut>>

(***************************************************************************)
(* step(): ingestJournal moves records into the pool until the journal is  *)
(* exhausted, the pool is full or a read fails.                            *)
(***************************************************************************)
Ingested(n) == {journal[i] : i \in (cursor + 1)..n}

\* The loop gets past record i: the pool had room when it looked.
RoomFor(i) == Cardinality(pending \cup Ingested(i - 1)) < MaxPending

Tick ==
  /\ pc = "idle"
  /\ \E n \in cursor..Len(journal) :
       /\ \A i \in (cursor + 1)..n : RoomFor(i)
       /\ \/ /\ n = Len(journal) \/ ~RoomFor(n + 1)
             /\ NoFault
          \/ /\ n < Len(journal)
             /\ Fault("read")
       /\ pending' = pending \cup Ingested(n)
       /\ cursor' = n
  /\ pc' = "track"
  /\ todo' = unconfirmed
  /\ UNCHANGED <<nodeVars, durable, submitting, unconfirmed, tip, lastTxTime,
                 fin, toPut>>

-----------------------------------------------------------------------------
(***************************************************************************)
(* trackConfirmations: TxStatus of each transaction in turn.               *)
(***************************************************************************)
IsNext(t) == t \in todo /\ \A u \in todo : t <= u

\* Mutant: the entry is not appended to remaining when TxStatus fails.
KeepTxForgets(t) ==
  /\ \/ Fault("rpc") /\ unconfirmed' = unconfirmed \ {t}
     \/ /\ NoFault
        /\ Confirmations(t) >= 0
        /\ Confirmations(t) < MinConf \/ HeightsOf(t) = {}
        /\ UNCHANGED unconfirmed
  /\ UNCHANGED <<pending, tip, pc, fin>>

\* TxStatus failed, or the transaction is not deep enough: keep it.
KeepTx(t) ==
  /\ \/ Fault("rpc")
     \/ /\ NoFault
        /\ Confirmations(t) >= 0
        /\ Confirmations(t) < MinConf \/ HeightsOf(t) = {}
  /\ UNCHANGED <<pending, unconfirmed, tip, pc, fin>>

\* Mutant: the conflicted entry is kept as well.
ConflictTxKept(t) ==
  /\ Confirmations(t) < 0
  /\ NoFault
  /\ pending' = pending \cup opReturn[t]
  /\ UNCHANGED <<pc, fin, unconfirmed, tip>>

\* A conflicting transaction was mined: back to the pool, whatever its size.
ConflictTx(t) ==
  /\ Confirmations(t) < 0
  /\ NoFault
  /\ pending' = pending \cup opReturn[t]
  /\ unconfirmed' = unconfirmed \ {t}
  /\ tip' = [tip EXCEPT ![t] = {}]
  /\ UNCHANGED <<pc, fin>>

\* finalize(utx, st.BlockHash) begins.  BlockTxIDs answers from the block
\* itself, so what it returns is fixed by the hash.
Finalize(t) ==
  LET block == chain[HeightOf(t)]
  IN  /\ fin' = [tx |-> t, blk |-> block.id, height |-> HeightOf(t),
                 nbr |-> block.nbr]
      /\ pc' = "build"
      /\ NoFault
      /\ UNCHANGED <<pending, unconfirmed, tip>>

\* Mutant: one confirmation short.
ConfirmTxEarly(t) ==
  /\ Confirmations(t) >= MinConf - 1
  /\ HeightsOf(t) # {}
  /\ Finalize(t)

\* Buried under MinConf blocks, and the wallet names the block.
ConfirmTx(t) ==
  /\ Confirmations(t) >= MinConf
  /\ HeightsOf(t) # {}
  /\ Finalize(t)

TrackTx(t) ==
  /\ pc = "track"
  /\ IsNext(t)
  /\ todo' = todo \ {t}
  /\ KeepTx(t) \/ ConflictTx(t) \/ ConfirmTx(t)
  /\ UNCHANGED <<nodeVars, durable, submitting, cursor, lastTxTime, toPut>>

TrackDone ==
  /\ pc = "track"
  /\ todo = {}
  /\ pc' = "send"
  /\ UNCHANGED <<nodeVars, durable, submitting, pending, unconfirmed, tip,
                 cursor, lastTxTime, todo, fin, toPut, faults>>

(***************************************************************************)
(* finalize: the block header is asked for by height, after the block was  *)
(* chosen by hash.  MakeTimestampFromBlock grafts the path onto utx.tip as *)
(* it goes and can only refuse afterwards, so a refused branch stays.      *)
(***************************************************************************)
\* MakeTimestampFromBlock over a tree that already has this neighbour finds
\* the old branch's ops where CatThenUnaryOp expects a fresh node: "append/
\* prepend paths diverged".
Diverges == \E b \in tip[fin.tx] : b.nbr = fin.nbr

\* Mutant: the computed root is not compared with the header.
RootUnchecked == FALSE

\* The header at that height has another merkle root.
RootMismatch == chain[fin.height].id # fin.blk

\* BlockHeader: the active chain has a block at that height.
HeaderFound == fin.height \in DOMAIN chain

Grafted(att) == tip[fin.tx] \cup {[nbr |-> fin.nbr, blk |-> fin.blk,
                                   height |-> fin.height, att |-> att]}

\* finalize returned an error: the transaction stays in the list.
GiveUp == pc' = "track" /\ fin' = NoFin /\ toPut' = {}

FinalizeBuild ==
  /\ pc = "build"
  /\ \/ /\ IF HeaderFound THEN Fault("rpc") ELSE NoFault
        /\ GiveUp
        /\ UNCHANGED tip
     \/ /\ NoFault
        /\ HeaderFound /\ Diverges
        /\ GiveUp
        /\ UNCHANGED tip
     \/ /\ NoFault
        /\ HeaderFound /\ ~Diverges
        /\ RootMismatch
        /\ tip' = [tip EXCEPT ![fin.tx] = Grafted(FALSE)]
        /\ GiveUp
     \/ /\ NoFault
        /\ HeaderFound /\ ~Diverges
        /\ ~RootMismatch
        /\ tip' = [tip EXCEPT ![fin.tx] = Grafted(TRUE)]
        /\ toPut' = opReturn[fin.tx]
        /\ pc' = "put"
        /\ UNCHANGED fin
  /\ UNCHANGED <<nodeVars, durable, submitting, pending, unconfirmed, cursor,
                 lastTxTime, todo>>

\* Serialize refuses a tree with an empty node: a branch without attestation.
Serializable(t) == \A b \in tip[t] : b.att

AttestationsOf(t) ==
  {[tx |-> t, blk |-> b.blk, height |-> b.height] : b \in {d \in tip[t] : d.att}}

\* One iteration of the loop over utx.leaves (a map: in any order).
FinalizePut(c) ==
  /\ pc = "put"
  /\ c \in toPut
  /\ \/ /\ NoFault
        /\ Serializable(fin.tx)
        /\ proofs' = [proofs EXCEPT ![c] = Merge(@, AttestationsOf(fin.tx))]
        /\ toPut' = toPut \ {c}
        /\ UNCHANGED <<pc, fin>>
     \/ /\ Fault("put") \/ (NoFault /\ ~Serializable(fin.tx))
        /\ GiveUp
        /\ UNCHANGED proofs
  /\ UNCHANGED <<nodeVars, journal, receipts, submitting, pending, unconfirmed,
                 tip, cursor, lastTxTime, todo>>

\* finalize returned nil: the transaction is not kept.
FinalizeDone ==
  /\ pc = "put"
  /\ toPut = {}
  /\ unconfirmed' = unconfirmed \ {fin.tx}
  /\ tip' = [tip EXCEPT ![fin.tx] = {}]
  /\ fin' = NoFin
  /\ pc' = "track"
  /\ UNCHANGED <<nodeVars, durable, submitting, pending, cursor, lastTxTime,
                 todo, toPut, faults>>

-----------------------------------------------------------------------------
(***************************************************************************)
(* maybeSendTx: nothing to send or too soon; SendOpReturn failing before   *)
(* the broadcast; or the broadcast, after which the answer is still to be  *)
(* received and the transaction to be entered in the list.                 *)
(***************************************************************************)
\* fundrawtransaction: the wallet has nothing left to fund a transaction with.
OutOfFunds == sent = MaxTxs /\ NoFault

SkipSend ==
  /\ pc = "send"
  /\ \/ (pending = {} \/ lastTxTime = "recent") /\ NoFault
     \/ pending # {} /\ lastTxTime # "recent" /\ (Fault("rpc") \/ OutOfFunds)
  /\ pc' = "idle"
  /\ UNCHANGED <<nodeVars, durable, submitting, pending, unconfirmed, tip,
                 cursor, lastTxTime, todo, fin, toPut>>

SendOpReturn ==
  /\ pc = "send"
  /\ pending # {}
  /\ lastTxTime # "recent"
  /\ Broadcast(pending)
  /\ pc' = "sent"
  /\ UNCHANGED <<durable, submitting, pending, unconfirmed, tip, cursor,
                 lastTxTime, todo, fin, toPut, faults>>

\* The answer arrives and StripWitness succeeds; or one of them fails, and
\* the commitments stay in the pool although their transaction is out.
SendReply ==
  /\ pc = "sent"
  /\ pc' = "idle"
  /\ \/ /\ NoFault
        /\ unconfirmed' = unconfirmed \cup {sent}
        /\ pending' = pending \ opReturn[sent]
        /\ lastTxTime' = "recent"
     \/ /\ Fault("reply")
        /\ UNCHANGED <<unconfirmed, pending, lastTxTime>>
  /\ UNCHANGED <<nodeVars, durable, submitting, tip, cursor, todo, fin, toPut>>

-----------------------------------------------------------------------------
(***************************************************************************)
(* The process dies, anywhere; main opens the data directory again and     *)
(* Recover replays the journal.                                            *)
(***************************************************************************)
Crash ==
  /\ pc # "down"
  /\ Fault("crash")
  /\ pc' = "down"
  /\ submitting' = {}
  /\ pending' = {}
  /\ unconfirmed' = {}
  /\ tip' = [t \in TxId |-> {}]
  /\ cursor' = 0
  /\ lastTxTime' = "past"
  /\ todo' = {}
  /\ fin' = NoFin
  /\ toPut' = {}
  /\ UNCHANGED <<nodeVars, durable>>

RecoverWith(pool, n) ==
  /\ pc = "down"
  /\ pending' = pool
  /\ cursor' = n
  /\ pc' = "idle"
  /\ UNCHANGED <<nodeVars, durable, submitting, unconfirmed, tip, lastTxTime,
                 todo, fin, toPut, faults>>

Unanchored == {c \in Range(journal) : ~isConfirmed(c)}

\* Mutants: the cursor ends one past the journal; commitments whose pending
\* proof is stored are taken for done.
RecoverPastEnd == RecoverWith(Unanchored, Len(journal) + 1)
RecoverUnstored == RecoverWith(Unanchored \ receipts, Len(journal))

Recover == RecoverWith(Unanchored, Len(journal))

IntervalElapses ==
  /\ lastTxTime = "recent"
  /\ lastTxTime' = "past"
  /\ UNCHANGED <<nodeVars, durable, submitting, pending, unconfirmed, tip,
                 cursor, pc, todo, fin, toPut, faults>>

\* The network: a conflicting transaction is a fault, and so is every block
\* that a reorganisation replaces.
Mine ==
  /\ \E n \in Neighbour, inc \in SUBSET mempool, kill \in SUBSET mempool :
       /\ MineBlock(n, inc, kill)
       /\ IF kill = {} THEN NoFault ELSE Fault("conflict")
  /\ UNCHANGED <<durable, volatile>>

Reorganise ==
  /\ \E d \in 1..MaxReorg, n \in Neighbour, inc \in SUBSET (1..sent) :
       /\ Faults("reorg", d)
       /\ Reorg(d, n, inc)
  /\ UNCHANGED <<durable, volatile>>

-----------------------------------------------------------------------------
StamperStep ==
  \/ Tick
  \/ \E t \in TxId : TrackTx(t)
  \/ TrackDone
  \/ FinalizeBuild
  \/ \E c \in Commitment : FinalizePut(c)
  \/ FinalizeDone
  \/ SkipSend
  \/ SendOpReturn
  \/ SendReply

Next ==
  \/ \E c \in Commitment : SubmitJournal(c) \/ SubmitPut(c)
  \/ StamperStep
  \/ Crash
  \/ Recover
  \/ IntervalElapses
  \/ Mine
  \/ Reorganise

Spec == Init /\ [][Next]_vars

(***************************************************************************)
(* Fairness.  The goroutine keeps taking steps (ticker and lock), a dead   *)
(* process is restarted (deploy/calendar: restart unless stopped), clocks  *)
(* advance, and miners keep mining what is in the mempool.  Nothing is     *)
(* assumed of submissions, and faults are finite by MaxFaults.             *)
(***************************************************************************)
MineMempool ==
  /\ \E n \in Neighbour : MineBlock(n, mempool, {})
  /\ NoFault
  /\ UNCHANGED <<durable, volatile>>

Fairness ==
  /\ WF_vars(StamperStep)
  /\ WF_vars(Recover)
  /\ WF_vars(IntervalElapses)
  /\ WF_vars(MineMempool)

FairSpec == Spec /\ Fairness

-----------------------------------------------------------------------------
(***************************************************************************)
(* No commitment is lost (Recover, ingestJournal, trackConfirmations and   *)
(* maybeSendTx together): while the process is up, every journal record    *)
(* the stamper's cursor is past is in the pool, or a leaf of a transaction *)
(* being tracked, or has its Bitcoin attestation in the store.             *)
(***************************************************************************)
NoCommitmentLost ==
  pc # "down" => \A i \in 1..cursor : IsPending(journal[i]) \/ isConfirmed(journal[i])

(***************************************************************************)
(* No commitment is waiting in two places, in the pool and in a tracked    *)
(* transaction or in two tracked transactions (the re-queueing of          *)
(* trackConfirmations and Recover against ingestJournal and the deletions  *)
(* of maybeSendTx): the stamper never pays twice for one it is following.  *)
(***************************************************************************)
NoDoubleTracking ==
  /\ \A t \in unconfirmed : opReturn[t] \cap pending = {}
  /\ \A t, u \in unconfirmed : t # u => opReturn[t] \cap opReturn[u] = {}

(***************************************************************************)
(* The inductive strengthening of NoCommitmentLost that StamperProofs      *)
(* uses: while finalize works on a transaction that transaction is still   *)
(* tracked, the leaves it has got past have their attestation, and between *)
(* the broadcast and its answer the pool is exactly what was broadcast.    *)
(***************************************************************************)
LossInv ==
  /\ TypeOK
  /\ NoCommitmentLost
  /\ pc \in {"build", "put"} => fin.tx \in unconfirmed \ todo
  /\ pc = "put" => /\ \E b \in tip[fin.tx] : b.att
                   /\ \A c \in opReturn[fin.tx] \ toPut : isConfirmed(c)
  /\ pc = "sent" => /\ sent > 0
                    /\ opReturn[sent] = pending

(***************************************************************************)
(* While no reorganisation was MinConf deep, every attestation handed      *)
(* out is true: the stored height holds, in the active chain, the block    *)
(* the proof was built against, that block contains the transaction, and   *)
(* the transaction's OP_RETURN commits to the commitment (finalize's       *)
(* height from BlockTxIDs against BlockHeader's root).                     *)
(***************************************************************************)
AnchoredOnChain ==
  deepest < MinConf => \A c \in Commitment : \A p \in proofs[c] :
    /\ p.height \in DOMAIN chain
    /\ chain[p.height].id = p.blk
    /\ p.tx \in chain[p.height].txs
    /\ c \in opReturn[p.tx]

(***************************************************************************)
(* An attestation is only ever created for the block that is active when   *)
(* its header is read, whatever was reorganised since TxStatus named the   *)
(* block and BlockTxIDs listed it: a branch grafted with an attestation    *)
(* leads to the block at that height, and the transaction is in it         *)
(* (MakeTimestampFromBlock's comparison with the header's merkle root).    *)
(***************************************************************************)
AttestedWhenActive ==
  [][\A t \in TxId : \A b \in tip'[t] \ tip[t] :
       b.att => /\ b.height \in DOMAIN chain
                /\ chain[b.height].id = b.blk
                /\ t \in chain[b.height].txs]_vars

(***************************************************************************)
(* The stamper, with Submit, crashes and restarts, implements the ledger   *)
(* of CalendarLedger.tla: it only ever broadcasts commitments the journal  *)
(* has, an attestation only reaches the proof of a commitment its          *)
(* transaction is over, and no attestation, receipt or record is ever      *)
(* taken back, neither by Submit's Put of the pending proof racing with    *)
(* finalize nor by anchoring again after a crash (BoltStore.Put merges).   *)
(***************************************************************************)
Ledger == INSTANCE CalendarLedger
            WITH recorded <- Range(journal), anchors <- opReturn, attested <- proofs

ImplementsLedger == Ledger!Spec

(***************************************************************************)
(* docs/COMPLIANCE.md: a submitted commitment's proof is upgraded once its *)
(* transaction is buried: whatever reached the journal eventually has a    *)
(* Bitcoin attestation in the store.                                       *)
(***************************************************************************)
EventuallyAnchored ==
  \A c \in Commitment : (c \in Range(journal)) ~> isConfirmed(c)
=============================================================================
