--------------------------- MODULE StamperProofs ---------------------------
(***************************************************************************)
(* Theorems about Stamper, for any set of commitments, any number of       *)
(* transactions and faults, any confirmation depth and pool size.          *)
(***************************************************************************)
EXTENDS Stamper, SequenceTheorems, TLAPS

(***************************************************************************)
(* The network keeps its types: a mined block and a replaced branch are    *)
(* sequences of blocks.                                                    *)
(***************************************************************************)
LEMMA MineTyped ==
  ASSUME NodeTypeOK, NEW n \in Neighbour, NEW inc, NEW kill, MineBlock(n, inc, kill)
  PROVE  NodeTypeOK' /\ sent' = sent /\ opReturn' = opReturn
<1>1. mempool \subseteq TxId
  BY NodeAssumption DEF NodeTypeOK, mempool, TxId
<1>2. inc \in SUBSET TxId /\ kill \in SUBSET TxId
  BY <1>1 DEF MineBlock
<1>3. NewBlock(minted + 1, n, inc, kill) \in Block
  BY <1>2 DEF NodeTypeOK, NewBlock, Block
<1>4. chain' \in Seq(Block)
  BY <1>3, AppendProperties DEF NodeTypeOK, MineBlock
<1> QED BY <1>4 DEF NodeTypeOK, MineBlock

LEMMA ReorgTyped ==
  ASSUME NodeTypeOK, NEW d, NEW n \in Neighbour, NEW inc, Reorg(d, n, inc)
  PROVE  NodeTypeOK' /\ sent' = sent /\ opReturn' = opReturn
<1> DEFINE base == SubSeq(chain, 1, Len(chain) - d)
           new  == [k \in 1..(d + 1) |->
                      NewBlock(minted + k, n, IF k = 1 THEN inc ELSE {}, {})]
<1>1. d \in Nat /\ d <= Len(chain) /\ d + 1 \in Nat
  BY NodeAssumption DEF Reorg
<1>2. inc \subseteq TxId
  BY NodeAssumption DEF Reorg, NodeTypeOK, TxId
<1>3. \A i \in 1..(Len(chain) - d) : chain[i] \in Block
  BY <1>1, ElementOfSeq, LenProperties DEF NodeTypeOK
<1>4. base \in Seq(Block)
  BY <1>1, <1>3, SubSeqProperties, LenProperties DEF NodeTypeOK
<1>5. \A k \in 1..(d + 1) :
        NewBlock(minted + k, n, IF k = 1 THEN inc ELSE {}, {}) \in Block
  BY <1>1, <1>2 DEF NewBlock, Block, NodeTypeOK
<1>6. new \in Seq(Block)
  BY <1>1, <1>5, IsASeq
<1>7. chain' = base \o new
  BY DEF Reorg
<1>8. chain' \in Seq(Block)
  BY <1>4, <1>6, <1>7, ConcatProperties
<1> QED BY <1>1, <1>8 DEF NodeTypeOK, Reorg

LEMMA NetworkTyped ==
  ASSUME NodeTypeOK, Mine \/ Reorganise
  PROVE  NodeTypeOK' /\ sent' = sent /\ opReturn' = opReturn
<1>1. CASE Mine
  BY <1>1, MineTyped DEF Mine
<1>2. CASE Reorganise
  BY <1>2, ReorgTyped DEF Reorganise
<1> QED BY <1>1, <1>2

-----------------------------------------------------------------------------
(***************************************************************************)
(* LossInv is inductive.  One lemma for each action, or group of actions   *)
(* that change the same variables.                                         *)
(***************************************************************************)
LEMMA LossInit == Init => LossInv
<1> SUFFICES ASSUME Init PROVE LossInv
  OBVIOUS
<1>1. NodeTypeOK
  BY NodeAssumption, EmptySeq DEF Init, NodeInit, NodeTypeOK
<1>2. journal \in Seq(Commitment) /\ cursor \in 0..Len(journal)
  BY EmptySeq DEF Init
<1>3. /\ proofs \in [Commitment -> SUBSET Attestation]
      /\ tip \in [TxId -> SUBSET Branch]
      /\ fin \in Fin
      /\ pc \in PC
  BY DEF Init, Fin, PC
<1>4. TypeOK
  BY <1>1, <1>2, <1>3 DEF Init, TypeOK
<1> QED BY <1>4 DEF Init, LossInv, NoCommitmentLost

LEMMA LossSubmitJournal ==
  ASSUME LossInv, NEW c \in Commitment, SubmitJournal(c)
  PROVE  LossInv'
<1>1. /\ journal \in Seq(Commitment)
      /\ cursor \in 0..Len(journal)
  BY DEF LossInv, TypeOK
<1>2. /\ journal' \in Seq(Commitment)
      /\ Len(journal') = Len(journal) + 1
      /\ \A i \in 1..Len(journal) : journal'[i] = journal[i]
  BY <1>1, AppendProperties DEF SubmitJournal
<1>3. TypeOK'
  BY <1>1, <1>2 DEF LossInv, TypeOK, SubmitJournal, nodeVars, NodeTypeOK
<1>4. NoCommitmentLost'
  BY <1>1, <1>2, LenProperties
     DEF LossInv, NoCommitmentLost, SubmitJournal, IsPending, isConfirmed, nodeVars
<1> QED BY <1>3, <1>4 DEF LossInv, SubmitJournal, isConfirmed, nodeVars

LEMMA LossSubmitPut ==
  ASSUME LossInv, NEW c \in Commitment, SubmitPut(c)
  PROVE  LossInv'
<1>1. proofs' = proofs
  BY DEF SubmitPut, Merge, LossInv, TypeOK
<1>2. /\ faults' \in Nat
      /\ receipts' \subseteq Commitment
      /\ submitting' \subseteq Commitment
  BY DEF SubmitPut, LossInv, TypeOK, Fault, Faults, NoFault
<1>3. TypeOK'
  BY <1>1, <1>2 DEF LossInv, TypeOK, SubmitPut, nodeVars, NodeTypeOK
<1>4. NoCommitmentLost'
  BY <1>1 DEF LossInv, NoCommitmentLost, SubmitPut, IsPending, isConfirmed, nodeVars
<1> QED BY <1>1, <1>3, <1>4 DEF LossInv, SubmitPut, isConfirmed, nodeVars

LEMMA LossTick ==
  ASSUME LossInv, Tick
  PROVE  LossInv'
<1>1. PICK n \in cursor..Len(journal) :
        /\ pending' = pending \cup Ingested(n)
        /\ cursor' = n
        /\ faults' \in Nat
  BY DEF Tick, LossInv, TypeOK, Fault, Faults, NoFault
<1>2. /\ cursor \in Nat
      /\ journal \in Seq(Commitment)
      /\ Len(journal) \in Nat
      /\ n \in 0..Len(journal)
  BY LenProperties DEF LossInv, TypeOK
<1>3. \A i \in 1..Len(journal) : journal[i] \in Commitment
  BY <1>2, ElementOfSeq
<1>4. pending' \subseteq Commitment
  BY <1>1, <1>2, <1>3 DEF LossInv, TypeOK, Ingested
<1>5. TypeOK'
  BY <1>1, <1>2, <1>4 DEF LossInv, TypeOK, Tick, PC, nodeVars, durable, NodeTypeOK
<1>6. NoCommitmentLost'
  <2> SUFFICES ASSUME NEW i \in 1..n
               PROVE  IsPending(journal[i])' \/ isConfirmed(journal[i])'
    BY <1>1 DEF NoCommitmentLost, Tick, durable
  <2>1. CASE i <= cursor
    BY <2>1, <1>1, <1>2 DEF LossInv, NoCommitmentLost, Tick, IsPending, isConfirmed,
                       nodeVars, durable
  <2>2. CASE i > cursor
    BY <2>2, <1>1, <1>2 DEF Ingested, IsPending, Tick, durable
  <2> QED BY <2>1, <2>2, <1>2
<1> QED BY <1>5, <1>6 DEF LossInv, Tick

\* Only broadcast transactions are tracked.
LEMMA TrackedTxId == TypeOK => unconfirmed \subseteq TxId
BY NodeAssumption DEF TypeOK, NodeTypeOK, TxId

\* The block a confirmed transaction is finalized against is a real one.
LEMMA HeightOfBlock ==
  ASSUME NodeTypeOK, NEW t, HeightsOf(t) # {}
  PROVE  /\ HeightOf(t) \in 1..Len(chain)
         /\ chain[HeightOf(t)] \in Block
         /\ t \in chain[HeightOf(t)].txs
<1>1. HeightOf(t) \in HeightsOf(t)
  BY DEF HeightOf
<1>2. DOMAIN chain = 1..Len(chain)
  BY LenProperties DEF NodeTypeOK
<1> QED BY <1>1, <1>2, ElementOfSeq DEF HeightsOf, NodeTypeOK

LEMMA LossTrackTx ==
  ASSUME LossInv, NEW t \in TxId, TrackTx(t)
  PROVE  LossInv'
<1>1. TypeOK /\ NodeTypeOK /\ t \in unconfirmed /\ pc = "track"
  BY DEF LossInv, TypeOK, TrackTx, IsNext
<1>2. /\ nodeVars' = nodeVars /\ durable' = durable
      /\ cursor' = cursor /\ toPut' = toPut /\ todo' = todo \ {t}
      /\ submitting' = submitting /\ lastTxTime' = lastTxTime
  BY DEF TrackTx
<1>3. CASE KeepTx(t)
  <2>1. faults' \in Nat
    BY <1>1, <1>3 DEF KeepTx, Fault, Faults, NoFault, TypeOK
  <2>2. TypeOK'
    BY <1>1, <1>2, <1>3, <2>1 DEF KeepTx, TypeOK, nodeVars, durable, NodeTypeOK
  <2>3. NoCommitmentLost'
    BY <1>2, <1>3 DEF KeepTx, LossInv, NoCommitmentLost, IsPending, isConfirmed,
                      nodeVars, durable
  <2> QED BY <1>1, <1>3, <2>2, <2>3 DEF KeepTx, LossInv
<1>4. CASE ConflictTx(t)
  <2>1. opReturn[t] \subseteq Commitment
    BY <1>1 DEF NodeTypeOK
  <2>2. TypeOK'
    <3>1. tip' \in [TxId -> SUBSET Branch]
      BY <1>1, <1>4 DEF ConflictTx, TypeOK
    <3>2. pending' \subseteq Commitment
      BY <1>1, <1>4, <2>1 DEF ConflictTx, TypeOK
    <3>3. todo' \subseteq unconfirmed' /\ unconfirmed' \subseteq 1..sent
      BY <1>1, <1>2, <1>4 DEF ConflictTx, TypeOK
    <3> QED BY <1>1, <1>2, <1>4, <3>1, <3>2, <3>3
            DEF ConflictTx, NoFault, TypeOK, nodeVars, durable, NodeTypeOK
  <2>3. NoCommitmentLost'
    BY <1>2, <1>4 DEF ConflictTx, LossInv, NoCommitmentLost, IsPending,
                      isConfirmed, nodeVars, durable
  <2> QED BY <1>1, <1>4, <2>2, <2>3 DEF ConflictTx, LossInv
<1>5. CASE ConfirmTx(t)
  <2>1. /\ HeightOf(t) \in Nat
        /\ chain[HeightOf(t)] \in Block
    BY <1>1, <1>5, HeightOfBlock DEF ConfirmTx
  <2>2. fin' \in Fin /\ fin'.tx = t
    BY <2>1, <1>5 DEF ConfirmTx, Finalize, Fin, Block
  <2>3. TypeOK'
    BY <1>1, <1>2, <1>5, <2>2
       DEF ConfirmTx, Finalize, NoFault, TypeOK, PC, nodeVars, durable, NodeTypeOK
  <2>4. NoCommitmentLost'
    BY <1>1, <1>2, <1>5
       DEF ConfirmTx, Finalize, LossInv, NoCommitmentLost, IsPending, isConfirmed,
           nodeVars, durable
  <2> QED BY <1>1, <1>2, <1>5, <2>2, <2>3, <2>4 DEF ConfirmTx, Finalize, LossInv
<1> QED BY <1>3, <1>4, <1>5 DEF TrackTx

LEMMA LossFinalizeBuild ==
  ASSUME LossInv, FinalizeBuild
  PROVE  LossInv'
<1>1. /\ TypeOK /\ NodeTypeOK /\ pc = "build" /\ fin.tx \in unconfirmed \ todo
      /\ fin.tx \in TxId
  BY TrackedTxId DEF LossInv, TypeOK, FinalizeBuild
<1>2. fin \in [tx: TxId, blk: Nat, height: Nat, nbr: Neighbour]
  BY <1>1 DEF TypeOK, Fin, NoFin, TxId
<1>3. \A a \in BOOLEAN : Grafted(a) \in SUBSET Branch
  BY <1>1, <1>2 DEF Grafted, Branch, TypeOK
<1>4. /\ nodeVars' = nodeVars /\ durable' = durable /\ submitting' = submitting
      /\ pending' = pending /\ unconfirmed' = unconfirmed /\ cursor' = cursor
      /\ lastTxTime' = lastTxTime /\ todo' = todo
  BY DEF FinalizeBuild
<1>5. /\ pc' \in {"track", "put"}
      /\ faults' \in Nat
      /\ tip' \in [TxId -> SUBSET Branch]
      /\ fin' \in Fin
      /\ toPut' \subseteq Commitment
  <2>1. CASE Fault("rpc") /\ GiveUp /\ UNCHANGED tip
    BY <1>1, <2>1 DEF Fault, Faults, GiveUp, TypeOK, Fin
  <2>2. CASE NoFault /\ GiveUp /\ UNCHANGED tip
    BY <1>1, <2>2 DEF NoFault, GiveUp, TypeOK, Fin
  <2>3. CASE NoFault /\ GiveUp /\ tip' = [tip EXCEPT ![fin.tx] = Grafted(FALSE)]
    BY <1>1, <1>3, <2>3 DEF NoFault, GiveUp, TypeOK, Fin
  <2>4. CASE /\ NoFault /\ tip' = [tip EXCEPT ![fin.tx] = Grafted(TRUE)]
             /\ toPut' = opReturn[fin.tx] /\ pc' = "put" /\ UNCHANGED fin
    BY <1>1, <1>3, <2>4 DEF NoFault, TypeOK, NodeTypeOK
  <2> QED BY <2>1, <2>2, <2>3, <2>4 DEF FinalizeBuild
<1>6. TypeOK'
  BY <1>1, <1>4, <1>5 DEF TypeOK, PC, nodeVars, durable, NodeTypeOK
<1>7. NoCommitmentLost'
  BY <1>1, <1>4, <1>5 DEF LossInv, NoCommitmentLost, IsPending, isConfirmed,
                          nodeVars, durable
<1>8. pc' = "put" => /\ fin' = fin
                     /\ toPut' = opReturn[fin.tx]
                     /\ tip' = [tip EXCEPT ![fin.tx] = Grafted(TRUE)]
  BY DEF FinalizeBuild, GiveUp
<1>9. pc' = "put" => \E b \in tip'[fin'.tx] : b.att
  <2> SUFFICES ASSUME pc' = "put" PROVE \E b \in tip'[fin.tx] : b.att
    BY <1>8
  <2>1. tip'[fin.tx] = Grafted(TRUE)
    BY <1>1, <1>8 DEF TypeOK
  <2> DEFINE b == [nbr |-> fin.nbr, blk |-> fin.blk, height |-> fin.height,
                   att |-> TRUE]
  <2>2. b \in tip'[fin.tx] /\ b.att
    BY <2>1 DEF Grafted
  <2> QED BY <2>2
<1> QED BY <1>1, <1>4, <1>5, <1>6, <1>7, <1>8, <1>9 DEF LossInv, nodeVars

LEMMA LossFinalizePut ==
  ASSUME LossInv, NEW c \in Commitment, FinalizePut(c)
  PROVE  LossInv'
<1>1. /\ TypeOK /\ NodeTypeOK /\ pc = "put" /\ fin.tx \in unconfirmed \ todo
      /\ fin.tx \in TxId
      /\ \E b \in tip[fin.tx] : b.att
      /\ \A x \in opReturn[fin.tx] \ toPut : isConfirmed(x)
  BY TrackedTxId DEF LossInv, TypeOK, FinalizePut
<1>2. /\ nodeVars' = nodeVars /\ journal' = journal /\ receipts' = receipts
      /\ submitting' = submitting /\ pending' = pending /\ tip' = tip
      /\ unconfirmed' = unconfirmed /\ cursor' = cursor /\ todo' = todo
      /\ lastTxTime' = lastTxTime
  BY DEF FinalizePut
<1>3. CASE /\ proofs' = [proofs EXCEPT ![c] = Merge(@, AttestationsOf(fin.tx))]
           /\ NoFault /\ toPut' = toPut \ {c} /\ UNCHANGED <<pc, fin>>
  <2>1. AttestationsOf(fin.tx) \in SUBSET Attestation
    BY <1>1 DEF AttestationsOf, Attestation, TypeOK, Branch
  <2>2. AttestationsOf(fin.tx) # {}
    BY <1>1 DEF AttestationsOf
  <2>3. /\ proofs' \in [Commitment -> SUBSET Attestation]
        /\ proofs'[c] # {}
        /\ \A x \in Commitment : proofs[x] \subseteq proofs'[x]
    BY <1>1, <1>3, <2>1, <2>2 DEF Merge, TypeOK
  <2>4. TypeOK'
    BY <1>1, <1>2, <1>3, <2>3 DEF TypeOK, NoFault, nodeVars, NodeTypeOK
  <2>5. NoCommitmentLost'
    <3>1. \A i \in 1..cursor : journal[i] \in Commitment
      BY <1>1, ElementOfSeq, LenProperties DEF TypeOK
    <3> QED BY <1>1, <1>2, <2>3, <3>1
            DEF LossInv, NoCommitmentLost, IsPending, isConfirmed, nodeVars
  <2>6. \A x \in opReturn[fin.tx] \ toPut' : proofs'[x] # {}
    <3>1. opReturn[fin.tx] \subseteq Commitment
      BY <1>1 DEF NodeTypeOK
    <3> QED BY <1>1, <1>3, <2>3, <3>1 DEF isConfirmed
  <2> QED BY <1>1, <1>2, <1>3, <2>4, <2>5, <2>6 DEF LossInv, isConfirmed, nodeVars
<1>4. CASE /\ proofs' = proofs /\ GiveUp /\ faults' \in Nat
  <2>1. TypeOK'
    BY <1>1, <1>2, <1>4 DEF GiveUp, TypeOK, PC, Fin, nodeVars, NodeTypeOK
  <2>2. NoCommitmentLost'
    BY <1>1, <1>2, <1>4 DEF GiveUp, LossInv, NoCommitmentLost, IsPending,
                            isConfirmed, nodeVars
  <2> QED BY <2>1, <2>2, <1>4 DEF GiveUp, LossInv
<1> QED BY <1>1, <1>3, <1>4 DEF FinalizePut, Fault, Faults, NoFault, TypeOK

LEMMA LossFinalizeDone ==
  ASSUME LossInv, FinalizeDone
  PROVE  LossInv'
<1>1. /\ TypeOK /\ NodeTypeOK /\ pc = "put" /\ fin.tx \in unconfirmed \ todo
      /\ \A x \in opReturn[fin.tx] : isConfirmed(x)
  BY DEF LossInv, TypeOK, FinalizeDone
<1>2. /\ nodeVars' = nodeVars /\ durable' = durable /\ pending' = pending
      /\ cursor' = cursor /\ todo' = todo
      /\ unconfirmed' = unconfirmed \ {fin.tx}
      /\ pc' = "track"
  BY DEF FinalizeDone
<1>3. todo' \subseteq unconfirmed'
  BY <1>1, <1>2 DEF TypeOK
<1>4. tip' \in [TxId -> SUBSET Branch]
  BY <1>1 DEF FinalizeDone, TypeOK
<1>5. TypeOK'
  BY <1>1, <1>2, <1>3, <1>4
     DEF FinalizeDone, TypeOK, PC, Fin, nodeVars, durable, NodeTypeOK
<1>6. NoCommitmentLost'
  BY <1>1, <1>2 DEF LossInv, NoCommitmentLost, IsPending, isConfirmed, nodeVars,
                    durable
<1> QED BY <1>2, <1>5, <1>6 DEF LossInv

LEMMA LossSendOpReturn ==
  ASSUME LossInv, SendOpReturn
  PROVE  LossInv'
<1>1. /\ TypeOK /\ NodeTypeOK /\ sent \in Nat /\ sent < MaxTxs
      /\ sent' = sent + 1
      /\ opReturn' = [opReturn EXCEPT ![sent + 1] = pending]
      /\ chain' = chain /\ minted' = minted /\ deepest' = deepest
      /\ pc = "send" /\ pc' = "sent" /\ durable' = durable
      /\ pending' = pending /\ unconfirmed' = unconfirmed /\ cursor' = cursor
  BY DEF LossInv, TypeOK, NodeTypeOK, SendOpReturn, Broadcast
<1>2. sent + 1 \in TxId /\ sent + 1 \in 0..MaxTxs
  BY <1>1, NodeAssumption DEF TxId
<1>3. /\ opReturn' \in [TxId -> SUBSET Commitment]
      /\ opReturn'[sent + 1] = pending
      /\ \A t \in TxId \ {sent + 1} : opReturn'[t] = opReturn[t]
  BY <1>1, <1>2 DEF TypeOK, NodeTypeOK
<1>4. unconfirmed \subseteq TxId \ {sent + 1} /\ unconfirmed \subseteq 1..sent'
  BY <1>1, TrackedTxId DEF TypeOK
<1>5. NodeTypeOK'
  BY <1>1, <1>2, <1>3 DEF NodeTypeOK
<1>6. TypeOK'
  BY <1>1, <1>4, <1>5 DEF TypeOK, SendOpReturn, PC, durable
<1>7. NoCommitmentLost'
  BY <1>1, <1>3, <1>4 DEF LossInv, NoCommitmentLost, IsPending, isConfirmed, durable
<1> QED BY <1>1, <1>3, <1>6, <1>7 DEF LossInv

LEMMA LossSendReply ==
  ASSUME LossInv, SendReply
  PROVE  LossInv'
<1>1. /\ TypeOK /\ NodeTypeOK /\ pc = "sent" /\ pc' = "idle"
      /\ sent \in 1..sent /\ opReturn[sent] = pending
      /\ nodeVars' = nodeVars /\ durable' = durable /\ cursor' = cursor
      /\ todo' = todo
  BY DEF LossInv, TypeOK, NodeTypeOK, SendReply
<1>2. /\ unconfirmed' \subseteq 1..sent
      /\ unconfirmed \subseteq unconfirmed'
      /\ pending' \subseteq Commitment
      /\ lastTxTime' \in {"past", "recent"}
      /\ faults' \in Nat
      /\ pending' = pending \/ sent \in unconfirmed'
  <2>1. CASE /\ NoFault /\ unconfirmed' = unconfirmed \cup {sent}
             /\ pending' = pending \ opReturn[sent] /\ lastTxTime' = "recent"
    BY <1>1, <2>1 DEF TypeOK, NoFault
  <2>2. CASE Fault("reply") /\ UNCHANGED <<unconfirmed, pending, lastTxTime>>
    BY <1>1, <2>2 DEF TypeOK, Fault, Faults
  <2> QED BY <2>1, <2>2 DEF SendReply
<1>3. TypeOK'
  BY <1>1, <1>2 DEF TypeOK, SendReply, PC, nodeVars, durable, NodeTypeOK
<1>4. NoCommitmentLost'
  BY <1>1, <1>2 DEF LossInv, NoCommitmentLost, IsPending, isConfirmed, nodeVars,
                    durable
<1> QED BY <1>1, <1>3, <1>4 DEF LossInv

\* Steps that only move the goroutine on, or the clock.
LEMMA LossControl ==
  ASSUME LossInv, TrackDone \/ SkipSend \/ IntervalElapses
  PROVE  LossInv'
<1>1. /\ nodeVars' = nodeVars /\ durable' = durable /\ pending' = pending
      /\ unconfirmed' = unconfirmed /\ cursor' = cursor /\ tip' = tip
      /\ todo' = todo /\ fin' = fin /\ toPut' = toPut /\ submitting' = submitting
      /\ pc' = pc \/ (pc # "down" /\ pc' \in {"send", "idle"})
      /\ lastTxTime' \in {lastTxTime, "past"}
  BY DEF TrackDone, SkipSend, IntervalElapses
<1>2. faults' \in Nat
  BY DEF TrackDone, SkipSend, IntervalElapses, Fault, Faults, NoFault, OutOfFunds, LossInv,
         TypeOK
<1>3. TypeOK'
  BY <1>1, <1>2 DEF LossInv, TypeOK, PC, nodeVars, durable, NodeTypeOK
<1>4. NoCommitmentLost'
  BY <1>1 DEF LossInv, NoCommitmentLost, IsPending, isConfirmed, nodeVars, durable
<1> QED BY <1>1, <1>3, <1>4 DEF LossInv, isConfirmed, nodeVars, durable

LEMMA LossCrash ==
  ASSUME LossInv, Crash
  PROVE  LossInv'
<1>1. tip' \in [TxId -> SUBSET Branch] /\ fin' \in Fin /\ faults' \in Nat
  BY DEF Crash, Fault, Faults, Fin, LossInv, TypeOK
<1>2. Len(journal) \in Nat
  BY LenProperties DEF LossInv, TypeOK
<1>3. TypeOK'
  BY <1>1, <1>2 DEF Crash, LossInv, TypeOK, PC, nodeVars, durable, NodeTypeOK
<1> QED BY <1>3 DEF Crash, LossInv, NoCommitmentLost

LEMMA LossRecover ==
  ASSUME LossInv, Recover
  PROVE  LossInv'
<1>1. /\ pending' = Unanchored /\ cursor' = Len(journal) /\ pc' = "idle"
      /\ nodeVars' = nodeVars /\ durable' = durable
  BY DEF Recover, RecoverWith
<1>2. /\ Len(journal) \in Nat
      /\ \A i \in 1..Len(journal) : journal[i] \in Commitment
      /\ Range(journal) = {journal[i] : i \in 1..Len(journal)}
  BY LenProperties, ElementOfSeq DEF LossInv, TypeOK, Range
<1>3. Unanchored \subseteq Commitment
  BY <1>2 DEF Unanchored
<1>4. TypeOK'
  BY <1>1, <1>2, <1>3
     DEF Recover, RecoverWith, LossInv, TypeOK, PC, nodeVars, durable, NodeTypeOK
<1>5. NoCommitmentLost'
  BY <1>1, <1>2 DEF NoCommitmentLost, Unanchored, IsPending, isConfirmed, durable
<1> QED BY <1>1, <1>4, <1>5 DEF LossInv

LEMMA LossNetwork ==
  ASSUME LossInv, Mine \/ Reorganise
  PROVE  LossInv'
<1>1. NodeTypeOK' /\ sent' = sent /\ opReturn' = opReturn
  BY NetworkTyped DEF LossInv, TypeOK
<1>2. durable' = durable /\ volatile' = volatile
  BY DEF Mine, Reorganise
<1>3. faults' \in Nat
  BY DEF Mine, Reorganise, Fault, Faults, NoFault, LossInv, TypeOK
<1>4. TypeOK'
  BY <1>1, <1>2, <1>3 DEF LossInv, TypeOK, durable, volatile
<1>5. NoCommitmentLost'
  BY <1>1, <1>2 DEF LossInv, NoCommitmentLost, IsPending, isConfirmed, durable,
                    volatile
<1> QED BY <1>1, <1>2, <1>4, <1>5 DEF LossInv, isConfirmed, durable, volatile

LEMMA LossStutter ==
  ASSUME LossInv, UNCHANGED vars
  PROVE  LossInv'
BY DEF vars, nodeVars, durable, volatile, LossInv, TypeOK, NodeTypeOK,
       NoCommitmentLost, IsPending, isConfirmed

LEMMA LossStep == LossInv /\ [Next]_vars => LossInv'
<1> SUFFICES ASSUME LossInv, [Next]_vars PROVE LossInv'
  OBVIOUS
<1>1. CASE \E c \in Commitment : SubmitJournal(c) \/ SubmitPut(c)
  BY <1>1, LossSubmitJournal, LossSubmitPut
<1>2. CASE StamperStep
  BY <1>2, LossTick, LossTrackTx, LossControl, LossFinalizeBuild, LossFinalizePut,
     LossFinalizeDone, LossSendOpReturn, LossSendReply DEF StamperStep
<1>3. CASE Crash
  BY <1>3, LossCrash
<1>4. CASE Recover
  BY <1>4, LossRecover
<1>5. CASE IntervalElapses
  BY <1>5, LossControl
<1>6. CASE Mine \/ Reorganise
  BY <1>6, LossNetwork
<1>7. CASE UNCHANGED vars
  BY <1>7, LossStutter
<1> QED BY <1>1, <1>2, <1>3, <1>4, <1>5, <1>6, <1>7 DEF Next

(***************************************************************************)
(* Spec never leaves LossInv, hence the stamper's variables keep their     *)
(* types and no commitment the stamper has taken from the journal is ever  *)
(* lost: through ingestion with a full pool or a failed read, tracking     *)
(* errors, conflicts, reorganisations of any depth, half-finished writes,  *)
(* lost answers, crashes and recoveries.                                   *)
(***************************************************************************)
THEOREM LossInvariant == Spec => []LossInv
BY LossInit, LossStep, PTL DEF Spec

\* The variables of stamper.go keep their types.
THEOREM TypeCorrect == Spec => []TypeOK
<1>1. LossInv => TypeOK
  BY DEF LossInv
<1> QED BY <1>1, LossInvariant, PTL

\* Every ingested journal record is queued, tracked, or anchored in the store.
THEOREM NothingLost == Spec => []NoCommitmentLost
<1>1. LossInv => NoCommitmentLost
  BY DEF LossInv
<1> QED BY <1>1, LossInvariant, PTL

-----------------------------------------------------------------------------
(***************************************************************************)
(* NoDoubleTracking is not inductive by itself: ingestJournal could bring  *)
(* a commitment back that is tracked already.  It cannot, because the      *)
(* journal has every commitment once and what is queued or tracked has     *)
(* been ingested; and Recover starts with nothing tracked.                 *)
(***************************************************************************)
TrackInv ==
  /\ NoDoubleTracking
  /\ \A i, j \in 1..Len(journal) : journal[i] = journal[j] => i = j
  /\ \A c \in Commitment : IsPending(c) => \E i \in 1..cursor : journal[i] = c
  /\ pc = "down" => unconfirmed = {}

LEMMA TrackInit == Init => TrackInv
BY EmptySeq DEF Init, TrackInv, NoDoubleTracking, IsPending

LEMMA TrackSubmitJournal ==
  ASSUME LossInv, TrackInv, NEW c \in Commitment, SubmitJournal(c)
  PROVE  TrackInv'
<1>1. /\ journal \in Seq(Commitment)
      /\ Len(journal) \in Nat
      /\ cursor \in 0..Len(journal)
      /\ Range(journal) = {journal[i] : i \in 1..Len(journal)}
  BY LenProperties DEF LossInv, TypeOK, Range
<1>2. /\ Len(journal') = Len(journal) + 1
      /\ \A i \in 1..Len(journal) : journal'[i] = journal[i]
      /\ journal'[Len(journal) + 1] = c
  BY <1>1, AppendProperties DEF SubmitJournal
<1>3. \A i \in 1..Len(journal) : journal[i] # c
  BY <1>1 DEF SubmitJournal
<1>4. \A i, j \in 1..Len(journal') : journal'[i] = journal'[j] => i = j
  <2> TAKE i, j \in 1..Len(journal')
  <2>1. (i \in 1..Len(journal) \/ i = Len(journal) + 1)
        /\ (j \in 1..Len(journal) \/ j = Len(journal) + 1)
    BY <1>1, <1>2
  <2>2. \A k, l \in 1..Len(journal) : journal[k] = journal[l] => k = l
    BY DEF TrackInv
  <2> QED BY <2>1, <2>2, <1>2, <1>3
<1>5. /\ pending' = pending /\ unconfirmed' = unconfirmed /\ opReturn' = opReturn
      /\ cursor' = cursor /\ pc' = pc
  BY DEF SubmitJournal, nodeVars
<1>6. \A x \in Commitment : IsPending(x)' => \E i \in 1..cursor : journal'[i] = x
  BY <1>1, <1>2, <1>5 DEF TrackInv, IsPending
<1> QED BY <1>4, <1>5, <1>6 DEF TrackInv, NoDoubleTracking

LEMMA TrackTick ==
  ASSUME LossInv, TrackInv, Tick
  PROVE  TrackInv'
<1>1. PICK n \in cursor..Len(journal) :
        /\ pending' = pending \cup Ingested(n)
        /\ cursor' = n
  BY DEF Tick
<1>2. /\ journal \in Seq(Commitment)
      /\ Len(journal) \in Nat /\ cursor \in Nat /\ n \in Nat
      /\ opReturn \in [TxId -> SUBSET Commitment]
      /\ unconfirmed \subseteq TxId
  BY LenProperties, TrackedTxId DEF LossInv, TypeOK, NodeTypeOK
<1>3. /\ unconfirmed' = unconfirmed /\ opReturn' = opReturn /\ journal' = journal
      /\ pc' = "track"
  BY DEF Tick, nodeVars, durable
\* What is ingested now was not ingested before.
<1>4. \A t \in unconfirmed : opReturn[t] \cap Ingested(n) = {}
  <2> SUFFICES ASSUME NEW t \in unconfirmed, NEW k \in (cursor + 1)..n,
                      journal[k] \in opReturn[t]
               PROVE  FALSE
    BY DEF Ingested
  <2>1. journal[k] \in Commitment /\ IsPending(journal[k])
    BY <1>2 DEF IsPending
  <2>2. PICK i \in 1..cursor : journal[i] = journal[k]
    BY <2>1 DEF TrackInv
  <2>3. i \in 1..Len(journal) /\ k \in 1..Len(journal) /\ i # k
    BY <1>2
  <2> QED BY <2>2, <2>3 DEF TrackInv
<1>5. NoDoubleTracking'
  BY <1>1, <1>3, <1>4 DEF TrackInv, NoDoubleTracking
<1>6. \A c \in Commitment : IsPending(c)' => \E i \in 1..n : journal[i] = c
  <2> SUFFICES ASSUME NEW c \in Commitment, IsPending(c)'
               PROVE  \E i \in 1..n : journal[i] = c
    OBVIOUS
  <2>1. CASE IsPending(c)
    BY <2>1, <1>2 DEF TrackInv
  <2>2. CASE c \in Ingested(n)
    BY <2>2, <1>2 DEF Ingested
  <2> QED BY <2>1, <2>2, <1>1, <1>3 DEF IsPending
<1> QED BY <1>1, <1>3, <1>5, <1>6 DEF TrackInv

LEMMA TrackTrackTx ==
  ASSUME LossInv, TrackInv, NEW t \in TxId, TrackTx(t)
  PROVE  TrackInv'
<1>1. /\ t \in unconfirmed /\ pc = "track"
      /\ opReturn' = opReturn /\ journal' = journal /\ cursor' = cursor
  BY DEF LossInv, TypeOK, TrackTx, IsNext, nodeVars, durable
<1>2. CASE ConflictTx(t)
  <2>1. pending' = pending \cup opReturn[t] /\ unconfirmed' = unconfirmed \ {t}
        /\ pc' = pc
    BY <1>2 DEF ConflictTx
  <2>2. NoDoubleTracking'
    BY <1>1, <2>1 DEF TrackInv, NoDoubleTracking
  <2>3. \A c \in Commitment : IsPending(c)' => IsPending(c)
    BY <1>1, <2>1 DEF IsPending
  <2> QED BY <1>1, <2>1, <2>2, <2>3 DEF TrackInv
<1>3. CASE KeepTx(t) \/ ConfirmTx(t)
  <2>1. pending' = pending /\ unconfirmed' = unconfirmed /\ pc' \in {pc, "build"}
    BY <1>3 DEF KeepTx, ConfirmTx, Finalize
  <2> QED BY <1>1, <2>1 DEF TrackInv, NoDoubleTracking, IsPending
<1> QED BY <1>2, <1>3 DEF TrackTx

LEMMA TrackFinalizeDone ==
  ASSUME LossInv, TrackInv, FinalizeDone
  PROVE  TrackInv'
<1>1. /\ opReturn' = opReturn /\ journal' = journal /\ cursor' = cursor
      /\ pending' = pending /\ unconfirmed' = unconfirmed \ {fin.tx}
      /\ pc' = "track"
  BY DEF FinalizeDone, nodeVars, durable
<1>2. \A c \in Commitment : IsPending(c)' => IsPending(c)
  BY <1>1 DEF IsPending
<1> QED BY <1>1, <1>2 DEF TrackInv, NoDoubleTracking

LEMMA TrackSendOpReturn ==
  ASSUME LossInv, TrackInv, SendOpReturn
  PROVE  TrackInv'
<1>1. /\ sent \in Nat
      /\ opReturn \in [TxId -> SUBSET Commitment]
      /\ opReturn' = [opReturn EXCEPT ![sent + 1] = pending]
      /\ journal' = journal /\ cursor' = cursor /\ pending' = pending
      /\ unconfirmed' = unconfirmed /\ pc' = "sent"
  BY DEF LossInv, TypeOK, NodeTypeOK, SendOpReturn, Broadcast, durable
<1>2. unconfirmed \subseteq TxId /\ sent + 1 \notin unconfirmed
  BY <1>1, TrackedTxId DEF LossInv, TypeOK
<1>3. \A t \in unconfirmed : opReturn'[t] = opReturn[t]
  BY <1>1, <1>2
<1> QED BY <1>1, <1>3 DEF TrackInv, NoDoubleTracking, IsPending

LEMMA TrackSendReply ==
  ASSUME LossInv, TrackInv, SendReply
  PROVE  TrackInv'
<1>1. /\ opReturn[sent] = pending
      /\ opReturn' = opReturn /\ sent' = sent /\ journal' = journal
      /\ cursor' = cursor /\ pc' = "idle"
  BY DEF LossInv, SendReply, nodeVars, durable
<1>2. CASE unconfirmed' = unconfirmed \cup {sent} /\ pending' = pending \ opReturn[sent]
  <2>1. pending' = {}
    BY <1>1, <1>2
  <2>2. NoDoubleTracking'
    BY <1>1, <1>2, <2>1 DEF TrackInv, NoDoubleTracking
  <2>3. \A c \in Commitment : IsPending(c)' => IsPending(c)
    BY <1>1, <1>2, <2>1 DEF IsPending
  <2> QED BY <1>1, <2>2, <2>3 DEF TrackInv
<1>3. CASE unconfirmed' = unconfirmed /\ pending' = pending
  BY <1>1, <1>3 DEF TrackInv, NoDoubleTracking, IsPending
<1> QED BY <1>2, <1>3 DEF SendReply

LEMMA TrackCrash ==
  ASSUME TrackInv, Crash
  PROVE  TrackInv'
BY DEF TrackInv, Crash, NoDoubleTracking, IsPending, durable

LEMMA TrackRecover ==
  ASSUME LossInv, TrackInv, Recover
  PROVE  TrackInv'
<1>1. /\ unconfirmed' = {} /\ pending' = Unanchored /\ cursor' = Len(journal)
      /\ journal' = journal /\ pc' = "idle"
  BY DEF TrackInv, Recover, RecoverWith, durable
<1>2. \A c \in Unanchored : \E i \in 1..Len(journal) : journal[i] = c
  BY LenProperties DEF LossInv, TypeOK, Unanchored, Range
<1> QED BY <1>1, <1>2 DEF TrackInv, NoDoubleTracking, IsPending

\* Steps that touch neither the journal, the pool nor the list.
LEMMA TrackFrame ==
  ASSUME TrackInv,
         opReturn' = opReturn, journal' = journal, cursor' = cursor,
         pending' = pending, unconfirmed' = unconfirmed,
         pc' = "down" => pc = "down"
  PROVE  TrackInv'
BY DEF TrackInv, NoDoubleTracking, IsPending

LEMMA TrackStep == LossInv /\ TrackInv /\ [Next]_vars => TrackInv'
<1> SUFFICES ASSUME LossInv, TrackInv, [Next]_vars PROVE TrackInv'
  OBVIOUS
<1>1. ASSUME NEW c \in Commitment, SubmitJournal(c) PROVE TrackInv'
  BY <1>1, TrackSubmitJournal
<1>2. ASSUME NEW c \in Commitment, SubmitPut(c) \/ FinalizePut(c) PROVE TrackInv'
  BY <1>2, TrackFrame DEF SubmitPut, FinalizePut, GiveUp, nodeVars
<1>3. CASE StamperStep
  <2>1. CASE TrackDone \/ FinalizeBuild \/ SkipSend
    BY <2>1, TrackFrame DEF TrackDone, FinalizeBuild, GiveUp, SkipSend, nodeVars,
                            durable
  <2> QED BY <1>2, <1>3, <2>1, TrackTick, TrackTrackTx, TrackFinalizeDone,
             TrackSendOpReturn, TrackSendReply DEF StamperStep
<1>4. CASE Crash
  BY <1>4, TrackCrash
<1>5. CASE Recover
  BY <1>5, TrackRecover
<1>6. CASE IntervalElapses \/ UNCHANGED vars
  BY <1>6, TrackFrame DEF IntervalElapses, vars, volatile, durable, nodeVars
<1>7. CASE Mine \/ Reorganise
  BY <1>7, NetworkTyped, TrackFrame DEF LossInv, TypeOK, Mine, Reorganise, volatile,
                                        durable
<1> QED BY <1>1, <1>2, <1>3, <1>4, <1>5, <1>6, <1>7 DEF Next

THEOREM TrackInvariant == Spec => []TrackInv
BY LossInvariant, TrackInit, TrackStep, PTL DEF Spec

(***************************************************************************)
(* The stamper never follows a commitment in two places: not in the pool   *)
(* and in a tracked transaction, and not in two transactions, whatever is  *)
(* put back after conflicts, found again by Recover or sent again.         *)
(***************************************************************************)
THEOREM NeverTrackedTwice == Spec => []NoDoubleTracking
<1>1. TrackInv => NoDoubleTracking
  BY DEF TrackInv
<1> QED BY <1>1, TrackInvariant, PTL

-----------------------------------------------------------------------------
(***************************************************************************)
(* Stamper implements CalendarLedger: every step of the stamper, of        *)
(* Submit, of the network, every crash and every recovery is a step of the *)
(* ledger or leaves it alone.                                              *)
(***************************************************************************)

(***************************************************************************)
(* What the steps rest on: Submit is between append and Put only for a     *)
(* commitment the journal has; transactions commit to journaled            *)
(* commitments, and those not broadcast to nothing; finalize writes to     *)
(* leaves of its transaction only; and every stored attestation comes      *)
(* through a transaction that commits to its commitment.                   *)
(***************************************************************************)
LedgerInv ==
  /\ submitting \subseteq Range(journal)
  /\ \A t \in TxId : opReturn[t] \subseteq Range(journal)
  /\ \A t \in TxId : t > sent => opReturn[t] = {}
  /\ pc = "put" => toPut \subseteq opReturn[fin.tx]
  /\ pc # "put" => toPut = {}
  /\ \A c \in Commitment : \A p \in proofs[c] : c \in opReturn[p.tx]

\* What holds in every reachable state, as the steps below use it.
Inv == LossInv /\ TrackInv /\ LedgerInv

\* What is queued is in the journal.
LEMMA QueuedIsRecorded ==
  ASSUME LossInv, TrackInv
  PROVE  pending \subseteq Range(journal)
<1>1. journal \in Seq(Commitment) /\ cursor \in 0..Len(journal)
      /\ DOMAIN journal = 1..Len(journal) /\ Len(journal) \in Nat
  BY LenProperties DEF LossInv, TypeOK
<1>2. \A c \in pending : c \in Commitment /\ IsPending(c)
  BY DEF LossInv, TypeOK, IsPending
<1> QED BY <1>1, <1>2 DEF TrackInv, Range

LEMMA LedgerInit == Init => LedgerInv
BY DEF Init, NodeInit, LedgerInv

\* The ledger's view of the variables: what is left alone keeps LedgerInv.
LEMMA LedgerFrame ==
  ASSUME LedgerInv,
         journal' = journal, proofs' = proofs, opReturn' = opReturn, sent' = sent,
         submitting' \subseteq submitting,
         \/ pc' # "put" /\ toPut' = {}
         \/ pc' = pc /\ toPut' \subseteq toPut /\ fin' = fin
  PROVE  LedgerInv'
BY DEF LedgerInv

LEMMA LedgerSubmitJournal ==
  ASSUME Inv, NEW c \in Commitment, SubmitJournal(c)
  PROVE  /\ LedgerInv'
         /\ Range(journal') = Range(journal) \cup {c}
<1>1. journal \in Seq(Commitment) /\ Len(journal) \in Nat
      /\ Range(journal) = {journal[i] : i \in 1..Len(journal)}
  BY LenProperties DEF Inv, LossInv, TypeOK, Range
<1>2. /\ journal' \in Seq(Commitment)
      /\ Len(journal') = Len(journal) + 1
      /\ \A i \in 1..Len(journal) : journal'[i] = journal[i]
      /\ journal'[Len(journal) + 1] = c
  BY <1>1, AppendProperties DEF SubmitJournal
<1>3. Range(journal') = {journal'[i] : i \in 1..Len(journal')}
  BY <1>2, LenProperties DEF Range
<1>4. 1..Len(journal') = 1..Len(journal) \cup {Len(journal) + 1}
  BY <1>1, <1>2
<1>5. Range(journal') = Range(journal) \cup {c}
  BY <1>1, <1>2, <1>3, <1>4
<1> QED BY <1>5 DEF Inv, LedgerInv, SubmitJournal, nodeVars

LEMMA LedgerSendOpReturn ==
  ASSUME Inv, SendOpReturn
  PROVE  /\ LedgerInv'
         /\ sent + 1 \in TxId
         /\ opReturn[sent + 1] = {}
         /\ opReturn' = [opReturn EXCEPT ![sent + 1] = pending]
         /\ opReturn'[sent + 1] = pending
<1>1. /\ sent \in Nat /\ sent < MaxTxs /\ sent' = sent + 1
      /\ opReturn \in [TxId -> SUBSET Commitment]
      /\ opReturn' = [opReturn EXCEPT ![sent + 1] = pending]
      /\ pc = "send" /\ pc' = "sent"
      /\ journal' = journal /\ proofs' = proofs /\ toPut' = toPut
      /\ submitting' = submitting
      /\ proofs \in [Commitment -> SUBSET Attestation]
  BY DEF Inv, LossInv, TypeOK, NodeTypeOK, SendOpReturn, Broadcast, durable
<1>2. sent + 1 \in TxId
  BY <1>1, NodeAssumption DEF TxId
<1>3. opReturn[sent + 1] = {}
  BY <1>1, <1>2 DEF Inv, LedgerInv
<1>4. /\ opReturn'[sent + 1] = pending
      /\ \A t \in TxId : t # sent + 1 => opReturn'[t] = opReturn[t]
  BY <1>1, <1>2
<1>5. \A t \in TxId : opReturn'[t] \subseteq Range(journal)
  BY <1>4, QueuedIsRecorded DEF Inv, LedgerInv
<1>6. \A t \in TxId : t > sent' => opReturn'[t] = {}
  BY <1>1, <1>4 DEF Inv, LedgerInv, TxId
<1>7. \A c \in Commitment : \A p \in proofs[c] : c \in opReturn'[p.tx]
  <2> TAKE c \in Commitment
  <2> TAKE p \in proofs[c]
  <2>1. p.tx \in TxId /\ c \in opReturn[p.tx]
    BY <1>1 DEF Inv, LedgerInv, Attestation
  <2> QED BY <2>1, <1>3, <1>4
<1> QED BY <1>1, <1>2, <1>3, <1>4, <1>5, <1>6, <1>7 DEF Inv, LedgerInv

LEMMA LedgerFinalizeBuild ==
  ASSUME Inv, FinalizeBuild
  PROVE  LedgerInv'
<1>1. /\ journal' = journal /\ proofs' = proofs /\ opReturn' = opReturn
      /\ sent' = sent /\ submitting' = submitting
  BY DEF FinalizeBuild, nodeVars, durable
<1>2. \/ pc' = "track" /\ toPut' = {}
      \/ pc' = "put" /\ toPut' = opReturn[fin.tx] /\ fin' = fin
  BY DEF FinalizeBuild, GiveUp
<1> QED BY <1>1, <1>2 DEF Inv, LedgerInv

\* Of the attestations a step adds to c's proof, each is through a
\* transaction over c.
LEMMA LedgerFinalizePut ==
  ASSUME Inv, NEW c \in Commitment, FinalizePut(c)
  PROVE  /\ LedgerInv'
         /\ c \in Range(journal)
         /\ \/ proofs' = proofs
            \/ /\ proofs' = [proofs EXCEPT ![c] = proofs'[c]]
               /\ proofs[c] \subseteq proofs'[c]
               /\ \A a \in proofs'[c] : c \in opReturn[a.tx]
<1>1. /\ pc = "put" /\ c \in toPut /\ toPut \subseteq opReturn[fin.tx]
      /\ fin.tx \in TxId
      /\ proofs \in [Commitment -> SUBSET Attestation]
  BY TrackedTxId DEF FinalizePut, Inv, LedgerInv, LossInv, TypeOK
<1>2. c \in opReturn[fin.tx] /\ c \in Range(journal)
  BY <1>1 DEF Inv, LedgerInv
<1>3. /\ journal' = journal /\ opReturn' = opReturn /\ sent' = sent
      /\ submitting' = submitting
  BY DEF FinalizePut, nodeVars
<1>4. CASE proofs' = proofs /\ GiveUp
  BY <1>2, <1>3, <1>4, LedgerFrame DEF GiveUp, Inv
<1>5. CASE /\ proofs' = [proofs EXCEPT ![c] = Merge(@, AttestationsOf(fin.tx))]
           /\ toPut' = toPut \ {c} /\ pc' = pc /\ fin' = fin
  <2>1. proofs'[c] = proofs[c] \cup AttestationsOf(fin.tx)
    BY <1>1, <1>5 DEF Merge
  <2>2. \A x \in Commitment : x # c => proofs'[x] = proofs[x]
    BY <1>1, <1>5
  <2>3. \A a \in AttestationsOf(fin.tx) : a.tx = fin.tx
    BY DEF AttestationsOf
  <2>4. \A a \in proofs'[c] : c \in opReturn[a.tx]
    BY <1>2, <2>1, <2>3 DEF Inv, LedgerInv
  <2>5. proofs' = [proofs EXCEPT ![c] = proofs'[c]]
    BY <1>5, <2>1 DEF Merge
  <2>6. LedgerInv'
    BY <1>1, <1>3, <1>5, <2>2, <2>4 DEF Inv, LedgerInv
  <2> QED BY <1>2, <2>1, <2>4, <2>5, <2>6
<1> QED BY <1>4, <1>5 DEF FinalizePut

LEMMA LedgerSubmitPut ==
  ASSUME Inv, NEW c \in Commitment, SubmitPut(c)
  PROVE  /\ LedgerInv'
         /\ c \in Range(journal)
         /\ proofs' = proofs
         /\ receipts' \in {receipts, receipts \cup {c}}
<1>1. proofs' = proofs
  BY DEF SubmitPut, Merge, Inv, LossInv, TypeOK
<1>2. LedgerInv'
  BY <1>1, LedgerFrame DEF SubmitPut, Inv, nodeVars
<1> QED BY <1>1, <1>2 DEF SubmitPut, Inv, LedgerInv

\* The other steps of the stamper: they are invisible in the ledger.
LEMMA LedgerQuiet ==
  ASSUME Inv,
         \/ Tick \/ (\E t \in TxId : TrackTx(t)) \/ TrackDone
         \/ FinalizeBuild \/ FinalizeDone \/ SkipSend \/ SendReply
         \/ Crash \/ Recover \/ IntervalElapses \/ Mine \/ Reorganise
  PROVE  LedgerInv' /\ UNCHANGED <<journal, receipts, opReturn, proofs>>
<1>1. CASE Tick \/ TrackDone \/ SkipSend \/ SendReply
  BY <1>1, LedgerFrame DEF Tick, TrackDone, SkipSend, SendReply, Inv, LedgerInv,
                           nodeVars, durable
<1>2. CASE \E t \in TxId : TrackTx(t)
  <2>1. /\ pc = "track" /\ pc' \in {"track", "build"} /\ toPut' = toPut
        /\ nodeVars' = nodeVars /\ durable' = durable /\ submitting' = submitting
    BY <1>2 DEF TrackTx, KeepTx, ConflictTx, ConfirmTx, Finalize
  <2> QED BY <2>1, LedgerFrame DEF Inv, LedgerInv, nodeVars, durable
<1>3. CASE FinalizeBuild
  BY <1>3, LedgerFinalizeBuild DEF FinalizeBuild, nodeVars, durable
<1>4. CASE FinalizeDone
  BY <1>4, LedgerFrame DEF FinalizeDone, Inv, nodeVars, durable
<1>5. CASE Crash
  BY <1>5, LedgerFrame DEF Crash, Inv, nodeVars, durable
<1>6. CASE Recover
  BY <1>6, LedgerFrame DEF Recover, RecoverWith, Inv, LedgerInv, nodeVars, durable
<1>7. CASE IntervalElapses
  BY <1>7, LedgerFrame DEF IntervalElapses, Inv, nodeVars, durable
<1>8. CASE Mine \/ Reorganise
  <2>1. sent' = sent /\ opReturn' = opReturn
    BY <1>8, NetworkTyped DEF Inv, LossInv, TypeOK
  <2>2. durable' = durable /\ volatile' = volatile
    BY <1>8 DEF Mine, Reorganise
  <2> QED BY <2>1, <2>2, LedgerFrame DEF Inv, durable, volatile
<1> QED BY <1>1, <1>2, <1>3, <1>4, <1>5, <1>6, <1>7, <1>8

LEMMA LedgerStep == Inv /\ [Next]_vars => LedgerInv' /\ [Ledger!Next]_(Ledger!ledger)
<1> SUFFICES ASSUME Inv, [Next]_vars
             PROVE  LedgerInv' /\ [Ledger!Next]_(Ledger!ledger)
  OBVIOUS
<1>1. ASSUME NEW c \in Commitment, SubmitJournal(c)
      PROVE  LedgerInv' /\ Ledger!Next
  <2>1. Ledger!Record(c)
    BY <1>1, LedgerSubmitJournal DEF Ledger!Record, SubmitJournal, nodeVars
  <2> QED BY <1>1, <2>1, LedgerSubmitJournal DEF Ledger!Next
<1>2. ASSUME NEW c \in Commitment, SubmitPut(c)
      PROVE  LedgerInv' /\ (Ledger!Next \/ UNCHANGED Ledger!ledger)
  <2>1. journal' = journal /\ opReturn' = opReturn
    BY <1>2 DEF SubmitPut, nodeVars
  <2>2. CASE receipts' = receipts
    BY <1>2, <2>1, <2>2, LedgerSubmitPut DEF Ledger!ledger
  <2>3. CASE receipts' = receipts \cup {c}
    <3>1. Ledger!Receipt(c)
      BY <1>2, <2>1, <2>3, LedgerSubmitPut DEF Ledger!Receipt
    <3> QED BY <1>2, <3>1, LedgerSubmitPut DEF Ledger!Next
  <2> QED BY <1>2, <2>2, <2>3, LedgerSubmitPut
<1>3. ASSUME NEW c \in Commitment, FinalizePut(c)
      PROVE  LedgerInv' /\ (Ledger!Next \/ UNCHANGED Ledger!ledger)
  <2>1. journal' = journal /\ opReturn' = opReturn /\ receipts' = receipts
    BY <1>3 DEF FinalizePut, nodeVars
  <2>2. CASE proofs' = proofs
    BY <1>3, <2>1, <2>2, LedgerFinalizePut DEF Ledger!ledger
  <2>3. CASE proofs' # proofs
    <3>1. Ledger!Attest(c)
      BY <1>3, <2>1, <2>3, LedgerFinalizePut DEF Ledger!Attest
    <3> QED BY <1>3, <3>1, LedgerFinalizePut DEF Ledger!Next
  <2> QED BY <2>2, <2>3
<1>4. CASE SendOpReturn
  <2>1. journal' = journal /\ receipts' = receipts /\ proofs' = proofs
    BY <1>4 DEF SendOpReturn, durable
  <2>2. Ledger!Broadcast(sent + 1)
    BY <1>4, <2>1, LedgerSendOpReturn, QueuedIsRecorded DEF Ledger!Broadcast, Inv
  <2> QED BY <1>4, <2>2, LedgerSendOpReturn DEF Ledger!Next
<1>5. CASE \/ Tick \/ (\E t \in TxId : TrackTx(t)) \/ TrackDone
           \/ FinalizeBuild \/ FinalizeDone \/ SkipSend \/ SendReply
           \/ Crash \/ Recover \/ IntervalElapses \/ Mine \/ Reorganise
  BY <1>5, LedgerQuiet DEF Ledger!ledger
<1>6. CASE UNCHANGED vars
  BY <1>6, LedgerFrame DEF vars, volatile, durable, nodeVars, Inv, Ledger!ledger
<1> QED BY <1>1, <1>2, <1>3, <1>4, <1>5, <1>6 DEF Next, StamperStep

THEOREM LedgerInvariant == Spec => []Inv
<1>1. Init => Inv
  BY LossInit, TrackInit, LedgerInit DEF Inv
<1>2. Inv /\ [Next]_vars => Inv'
  BY LossStep, TrackStep, LedgerStep DEF Inv
<1> QED BY <1>1, <1>2, PTL DEF Spec

(***************************************************************************)
(* The stamper implements the ledger: through every interleaving of        *)
(* submissions, its own steps, the network, crashes and recoveries it only *)
(* broadcasts recorded commitments, only adds attestations whose           *)
(* transaction is over the commitment, and takes nothing back.             *)
(***************************************************************************)
THEOREM LedgerRefinement == Spec => ImplementsLedger
<1>1. Init => Ledger!Init
  <2>1. Init => Range(journal) = {}
    BY DEF Init, Range
  <2> QED BY <2>1 DEF Init, NodeInit, Ledger!Init
<1>2. Inv /\ [Next]_vars => [Ledger!Next]_(Ledger!ledger)
  BY LedgerStep
<1> QED BY <1>1, <1>2, LedgerInvariant, PTL DEF Spec, ImplementsLedger, Ledger!Spec

-----------------------------------------------------------------------------
(***************************************************************************)
(* The stamper's attestations against the chain: what finalize attests is  *)
(* active at that moment, and stays so unless a reorganisation as deep as  *)
(* MinConf comes.                                                          *)
(***************************************************************************)

(***************************************************************************)
(* What the network can do to the chain, mining and reorganising alike:    *)
(* the first k blocks stay, new blocks with new identities follow, and     *)
(* there are more blocks than before.                                      *)
(***************************************************************************)
Replaces(k) ==
  /\ k \in 0..Len(chain)
  /\ Len(chain) - k <= deepest'
  /\ Len(chain') \in Nat /\ Len(chain) < Len(chain')
  /\ \A h \in 1..k : chain'[h] = chain[h]
  /\ \A h \in (k + 1)..Len(chain') : chain'[h].id = minted + (h - k)
  /\ minted' = minted + (Len(chain') - k)
  /\ deepest <= deepest'

LEMMA MineReplaces ==
  ASSUME NodeTypeOK, NEW n \in Neighbour, NEW inc, NEW kill, MineBlock(n, inc, kill)
  PROVE  Replaces(Len(chain))
<1> DEFINE block == NewBlock(minted + 1, n, inc, kill)
<1>1. inc \in SUBSET TxId /\ kill \in SUBSET TxId
  BY NodeAssumption DEF NodeTypeOK, mempool, TxId, MineBlock
<1>2. block \in Block /\ block.id = minted + 1
  BY <1>1 DEF NodeTypeOK, NewBlock, Block
<1>3. chain' = Append(chain, block) /\ minted' = minted + 1 /\ deepest' = deepest
  BY DEF MineBlock
<1> HIDE DEF block
<1>4. chain \in Seq(Block) /\ Len(chain) \in Nat /\ minted \in Nat /\ deepest \in Nat
  BY LenProperties DEF NodeTypeOK
<1>5. /\ Len(chain') = Len(chain) + 1
      /\ \A h \in 1..Len(chain) : chain'[h] = chain[h]
      /\ chain'[Len(chain) + 1] = block
  BY <1>2, <1>3, <1>4, AppendProperties
<1> QED BY <1>2, <1>3, <1>4, <1>5 DEF Replaces

LEMMA ReorgReplaces ==
  ASSUME NodeTypeOK, NEW d, NEW n \in Neighbour, NEW inc, Reorg(d, n, inc)
  PROVE  Replaces(Len(chain) - d)
<1> DEFINE base == SubSeq(chain, 1, Len(chain) - d)
           new  == [k \in 1..(d + 1) |->
                      NewBlock(minted + k, n, IF k = 1 THEN inc ELSE {}, {})]
<1>1. /\ d \in Nat /\ d <= Len(chain) /\ d + 1 \in Nat
      /\ chain \in Seq(Block) /\ Len(chain) \in Nat /\ minted \in Nat /\ deepest \in Nat
  BY NodeAssumption, LenProperties DEF Reorg, NodeTypeOK
<1>2. inc \subseteq TxId
  BY NodeAssumption DEF Reorg, NodeTypeOK, TxId
<1>3. \A i \in 1..(Len(chain) - d) : chain[i] \in Block
  BY <1>1, ElementOfSeq
<1>4. /\ base \in Seq(Block) /\ Len(base) = Len(chain) - d
      /\ \A i \in 1..(Len(chain) - d) : base[i] = chain[i]
  BY <1>1, <1>3, SubSeqProperties
<1>5. \A k \in 1..(d + 1) :
        NewBlock(minted + k, n, IF k = 1 THEN inc ELSE {}, {}) \in Block
  BY <1>1, <1>2 DEF NewBlock, Block
<1>6. new \in Seq(Block)
  BY <1>1, <1>5, IsASeq
<1>7. Len(new) = d + 1 /\ \A k \in 1..(d + 1) : new[k].id = minted + k
  <2>1. DOMAIN new = 1..(d + 1)
    OBVIOUS
  <2>2. DOMAIN new = 1..Len(new) /\ Len(new) \in Nat
    BY <1>6, LenProperties
  <2>3. Len(new) = d + 1
    BY <1>1, <2>1, <2>2
  <2> QED BY <2>3 DEF NewBlock
<1>8. /\ chain' = base \o new /\ minted' = minted + d + 1
      /\ deepest' = IF d > deepest THEN d ELSE deepest
  BY DEF Reorg
<1> HIDE DEF base, new
<1>9. /\ Len(chain') = Len(base) + Len(new)
      /\ \A i \in 1..(Len(base) + Len(new)) :
           chain'[i] = IF i <= Len(base) THEN base[i] ELSE new[i - Len(base)]
  BY <1>4, <1>6, <1>8, ConcatProperties
<1>10. \A h \in 1..(Len(chain) - d) : chain'[h] = chain[h]
  BY <1>1, <1>4, <1>7, <1>9
<1>11. \A h \in (Len(chain) - d + 1)..Len(chain') :
         chain'[h].id = minted + (h - (Len(chain) - d))
  <2> TAKE h \in (Len(chain) - d + 1)..Len(chain')
  <2>1. h - Len(base) \in 1..(d + 1) /\ chain'[h] = new[h - Len(base)]
    BY <1>1, <1>4, <1>7, <1>9
  <2> QED BY <2>1, <1>4, <1>7
<1> QED BY <1>1, <1>4, <1>7, <1>8, <1>9, <1>10, <1>11 DEF Replaces

LEMMA NetworkReplaces ==
  ASSUME NodeTypeOK, Mine \/ Reorganise
  PROVE  \E k \in 0..Len(chain) : Replaces(k)
<1>1. CASE Mine
  BY <1>1, MineReplaces DEF Mine, Replaces
<1>2. CASE Reorganise
  BY <1>2, ReorgReplaces DEF Reorganise, Replaces
<1> QED BY <1>1, <1>2

-----------------------------------------------------------------------------
\* A block identity names one block of the active chain, and is not reused.
BlockIds ==
  /\ \A h \in 1..Len(chain) : chain[h].id \in 1..minted
  /\ \A g, h \in 1..Len(chain) : chain[g].id = chain[h].id => g = h

(***************************************************************************)
(* While finalize works, the block BlockTxIDs answered about is the one    *)
(* with that identity wherever it is active: at that height, with the      *)
(* transaction in it.  It need not be active.                              *)
(***************************************************************************)
FinBlock ==
  pc \in {"build", "put"} =>
    /\ fin.blk \in 1..minted
    /\ \A h \in 1..Len(chain) :
         chain[h].id = fin.blk => h = fin.height /\ fin.tx \in chain[h].txs

\* The block is active at that height, under MinConf - 1 others, with tx in it.
Buried(tx, blk, height) ==
  /\ height \in 1..(Len(chain) - MinConf + 1)
  /\ chain[height].id = blk
  /\ tx \in chain[height].txs

(***************************************************************************)
(* Until a reorganisation is MinConf deep, every block that finalize works *)
(* on, that a branch of a tracked tree leads to or that a stored           *)
(* attestation names is buried.                                            *)
(***************************************************************************)
BuriedInv ==
  deepest < MinConf =>
    /\ pc \in {"build", "put"} => Buried(fin.tx, fin.blk, fin.height)
    /\ \A t \in TxId : \A b \in tip[t] : Buried(t, b.blk, b.height)
    /\ \A c \in Commitment : \A p \in proofs[c] : Buried(p.tx, p.blk, p.height)

ChainInv == BlockIds /\ FinBlock /\ BuriedInv

LEMMA ChainInit == Init => ChainInv
BY EmptySeq DEF Init, NodeInit, ChainInv, BlockIds, FinBlock, BuriedInv

\* A buried block stays buried under every reorganisation that is not as deep.
LEMMA StaysBuried ==
  ASSUME NodeTypeOK, NodeTypeOK', NEW k, Replaces(k), deepest' < MinConf,
         NEW tx, NEW blk, NEW height, Buried(tx, blk, height)
  PROVE  Buried(tx, blk, height)'
<1>1. /\ Len(chain) \in Nat /\ Len(chain') \in Nat /\ k \in Nat
      /\ MinConf \in Nat \ {0} /\ height \in 1..(Len(chain) - MinConf + 1)
      /\ deepest' \in Nat
  BY LenProperties, StamperAssumption DEF NodeTypeOK, Replaces, Buried
<1>2. Len(chain) - k < MinConf
  BY <1>1 DEF Replaces
<1>3. height \in 1..k /\ height \in 1..(Len(chain') - MinConf + 1)
  BY <1>1, <1>2 DEF Replaces
<1> QED BY <1>3 DEF Replaces, Buried

LEMMA ChainNetwork ==
  ASSUME Inv, ChainInv, Mine \/ Reorganise
  PROVE  ChainInv'
<1>1. NodeTypeOK /\ NodeTypeOK' /\ durable' = durable /\ volatile' = volatile
  BY NetworkTyped DEF Inv, LossInv, TypeOK, Mine, Reorganise
<1>2. PICK k \in 0..Len(chain) : Replaces(k)
  BY <1>1, NetworkReplaces
<1>3. /\ Len(chain) \in Nat /\ Len(chain') \in Nat /\ minted \in Nat /\ minted' \in Nat
      /\ deepest \in Nat /\ deepest' \in Nat
  BY <1>1, LenProperties DEF NodeTypeOK
\* Every block of the new chain was there, or has a new identity.
<1>4. ASSUME NEW h \in 1..Len(chain')
      PROVE  \/ h \in 1..Len(chain) /\ h <= k /\ chain'[h].id = chain[h].id
                                     /\ chain'[h].txs = chain[h].txs
             \/ h > k /\ chain'[h].id = minted + (h - k)
                      /\ minted + (h - k) \in (minted + 1)..minted'
  BY <1>2, <1>3 DEF Replaces
<1>5. BlockIds'
  <2>1. minted < minted'
    BY <1>2, <1>3 DEF Replaces
  <2>2. \A h \in 1..Len(chain) : chain[h].id \in 1..minted
    BY DEF ChainInv, BlockIds
  <2>3. ASSUME NEW h \in 1..Len(chain') PROVE chain'[h].id \in 1..minted'
    <3>1. CASE h > k
      BY <1>3, <1>4, <3>1
    <3>2. CASE h <= k
      <4>1. h \in 1..Len(chain) /\ chain'[h].id = chain[h].id
        BY <1>3, <1>4, <3>2
      <4>2. chain[h].id \in 1..minted
        BY <4>1, <2>2
      <4> QED BY <1>3, <2>1, <4>1, <4>2
    <3> QED BY <1>3, <3>1, <3>2
  \* A block that stayed has an older identity than a new one.
  <2>4. ASSUME NEW x \in 1..Len(chain'), NEW y \in 1..Len(chain'), x <= k, y > k
        PROVE  chain'[x].id # chain'[y].id
    <3>1. x \in 1..Len(chain) /\ chain'[x].id = chain[x].id
      BY <1>3, <1>4, <2>4
    <3>2. chain[x].id \in 1..minted
      BY <3>1, <2>2
    <3>3. chain'[y].id = minted + (y - k) /\ minted + (y - k) \notin 1..minted
      BY <1>3, <1>4, <2>4
    <3> QED BY <3>1, <3>2, <3>3
  <2>5. ASSUME NEW g \in 1..Len(chain'), NEW h \in 1..Len(chain'),
               chain'[g].id = chain'[h].id
        PROVE  g = h
    <3>1. CASE g <= k /\ h <= k
      <4>1. /\ g \in 1..Len(chain) /\ chain'[g].id = chain[g].id
            /\ h \in 1..Len(chain) /\ chain'[h].id = chain[h].id
        BY <1>3, <1>4, <3>1
      <4> QED BY <2>5, <4>1 DEF ChainInv, BlockIds
    <3>2. CASE g > k /\ h > k
      <4>1. minted + (g - k) = minted + (h - k)
        BY <1>3, <1>4, <2>5, <3>2
      <4> QED BY <1>3, <4>1
    <3> QED BY <1>3, <2>4, <2>5, <3>1, <3>2
  <2> QED BY <2>3, <2>5 DEF BlockIds
<1>6. FinBlock'
  <2> SUFFICES ASSUME pc \in {"build", "put"}
               PROVE  /\ fin.blk \in 1..minted'
                      /\ \A h \in 1..Len(chain') : chain'[h].id = fin.blk =>
                           h = fin.height /\ fin.tx \in chain'[h].txs
    BY <1>1 DEF FinBlock, volatile
  <2>1. fin.blk \in 1..minted
    BY DEF ChainInv, FinBlock
  <2>2. fin.blk \in 1..minted'
    BY <1>2, <1>3, <2>1 DEF Replaces
  <2>3. ASSUME NEW h \in 1..Len(chain'), chain'[h].id = fin.blk
        PROVE  h = fin.height /\ fin.tx \in chain'[h].txs
    BY <1>3, <1>4, <2>1, <2>3 DEF ChainInv, FinBlock
  <2> QED BY <2>2, <2>3
<1>7. BuriedInv'
  <2> SUFFICES ASSUME deepest' < MinConf
               PROVE  /\ pc \in {"build", "put"} => Buried(fin.tx, fin.blk, fin.height)'
                      /\ \A t \in TxId : \A b \in tip[t] : Buried(t, b.blk, b.height)'
                      /\ \A c \in Commitment : \A p \in proofs[c] :
                           Buried(p.tx, p.blk, p.height)'
    BY <1>1 DEF BuriedInv, Buried, durable, volatile
  <2>1. deepest < MinConf
    BY <1>2, <1>3, StamperAssumption DEF Replaces
  <2>2. ASSUME NEW tx, NEW blk, NEW height, Buried(tx, blk, height)
        PROVE  /\ height \in 1..(Len(chain') - MinConf + 1)
               /\ chain'[height].id = blk
               /\ tx \in chain'[height].txs
    BY <1>1, <1>2, <2>2, StaysBuried DEF Buried
  <2> QED BY <1>1, <2>1, <2>2 DEF ChainInv, BuriedInv, Buried, durable, volatile
<1> QED BY <1>5, <1>6, <1>7 DEF ChainInv

\* A transaction found deep enough is in a buried block.
LEMMA ConfirmedIsBuried ==
  ASSUME NodeTypeOK, NEW t \in TxId, ConfirmTx(t)
  PROVE  /\ Buried(t, chain[HeightOf(t)].id, HeightOf(t))
         /\ HeightOf(t) \in 1..Len(chain)
<1>1. HeightOf(t) \in 1..Len(chain) /\ t \in chain[HeightOf(t)].txs
  BY HeightOfBlock DEF ConfirmTx
<1>2. Confirmations(t) = Len(chain) - HeightOf(t) + 1
  BY DEF ConfirmTx, Confirmations
<1>3. Len(chain) \in Nat
  BY LenProperties DEF NodeTypeOK
<1>4. HeightOf(t) \in 1..(Len(chain) - MinConf + 1)
  BY <1>1, <1>2, <1>3, StamperAssumption DEF ConfirmTx
<1> QED BY <1>1, <1>4 DEF Buried

LEMMA ChainTrackTx ==
  ASSUME Inv, ChainInv, NEW t \in TxId, TrackTx(t)
  PROVE  ChainInv'
<1>1. /\ TypeOK /\ NodeTypeOK /\ pc = "track"
      /\ nodeVars' = nodeVars /\ durable' = durable
      /\ tip \in [TxId -> SUBSET Branch]
  BY DEF Inv, LossInv, TypeOK, TrackTx
<1>2. CASE KeepTx(t) \/ ConflictTx(t)
  <2>1. pc' = "track" /\ \A u \in TxId : tip'[u] \subseteq tip[u]
    BY <1>1, <1>2 DEF KeepTx, ConflictTx
  <2> QED BY <1>1, <2>1
          DEF ChainInv, BlockIds, FinBlock, BuriedInv, Buried, nodeVars, durable
<1>3. CASE ConfirmTx(t)
  <2>1. /\ Buried(t, chain[HeightOf(t)].id, HeightOf(t))
        /\ HeightOf(t) \in 1..Len(chain)
    BY <1>1, <1>3, ConfirmedIsBuried
  <2>2. /\ fin'.tx = t /\ fin'.blk = chain[HeightOf(t)].id
        /\ fin'.height = HeightOf(t) /\ tip' = tip
    BY <1>3 DEF ConfirmTx, Finalize
  <2>3. FinBlock'
    BY <1>1, <2>1, <2>2 DEF ChainInv, BlockIds, FinBlock, Buried, nodeVars
  <2>4. BuriedInv'
    BY <1>1, <2>1, <2>2 DEF ChainInv, BuriedInv, Buried, nodeVars, durable
  <2> QED BY <1>1, <2>3, <2>4 DEF ChainInv, BlockIds, nodeVars
<1> QED BY <1>2, <1>3 DEF TrackTx

\* FinalizeBuild grafts the branch to finalize's block onto its transaction's
\* tip, or nothing.
LEMMA BuildGrafts ==
  ASSUME Inv, FinalizeBuild
  PROVE  /\ fin.tx \in TxId
         /\ \A t \in TxId : \A b \in tip'[t] \ tip[t] :
              /\ t = fin.tx /\ b.blk = fin.blk /\ b.height = fin.height
              /\ b.att => HeaderFound /\ ~RootMismatch
         /\ pc' = "put" => fin' = fin
         /\ pc' \in {"track", "put"}
<1>1. pc = "build" /\ fin.tx \in TxId /\ tip \in [TxId -> SUBSET Branch]
  BY TrackedTxId DEF Inv, LossInv, TypeOK, FinalizeBuild
<1>2. \/ tip' = tip
      \/ tip' = [tip EXCEPT ![fin.tx] = Grafted(FALSE)]
      \/ tip' = [tip EXCEPT ![fin.tx] = Grafted(TRUE)] /\ HeaderFound /\ ~RootMismatch
  BY DEF FinalizeBuild
<1>3. ASSUME NEW a \in BOOLEAN, tip' = [tip EXCEPT ![fin.tx] = Grafted(a)],
             NEW t \in TxId, NEW b \in tip'[t] \ tip[t]
      PROVE  t = fin.tx /\ b.blk = fin.blk /\ b.height = fin.height /\ b.att = a
  BY <1>1, <1>3 DEF Grafted
<1>4. pc' \in {"track", "put"} /\ (pc' = "put" => fin' = fin)
  BY DEF FinalizeBuild, GiveUp
<1>5. \A t \in TxId : \A b \in tip'[t] \ tip[t] :
              /\ t = fin.tx /\ b.blk = fin.blk /\ b.height = fin.height
              /\ b.att => HeaderFound /\ ~RootMismatch
  BY <1>2, <1>3
<1> QED BY <1>1, <1>4, <1>5

LEMMA ChainFinalizeBuild ==
  ASSUME Inv, ChainInv, FinalizeBuild
  PROVE  ChainInv'
<1>1. pc = "build" /\ nodeVars' = nodeVars /\ durable' = durable
  BY DEF FinalizeBuild
<1>2. BlockIds' /\ FinBlock'
  BY <1>1, BuildGrafts DEF ChainInv, BlockIds, FinBlock, nodeVars
<1>3. deepest < MinConf => \A t \in TxId : \A b \in tip'[t] : Buried(t, b.blk, b.height)
  BY <1>1, BuildGrafts DEF ChainInv, BuriedInv
<1>4. BuriedInv'
  BY <1>1, <1>3, BuildGrafts DEF ChainInv, BuriedInv, Buried, nodeVars, durable
<1> QED BY <1>2, <1>4 DEF ChainInv

LEMMA ChainFinalizePut ==
  ASSUME Inv, ChainInv, NEW c \in Commitment, FinalizePut(c)
  PROVE  ChainInv'
<1>1. /\ pc = "put" /\ fin.tx \in TxId
      /\ proofs \in [Commitment -> SUBSET Attestation]
      /\ nodeVars' = nodeVars /\ tip' = tip
      /\ pc' \in {"put", "track"} /\ (pc' = "put" => fin' = fin)
  BY TrackedTxId DEF FinalizePut, GiveUp, Inv, LossInv, TypeOK
<1>2. \A x \in Commitment : \A p \in proofs'[x] \ proofs[x] : p \in AttestationsOf(fin.tx)
  BY <1>1 DEF FinalizePut, Merge
<1>3. deepest < MinConf => \A p \in AttestationsOf(fin.tx) : Buried(p.tx, p.blk, p.height)
  BY <1>1 DEF AttestationsOf, ChainInv, BuriedInv
<1>4. BuriedInv'
  BY <1>1, <1>2, <1>3 DEF ChainInv, BuriedInv, Buried, nodeVars
<1> QED BY <1>1, <1>4 DEF ChainInv, BlockIds, FinBlock, nodeVars

\* Steps that leave chain and proofs alone, add no branch and do not start
\* finalize.
LEMMA ChainFrame ==
  ASSUME ChainInv,
         chain' = chain, minted' = minted, deepest' = deepest, proofs' = proofs,
         \A t \in TxId : tip'[t] \subseteq tip[t],
         pc' \notin {"build", "put"} \/ (pc' = pc /\ fin' = fin)
  PROVE  ChainInv'
BY DEF ChainInv, BlockIds, FinBlock, BuriedInv, Buried

LEMMA ChainStep == Inv /\ ChainInv /\ [Next]_vars => ChainInv'
<1> SUFFICES ASSUME Inv, ChainInv, [Next]_vars PROVE ChainInv'
  OBVIOUS
<1> tip \in [TxId -> SUBSET Branch]
  BY DEF Inv, LossInv, TypeOK
<1>1. ASSUME NEW c \in Commitment, SubmitJournal(c) \/ SubmitPut(c) PROVE ChainInv'
  BY <1>1, LedgerSubmitPut, ChainFrame DEF SubmitJournal, SubmitPut, nodeVars
<1>2. CASE StamperStep
  <2>1. CASE Tick \/ TrackDone \/ SkipSend \/ SendReply
    BY <2>1, ChainFrame DEF Tick, TrackDone, SkipSend, SendReply, nodeVars, durable
  <2>2. CASE SendOpReturn
    BY <2>2, ChainFrame DEF SendOpReturn, Broadcast, durable
  <2>3. CASE FinalizeDone
    BY <2>3, ChainFrame DEF FinalizeDone, nodeVars, durable
  <2> QED BY <1>2, <2>1, <2>2, <2>3, ChainTrackTx, ChainFinalizeBuild, ChainFinalizePut
          DEF StamperStep
<1>3. CASE Crash
  BY <1>3, ChainFrame DEF Crash, nodeVars, durable
<1>4. CASE Recover \/ IntervalElapses
  BY <1>4, ChainFrame DEF Recover, RecoverWith, IntervalElapses, nodeVars, durable
<1>5. CASE Mine \/ Reorganise
  BY <1>5, ChainNetwork
<1>6. CASE UNCHANGED vars
  BY <1>6, ChainFrame DEF vars, volatile, durable, nodeVars
<1> QED BY <1>1, <1>2, <1>3, <1>4, <1>5, <1>6 DEF Next

THEOREM ChainInvariant == Spec => []ChainInv
BY LedgerInvariant, ChainInit, ChainStep, PTL DEF Spec

(***************************************************************************)
(* Every attestation in the store is true of the active chain, for any     *)
(* number of reorganisations less than MinConf deep and whatever happens   *)
(* between TxStatus, BlockTxIDs and BlockHeader.                           *)
(***************************************************************************)
THEOREM AttestationsTrue == Spec => []AnchoredOnChain
<1>1. Inv /\ ChainInv => AnchoredOnChain
  <2> SUFFICES ASSUME Inv, ChainInv, deepest < MinConf,
                      NEW c \in Commitment, NEW p \in proofs[c]
               PROVE  /\ p.height \in DOMAIN chain
                      /\ chain[p.height].id = p.blk
                      /\ p.tx \in chain[p.height].txs
                      /\ c \in opReturn[p.tx]
    BY DEF AnchoredOnChain
  <2>1. Buried(p.tx, p.blk, p.height)
    BY DEF ChainInv, BuriedInv
  <2>2. c \in opReturn[p.tx]
    BY DEF Inv, LedgerInv
  <2>3. DOMAIN chain = 1..Len(chain) /\ Len(chain) \in Nat
    BY LenProperties DEF Inv, LossInv, TypeOK, NodeTypeOK
  <2>4. p.height \in DOMAIN chain
    BY <2>1, <2>3, StamperAssumption DEF Buried
  <2> QED BY <2>1, <2>2, <2>4 DEF Buried
<1> QED BY <1>1, LedgerInvariant, ChainInvariant, PTL

(***************************************************************************)
(* An attestation is only created for a block that is active at its height *)
(* and contains the transaction, even if the chain was reorganised, to any *)
(* depth, since the block was chosen: comparing the merkle root suffices.  *)
(***************************************************************************)
THEOREM AttestsActiveBlocks == Spec => AttestedWhenActive
<1> DEFINE Active(t, b) == /\ b.height \in DOMAIN chain
                           /\ chain[b.height].id = b.blk
                           /\ t \in chain[b.height].txs
           Attests == \A t \in TxId : \A b \in tip'[t] \ tip[t] : b.att => Active(t, b)
<1>1. Inv /\ ChainInv /\ [Next]_vars => [Attests]_vars
  <2> SUFFICES ASSUME Inv, ChainInv, Next PROVE Attests
    OBVIOUS
  <2>1. tip \in [TxId -> SUBSET Branch]
    BY DEF Inv, LossInv, TypeOK
  <2>2. CASE FinalizeBuild
    <3> SUFFICES ASSUME NEW t \in TxId, NEW b \in tip'[t] \ tip[t], b.att
                 PROVE  Active(t, b)
      OBVIOUS
    <3>1. t = fin.tx /\ b.blk = fin.blk /\ b.height = fin.height
          /\ HeaderFound /\ ~RootMismatch
      BY <2>2, BuildGrafts
    <3>2. fin.height \in DOMAIN chain /\ chain[fin.height].id = fin.blk
      BY <3>1 DEF HeaderFound, RootMismatch
    <3>3. DOMAIN chain = 1..Len(chain)
      BY LenProperties DEF Inv, LossInv, TypeOK, NodeTypeOK
    <3>4. fin.tx \in chain[fin.height].txs
      BY <2>2, <3>2, <3>3 DEF FinalizeBuild, ChainInv, FinBlock
    <3> QED BY <3>1, <3>2, <3>4
  <2>3. CASE ~FinalizeBuild
    <3>1. \A t \in TxId : tip'[t] \subseteq tip[t]
      <4>1. CASE StamperStep
        BY <2>1, <2>3, <4>1
           DEF StamperStep, Tick, TrackTx, KeepTx, ConflictTx, ConfirmTx, Finalize,
               TrackDone, FinalizePut, FinalizeDone, SkipSend, SendOpReturn, SendReply
      <4>2. CASE \E c \in Commitment : SubmitJournal(c) \/ SubmitPut(c)
        BY <4>2 DEF SubmitJournal, SubmitPut
      <4>3. CASE Crash \/ Recover \/ IntervalElapses
        BY <4>3 DEF Crash, Recover, RecoverWith, IntervalElapses
      <4>4. CASE Mine \/ Reorganise
        BY <4>4 DEF Mine, Reorganise, volatile
      <4> QED BY <4>1, <4>2, <4>3, <4>4 DEF Next
    <3> QED BY <3>1
  <2> QED BY <2>2, <2>3
<1> QED BY <1>1, LedgerInvariant, ChainInvariant, PTL DEF Spec, AttestedWhenActive
=============================================================================
