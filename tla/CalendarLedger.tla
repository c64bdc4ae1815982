--------------------------- MODULE CalendarLedger ---------------------------
(***************************************************************************)
(* What a calendar owes its clients, without journal, pool, transactions   *)
(* in flight or restarts: a commitment is recorded; a receipt for it and   *)
(* an anchor transaction over it come after that; a Bitcoin attestation is *)
(* only added through a transaction that commits to it; and nothing is     *)
(* ever taken back.  Stamper.tla implements this.                          *)
(***************************************************************************)
CONSTANTS
  Commitment,
  TxId

VARIABLES
  recorded,   \* commitments the calendar has recorded
  receipts,   \* those whose pending proof it can hand out
  anchors,    \* what each transaction commits to; {}: not broadcast
  attested    \* the attestations in each commitment's proof, with their tx

ledger == <<recorded, receipts, anchors, attested>>

Init ==
  /\ recorded = {}
  /\ receipts = {}
  /\ anchors = [t \in TxId |-> {}]
  /\ attested = [c \in Commitment |-> {}]

Record(c) ==
  /\ recorded' = recorded \cup {c}
  /\ UNCHANGED <<receipts, anchors, attested>>

Receipt(c) ==
  /\ c \in recorded
  /\ receipts' = receipts \cup {c}
  /\ UNCHANGED <<recorded, anchors, attested>>

\* The next transaction commits to a batch of recorded commitments.
Broadcast(t) ==
  /\ anchors[t] = {}
  /\ anchors' = [anchors EXCEPT ![t] = anchors'[t]]
  /\ anchors'[t] \subseteq recorded
  /\ UNCHANGED <<recorded, receipts, attested>>

\* Attestations join the proof of c, each through a transaction over c.
Attest(c) ==
  /\ c \in recorded
  /\ attested' = [attested EXCEPT ![c] = attested'[c]]
  /\ attested[c] \subseteq attested'[c]
  /\ \A a \in attested'[c] : c \in anchors[a.tx]
  /\ UNCHANGED <<recorded, receipts, anchors>>

Next ==
  \/ \E c \in Commitment : Record(c) \/ Receipt(c) \/ Attest(c)
  \/ \E t \in TxId : Broadcast(t)

Spec == Init /\ [][Next]_ledger
=============================================================================
