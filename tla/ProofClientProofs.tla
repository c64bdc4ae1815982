------------------------- MODULE ProofClientProofs -------------------------
(***************************************************************************)
(* Theorems about ProofClient: what VerifyProof says valid of is true, and *)
(* the block it reports is the earliest it confirmed, for any set of       *)
(* calendars, any chain, and any number of lies, reorganisations and       *)
(* failed calls.                                                           *)
(***************************************************************************)
EXTENDS ProofClient, FiniteSetTheorems, SequenceTheorems, TLAPS

\* A block's id names one block, at one height, for ever.
MinedInv ==
  /\ mined \subseteq [block: Block, height: Nat]
  /\ IsFiniteSet(mined)
  /\ \A d \in mined : d.block.id \in 1..Cardinality(mined)
  /\ \A d, e \in mined : d.block.id = e.block.id => d = e
  /\ \A h \in DOMAIN chain : [block |-> chain[h], height |-> h] \in mined

(***************************************************************************)
(* The message of an attestation of calendar c is a block's root only if   *)
(* that block commits to what c holds: a calendar can lie about the height *)
(* but cannot make up a path into a block.                                 *)
(***************************************************************************)
Rooted(c, a) ==
  a.kind = "bitcoin" /\ a.msg \notin {Junk, Short} =>
    \E d \in mined : d.block.id = a.msg /\ c \in d.block.has

RootInv ==
  /\ \A c \in Calendar : \A a \in held[c] : Rooted(c, a)
  /\ \A c \in Calendar : \A a \in cache[c] : Rooted(c, a)
  /\ \A p \in proof : Rooted(p.cal, p.att)

\* The proof shows that a real block of this height, id and time has it.
Shown(n) ==
  \E p \in proof, b \in mined :
    /\ p.att = Bitcoin(b.height, b.block.id)
    /\ p.cal \in b.block.has
    /\ n.height = b.height
    /\ n.id = b.block.id
    /\ n.time = b.block.time

(***************************************************************************)
(* What VerifyProof's loop keeps between two turns: a block it confirmed,  *)
(* with the least nTime of those so far, as soon as there is one.          *)
(***************************************************************************)
BestInv ==
  /\ best \subseteq Confirmed
  /\ Confirmed # {} => best # {}
  /\ \A b \in best : \A n \in Confirmed : b.time <= n.time

\* What the verification in progress and the last one found.
VerifyInv ==
  /\ BestInv
  /\ \A n \in seen : n.status = "confirmed" => Shown(n)
  /\ result.valid => Shown(result)

StampInv == pc = "stamp" => proof = {}

ClientInv == TypeOK /\ MinedInv /\ RootInv /\ VerifyInv /\ StampInv

\* Every result without a confirmed block.
LEMMA NoResultOK ==
  /\ NoResult \in [valid: BOOLEAN, status: (Status \ {"unknown"}) \cup {"none"},
                   time: Nat, height: Nat, id: Nat]
  /\ ~NoResult.valid
  /\ \A status \in {"invalid", "pending", "unverified"} :
       /\ Verdict(status) \in [valid: BOOLEAN,
                               status: (Status \ {"unknown"}) \cup {"none"},
                               time: Nat, height: Nat, id: Nat]
       /\ ~Verdict(status).valid
BY DEF NoResult, Verdict, Status

LEMMA ClientInit == Init => ClientInv
<1> SUFFICES ASSUME Init PROVE ClientInv
  OBVIOUS
<1>1. chain \in Seq(Block) /\ Len(chain) = 0 /\ DOMAIN chain = {}
  BY EmptySeq DEF Init
<1>2. IsFiniteSet(mined) /\ mined = {}
  BY FS_EmptySet DEF Init
<1>3. TypeOK
  <2>1. result \in [valid: BOOLEAN, status: (Status \ {"unknown"}) \cup {"none"},
                    time: Nat, height: Nat, id: Nat]
    BY NoResultOK DEF Init
  <2>2. Len(chain) <= MaxHeight /\ faults \in 0..MaxFaults
    BY <1>1, ProofClientAssumption DEF Init
  <2>3. via \in Upgrader
    BY DEF Init, Upgrader
  <2> QED BY <1>1, <2>1, <2>2, <2>3 DEF Init, TypeOK
<1>4. MinedInv
  BY <1>1, <1>2 DEF MinedInv
<1> QED BY <1>3, <1>4 DEF Init, ClientInv, RootInv, VerifyInv, BestInv, Confirmed, StampInv,
      NoResult

-----------------------------------------------------------------------------
(***************************************************************************)
(* What was shown stays shown and what was rooted stays rooted: blocks are *)
(* only ever added to the history, and attestations to the proof.          *)
(***************************************************************************)
LEMMA ShownStays ==
  ASSUME mined \subseteq mined', proof \subseteq proof'
  PROVE  \A n : Shown(n) => \E p \in proof', b \in mined' :
                            /\ p.att = Bitcoin(b.height, b.block.id)
                            /\ p.cal \in b.block.has
                            /\ n.height = b.height
                            /\ n.id = b.block.id
                            /\ n.time = b.block.time
BY DEF Shown

LEMMA VerifyKept ==
  ASSUME ClientInv, mined \subseteq mined', proof \subseteq proof', UNCHANGED <<seen, best>>,
         result' = result \/ ~result'.valid
  PROVE  VerifyInv'
<1>1. \A n \in seen' : n.status = "confirmed" => Shown(n)
  BY DEF ClientInv, VerifyInv
<1>2. result'.valid => Shown(result')
  BY DEF ClientInv, VerifyInv
<1>3. BestInv'
  BY DEF ClientInv, VerifyInv, BestInv, Confirmed
<1> QED BY <1>1, <1>2, <1>3, ShownStays DEF VerifyInv, Shown

LEMMA MinedKept ==
  ASSUME ClientInv, UNCHANGED network
  PROVE  MinedInv' /\ mined' = mined /\ chain' = chain
BY DEF ClientInv, MinedInv, network

\* The client's own steps that touch neither stores nor proof.
LEMMA QuietStep ==
  ASSUME ClientInv, UNCHANGED <<network, held, cache, proof>>, UNCHANGED <<seen, best>>,
         result' = result \/ ~result'.valid, pc' = "stamp" => proof = {}
  PROVE  MinedInv' /\ RootInv' /\ VerifyInv' /\ StampInv'
<1>1. MinedInv' /\ mined' = mined
  BY MinedKept
<1>2. RootInv'
  BY <1>1 DEF ClientInv, RootInv, Rooted
<1>3. VerifyInv'
  BY <1>1, VerifyKept
<1>4. StampInv'
  BY DEF StampInv
<1> QED BY <1>1, <1>2, <1>3, <1>4

\* TypeOK, by the part of the system it is about.
EnvironmentOK ==
  /\ chain \in Seq(Block) /\ Len(chain) <= MaxHeight
  /\ held \in [Calendar -> SUBSET Att]
  /\ cache \in [Calendar -> SUBSET Att]
  /\ proof \subseteq [cal: Calendar, att: Att]
  /\ faults \in 0..MaxFaults

CallsOK ==
  /\ pc \in {"idle", "stamp", "upgrade", "wait", "check"}
  /\ via \in Upgrader
  /\ next \in {"once", "poll", "verify"}
  /\ calls \subseteq Calendar
  /\ replies \subseteq Calendar

VerifyOK ==
  /\ headers \in BOOLEAN
  /\ checks \subseteq proof
  /\ seen \subseteq Note
  /\ best \subseteq Note
  /\ result \in [valid: BOOLEAN, status: (Status \ {"unknown"}) \cup {"none"},
                 time: Nat, height: Nat, id: Nat]

LEMMA TypePartsNext == TypeOK' <=> EnvironmentOK' /\ CallsOK' /\ VerifyOK'
BY DEF TypeOK, EnvironmentOK, CallsOK, VerifyOK

LEMMA FaultsBounded ==
  ASSUME ClientInv, NEW kind, NoFault \/ Fault(kind)
  PROVE  faults' \in 0..MaxFaults
BY ProofClientAssumption DEF ClientInv, TypeOK, NoFault, Fault

LEMMA EnvironmentKept ==
  ASSUME ClientInv, UNCHANGED <<network, held, cache, proof>>, faults' \in 0..MaxFaults
  PROVE  EnvironmentOK'
BY DEF ClientInv, TypeOK, EnvironmentOK, network

LEMMA VerifyOKKept ==
  ASSUME ClientInv, proof \subseteq proof', UNCHANGED verifyVars
  PROVE  VerifyOK'
BY DEF ClientInv, TypeOK, VerifyOK, verifyVars

\* The kinds of attestation a calendar stores.
LEMMA AttOK ==
  ASSUME NEW h \in Nat, NEW m \in Int
  PROVE  Pending \in Att /\ Litecoin \in Att /\ Unknown \in Att /\ Bitcoin(h, m) \in Att
BY DEF Pending, Litecoin, Unknown, Bitcoin, Att, Junk

-----------------------------------------------------------------------------
(***************************************************************************)
(* Starting an operation: only the client's control state changes.         *)
(***************************************************************************)
LEMMA StampStartStep ==
  ASSUME ClientInv, StampStart
  PROVE  ClientInv'
<1>1. /\ proof = {} /\ pc' = "stamp" /\ calls' \subseteq Calendar
      /\ UNCHANGED <<network, held, cache, proof, via, next, replies, verifyVars, faults>>
  BY DEF StampStart
<1>2. faults' \in 0..MaxFaults
  BY <1>1 DEF ClientInv, TypeOK
<1>3. EnvironmentOK' /\ VerifyOK'
  BY <1>1, <1>2, EnvironmentKept, VerifyOKKept
<1>4. CallsOK'
  BY <1>1 DEF ClientInv, TypeOK, CallsOK
<1>5. MinedInv' /\ RootInv' /\ VerifyInv' /\ StampInv'
  BY <1>1, QuietStep DEF verifyVars
<1> QED BY <1>3, <1>4, <1>5, TypePartsNext DEF ClientInv

LEMMA StartUpgradeCalls ==
  ASSUME ClientInv, NEW whom \in Upgrader, NEW after \in {"once", "poll", "verify"},
         StartUpgrade(whom, after), UNCHANGED replies
  PROVE  CallsOK' /\ pc' = "upgrade"
BY DEF StartUpgrade, PendingAt, ClientInv, TypeOK, CallsOK

LEMMA UpgradeStartStep ==
  ASSUME ClientInv, UpgradeStart
  PROVE  ClientInv'
<1>1. /\ result' = NoResult
      /\ UNCHANGED <<network, held, cache, proof, replies, headers, checks, seen,
                     best, faults>>
  BY DEF UpgradeStart
<1>2. CallsOK' /\ pc' = "upgrade"
  BY <1>1, StartUpgradeCalls DEF UpgradeStart
<1>3. faults' \in 0..MaxFaults
  BY <1>1 DEF ClientInv, TypeOK
<1>4. VerifyOK'
  BY <1>1, NoResultOK DEF ClientInv, TypeOK, VerifyOK
<1>5. MinedInv' /\ RootInv' /\ VerifyInv' /\ StampInv'
  BY <1>1, <1>2, NoResultOK, QuietStep
<1> QED BY <1>1, <1>2, <1>3, <1>4, <1>5, EnvironmentKept, TypePartsNext DEF ClientInv

\* The steps of Upgrade and of UpgradeUntilConfirmed between two calls.
LEMMA ControlStep ==
  ASSUME ClientInv, CallsOK', pc' # "stamp",
         UNCHANGED <<network, held, cache, proof, verifyVars, faults>>
  PROVE  ClientInv'
<1>1. faults' \in 0..MaxFaults
  BY DEF ClientInv, TypeOK
<1>2. EnvironmentOK' /\ VerifyOK'
  BY <1>1, EnvironmentKept, VerifyOKKept
<1>3. MinedInv' /\ RootInv' /\ VerifyInv' /\ StampInv'
  BY QuietStep DEF verifyVars
<1> QED BY <1>2, <1>3, TypePartsNext DEF ClientInv

LEMMA PollSteps ==
  ASSUME ClientInv, UpgradeDone \/ PollAgain \/ PollExpires
  PROVE  ClientInv'
<1>1. CASE UpgradeDone
  <2>1. CallsOK' /\ pc' # "stamp"
    BY <1>1 DEF UpgradeDone, Forget, ClientInv, TypeOK, CallsOK, Upgrader
  <2> QED BY <1>1, <2>1, ControlStep DEF UpgradeDone
<1>2. CASE PollAgain
  <2>1. via \in Upgrader
    BY DEF ClientInv, TypeOK
  <2>2. CallsOK' /\ pc' = "upgrade"
    BY <1>2, <2>1, StartUpgradeCalls DEF PollAgain
  <2> QED BY <1>2, <2>2, ControlStep DEF PollAgain
<1>3. CASE PollExpires
  <2>1. CallsOK' /\ pc' # "stamp"
    BY <1>3 DEF PollExpires, Forget, ClientInv, TypeOK, CallsOK, Upgrader
  <2> QED BY <1>3, <2>1, ControlStep DEF PollExpires
<1> QED BY <1>1, <1>2, <1>3

LEMMA VerifyMismatchStep ==
  ASSUME ClientInv, VerifyMismatch
  PROVE  ClientInv'
<1>1. /\ pc' = "idle" /\ result' = Verdict("invalid")
      /\ UNCHANGED <<network, held, cache, proof, via, next, calls, replies, headers,
                     checks, seen, best, faults>>
  BY DEF VerifyMismatch
<1>2. faults' \in 0..MaxFaults
  BY <1>1 DEF ClientInv, TypeOK
<1>3. CallsOK'
  BY <1>1 DEF ClientInv, TypeOK, CallsOK
<1>4. VerifyOK' /\ ~result'.valid
  BY <1>1, NoResultOK DEF ClientInv, TypeOK, VerifyOK
<1>5. MinedInv' /\ RootInv' /\ VerifyInv' /\ StampInv'
  BY <1>1, <1>4, QuietStep
<1> QED BY <1>1, <1>2, <1>3, <1>4, <1>5, EnvironmentKept, TypePartsNext DEF ClientInv

LEMMA VerifyStartStep ==
  ASSUME ClientInv, VerifyStart
  PROVE  ClientInv'
<1>1. /\ result' = NoResult /\ headers' \in BOOLEAN
      /\ UNCHANGED <<network, held, cache, proof, replies, seen, best, faults>>
  BY DEF VerifyStart
<1>2. CallsOK' /\ pc' # "stamp" /\ checks' \in {checks, proof}
  <2>1. ASSUME NEW whom \in Upgrader, StartUpgrade(whom, "verify")
        PROVE  CallsOK' /\ pc' # "stamp"
    BY <1>1, <2>1, StartUpgradeCalls
  <2>2. ASSUME pc' = "check", UNCHANGED <<via, next, calls>>
        PROVE  CallsOK' /\ pc' # "stamp"
    BY <1>1, <2>2 DEF ClientInv, TypeOK, CallsOK
  <2> QED BY <2>1, <2>2 DEF VerifyStart
<1>3. faults' \in 0..MaxFaults
  BY <1>1 DEF ClientInv, TypeOK
<1>4. VerifyOK' /\ ~result'.valid
  BY <1>1, <1>2, NoResultOK DEF ClientInv, TypeOK, VerifyOK
<1>5. MinedInv' /\ RootInv' /\ VerifyInv' /\ StampInv'
  BY <1>1, <1>2, <1>4, QuietStep
<1> QED BY <1>1, <1>2, <1>3, <1>4, <1>5, EnvironmentKept, TypePartsNext DEF ClientInv

LEMMA VerifyUpgradedStep ==
  ASSUME ClientInv, VerifyUpgraded
  PROVE  ClientInv'
<1>1. /\ pc' = "check" /\ checks' = proof /\ via' = Pool /\ next' = "once"
      /\ UNCHANGED <<network, held, cache, proof, calls, replies, headers, seen,
                     best, result, faults>>
  BY DEF VerifyUpgraded, Forget
<1>2. faults' \in 0..MaxFaults
  BY <1>1 DEF ClientInv, TypeOK
<1>3. CallsOK'
  BY <1>1 DEF ClientInv, TypeOK, CallsOK, Upgrader
<1>4. VerifyOK'
  BY <1>1 DEF ClientInv, TypeOK, VerifyOK
<1>5. MinedInv' /\ RootInv' /\ VerifyInv' /\ StampInv'
  BY <1>1, QuietStep
<1> QED BY <1>1, <1>2, <1>3, <1>4, <1>5, EnvironmentKept, TypePartsNext DEF ClientInv

-----------------------------------------------------------------------------
(***************************************************************************)
(* The comparison with a header: an attestation is confirmed only by the   *)
(* block of that height whose root is its message, and that block is the   *)
(* one that has the calendar's commitment, since ids are unique.           *)
(***************************************************************************)
LEMMA UnconfirmedOK ==
  \A status \in Status \ {"confirmed"} :
    Unconfirmed(status) \in Note /\ Unconfirmed(status).status = status
BY DEF Unconfirmed, Note

LEMMA ConfirmedIsShown ==
  ASSUME ClientInv, NEW p \in proof, p.att.kind = "bitcoin"
  PROVE  /\ verifyBitcoin(p.att) \in Note
         /\ verifyBitcoin(p.att).status = "confirmed" => Shown(verifyBitcoin(p.att))
<1> DEFINE a == p.att
<1>1. CASE ~headers
  BY <1>1, UnconfirmedOK DEF verifyBitcoin, Status
<1>2. CASE headers /\ a.msg = Short
  BY <1>2, UnconfirmedOK DEF verifyBitcoin, Status
<1>3. CASE headers /\ a.msg # Short /\ a.height \notin DOMAIN chain
  BY <1>3, UnconfirmedOK DEF verifyBitcoin, CompareHeader, Status
<1>4. CASE headers /\ a.msg # Short /\ a.height \in DOMAIN chain
           /\ chain[a.height].id # a.msg
  BY <1>4, UnconfirmedOK DEF verifyBitcoin, CompareHeader, Status
<1>5. CASE headers /\ a.msg # Short /\ a.height \in DOMAIN chain
           /\ chain[a.height].id = a.msg
  <2> DEFINE b == [block |-> chain[a.height], height |-> a.height]
             n == [status |-> "confirmed", time |-> chain[a.height].time,
                   height |-> a.height, id |-> a.msg]
  <2>1. verifyBitcoin(a) = n
    BY <1>5 DEF verifyBitcoin, CompareHeader
  <2>2. b \in mined /\ b.block = chain[a.height] /\ b.height = a.height
    BY <1>5 DEF ClientInv, MinedInv
  <2>3. /\ b.block.id \in 1..Cardinality(mined) /\ Cardinality(mined) \in Nat
        /\ b.block \in Block /\ b.height \in Nat
    BY <2>2, FS_CardinalityType DEF ClientInv, MinedInv
  <2>4. a.msg \notin {Junk, Short}
    BY <1>5, <2>2, <2>3 DEF Junk
  <2>5. PICK d \in mined : d.block.id = a.msg /\ p.cal \in d.block.has
    BY <2>4 DEF ClientInv, RootInv, Rooted
  <2>6. d = b
    BY <1>5, <2>2, <2>5 DEF ClientInv, MinedInv
  <2>7. a \in Att
    BY DEF ClientInv, TypeOK
  <2>8. a = Bitcoin(b.height, b.block.id)
    BY <1>5, <2>2, <2>7 DEF Bitcoin, Att
  <2>9. n \in Note
    BY <1>5, <2>2, <2>3, ProofClientAssumption DEF Note, Status, Block
  <2>10. Shown(n)
    BY <1>5, <2>2, <2>5, <2>6, <2>8 DEF Shown
  <2> QED BY <2>1, <2>9, <2>10
<1> QED BY <1>1, <1>2, <1>3, <1>4, <1>5

(***************************************************************************)
(* One turn of the loop: comparing with the block kept so far is enough to *)
(* keep the earliest of all.                                               *)
(***************************************************************************)
LEMMA KeepsEarliest ==
  ASSUME ClientInv, NEW n \in Note, Found(n)
  PROVE  BestInv'
<1>1. BestInv /\ seen \subseteq Note /\ best \subseteq Note
  BY DEF ClientInv, VerifyInv, TypeOK
<1>2. \A m \in Note : m.time \in Nat
  BY DEF Note
<1>3. CASE n.status # "confirmed"
  <2>1. best' = best /\ Confirmed' = Confirmed
    BY <1>3 DEF Found, KeepEarlier, Confirmed
  <2> QED BY <1>1, <2>1 DEF BestInv
<1>4. CASE n.status = "confirmed" /\ \A b \in best : n.time < b.time
  <2>1. best' = {n} /\ Confirmed' = Confirmed \cup {n}
    BY <1>4 DEF Found, KeepEarlier, Confirmed
  <2>2. \A m \in Confirmed : n.time <= m.time
    BY <1>1, <1>2, <1>4 DEF BestInv, Confirmed
  <2>3. n.time <= n.time
    BY <1>2
  <2> QED BY <2>1, <2>2, <2>3 DEF BestInv
<1>5. CASE n.status = "confirmed" /\ ~(\A b \in best : n.time < b.time)
  <2>1. best' = best /\ Confirmed' = Confirmed \cup {n}
    BY <1>5 DEF Found, KeepEarlier, Confirmed
  <2>2. PICK c \in best : c.time <= n.time
    BY <1>1, <1>2, <1>5
  <2>3. \A b \in best : b.time <= n.time
    BY <1>1, <1>2, <2>2 DEF BestInv
  <2> QED BY <1>1, <2>1, <2>2, <2>3 DEF BestInv
<1> QED BY <1>3, <1>4, <1>5

LEMMA CheckStep ==
  ASSUME ClientInv, NEW p \in proof, CheckAttestation(p)
  PROVE  ClientInv'
<1>1. /\ pc = "check" /\ checks' \subseteq checks
      /\ UNCHANGED <<network, held, cache, proof, pc, via, next, calls, replies,
                     headers, result>>
  BY DEF CheckAttestation
<1>2. faults' \in 0..MaxFaults
  BY FaultsBounded DEF CheckAttestation
<1>3. PICK n : Found(n) /\ n \in Note /\ (n.status = "confirmed" => Shown(n))
  <2>1. p.att.kind \in {"pending", "bitcoin", "litecoin", "unknown"}
    BY DEF ClientInv, TypeOK, Att
  <2>2. CASE Found(Unconfirmed("unverified"))
    BY <2>2, UnconfirmedOK DEF Status
  <2>3. CASE Found(StatusOf(p.att))
    <3>1. CASE p.att.kind = "bitcoin"
      <4>1. StatusOf(p.att) = verifyBitcoin(p.att)
        BY <3>1 DEF StatusOf
      <4> QED BY <2>3, <3>1, <4>1, ConfirmedIsShown
    <3>2. CASE p.att.kind # "bitcoin"
      <4>1. \E status \in {"pending", "unverified", "unknown"} :
              StatusOf(p.att) = Unconfirmed(status)
        BY <2>1, <3>2 DEF StatusOf
      <4> QED BY <2>3, <4>1, UnconfirmedOK DEF Status
    <3> QED BY <3>1, <3>2
  <2> QED BY <2>2, <2>3 DEF CheckAttestation
<1>4. EnvironmentOK' /\ CallsOK' /\ VerifyOK'
  <2>1. VerifyOK'
    BY <1>1, <1>3 DEF Found, KeepEarlier, ClientInv, TypeOK, VerifyOK
  <2>2. CallsOK'
    BY <1>1 DEF ClientInv, TypeOK, CallsOK
  <2> QED BY <1>1, <1>2, <2>1, <2>2, EnvironmentKept
<1>5. MinedInv' /\ RootInv' /\ mined' = mined
  BY <1>1, MinedKept DEF ClientInv, RootInv, Rooted
<1>6. VerifyInv'
  <2>1. \A m \in seen' : m.status = "confirmed" => Shown(m)
    BY <1>3 DEF Found, ClientInv, VerifyInv
  <2>2. result'.valid => Shown(result')
    BY <1>1 DEF ClientInv, VerifyInv
  <2>3. BestInv'
    BY <1>3, KeepsEarliest
  <2> QED BY <1>1, <1>5, <2>1, <2>2, <2>3 DEF VerifyInv, Shown
<1>7. StampInv'
  BY <1>1 DEF StampInv
<1> QED BY <1>4, <1>5, <1>6, <1>7, TypePartsNext DEF ClientInv

LEMMA VerifyDoneStep ==
  ASSUME ClientInv, VerifyDone
  PROVE  ClientInv'
<1>1. /\ pc' = "idle" /\ headers' = FALSE /\ seen' = {} /\ best' = {}
      /\ UNCHANGED <<network, held, cache, proof, via, next, calls, replies, checks,
                     faults>>
  BY DEF VerifyDone
<1>2. /\ result' \in [valid: BOOLEAN, status: (Status \ {"unknown"}) \cup {"none"},
                      time: Nat, height: Nat, id: Nat]
      /\ result'.valid => Shown(result')
  <2>1. ASSUME NEW n \in best,
               result' = [valid |-> TRUE, status |-> "confirmed", time |-> n.time,
                          height |-> n.height, id |-> n.id]
        PROVE  /\ result' \in [valid: BOOLEAN,
                              status: (Status \ {"unknown"}) \cup {"none"},
                              time: Nat, height: Nat, id: Nat]
               /\ result'.valid => Shown(result')
    <3>1. n \in seen /\ n.status = "confirmed" /\ n \in Note
      BY DEF VerifyInv, BestInv, Confirmed, ClientInv, TypeOK
    <3>2. Shown(n)
      BY <3>1 DEF ClientInv, VerifyInv
    <3> QED BY <2>1, <3>1, <3>2 DEF Shown, Note, Status
  <2>2. CASE result' = Verdict(Overall)
    <3>1. Overall \in {"invalid", "pending", "unverified"}
      BY DEF Overall
    <3> QED BY <2>2, <3>1, NoResultOK
  <2> QED BY <2>1, <2>2 DEF VerifyDone
<1>3. faults' \in 0..MaxFaults
  BY <1>1 DEF ClientInv, TypeOK
<1>4. EnvironmentOK' /\ CallsOK' /\ VerifyOK'
  <2>1. VerifyOK'
    BY <1>1, <1>2 DEF ClientInv, TypeOK, VerifyOK
  <2>2. CallsOK'
    BY <1>1 DEF ClientInv, TypeOK, CallsOK
  <2> QED BY <1>1, <1>3, <2>1, <2>2, EnvironmentKept
<1>5. MinedInv' /\ RootInv' /\ mined' = mined
  BY <1>1, MinedKept DEF ClientInv, RootInv, Rooted
<1>6. VerifyInv' /\ StampInv'
  BY <1>1, <1>2, <1>5 DEF VerifyInv, BestInv, Confirmed, Shown, StampInv
<1> QED BY <1>4, <1>5, <1>6, TypePartsNext DEF ClientInv

-----------------------------------------------------------------------------
(***************************************************************************)
(* Calls to calendars: the stores, the cache and the proof change, and     *)
(* every attestation keeps its root.                                       *)
(***************************************************************************)
LEMMA SubmitStep ==
  ASSUME ClientInv, NEW c \in Calendar, SubmitCall(c)
  PROVE  ClientInv'
<1>1. /\ pc = "stamp" /\ calls' = calls \ {c} /\ replies' \in {replies, replies \cup {c}}
      /\ held' = [held EXCEPT ![c] = @ \cup {Pending}] \/ held' = held
      /\ UNCHANGED <<network, cache, proof, pc, via, next, verifyVars>>
  BY DEF SubmitCall
<1>2. faults' \in 0..MaxFaults
  BY FaultsBounded DEF SubmitCall
<1>3. /\ held' \in [Calendar -> SUBSET Att]
      /\ \A d \in Calendar : held'[d] \subseteq held[d] \cup {Pending}
  <2>1. Pending \in Att
    BY AttOK
  <2> QED BY <1>1, <2>1 DEF ClientInv, TypeOK
<1>4. EnvironmentOK'
  BY <1>1, <1>2, <1>3 DEF ClientInv, TypeOK, EnvironmentOK, network
<1>5. CallsOK'
  BY <1>1 DEF ClientInv, TypeOK, CallsOK
<1>6. VerifyOK' /\ MinedInv' /\ mined' = mined
  BY <1>1, VerifyOKKept, MinedKept
<1>7. RootInv'
  <2>1. \A d : Rooted(d, Pending)
    BY DEF Rooted, Pending
  <2>2. \A d \in Calendar : \A a \in held'[d] : Rooted(d, a)
    BY <1>3, <2>1 DEF ClientInv, RootInv
  <2> QED BY <1>1, <1>6, <2>2 DEF ClientInv, RootInv, Rooted
<1>8. VerifyInv'
  BY <1>1, <1>6, VerifyKept DEF verifyVars
<1>9. StampInv'
  BY <1>1 DEF ClientInv, StampInv
<1> QED BY <1>4, <1>5, <1>6, <1>7, <1>8, <1>9, TypePartsNext DEF ClientInv

LEMMA StampDoneStep ==
  ASSUME ClientInv, StampDone
  PROVE  ClientInv'
<1>1. /\ pc = "stamp" /\ pc' = "idle" /\ replies' = {}
      /\ proof' \in {proof, MergedReplies}
      /\ UNCHANGED <<network, held, cache, via, next, calls, verifyVars, faults>>
  BY DEF StampDone
<1>2. proof = {} /\ replies \subseteq Calendar
  BY <1>1 DEF ClientInv, StampInv, TypeOK
<1>3. \A p \in MergedReplies : p.cal \in Calendar /\ p.att = Pending
  BY <1>2 DEF MergedReplies
<1>4. proof' \subseteq [cal: Calendar, att: Att]
  <2>1. Pending \in Att
    BY AttOK
  <2>2. MergedReplies \subseteq [cal: Calendar, att: Att]
    BY <1>2, <2>1 DEF MergedReplies
  <2> QED BY <1>1, <1>2, <2>2
<1>5. EnvironmentOK'
  BY <1>1, <1>4 DEF ClientInv, TypeOK, EnvironmentOK, network
<1>6. CallsOK'
  BY <1>1 DEF ClientInv, TypeOK, CallsOK
<1>7. VerifyOK' /\ MinedInv' /\ mined' = mined
  BY <1>1, <1>2, VerifyOKKept, MinedKept
<1>8. RootInv'
  <2>1. \A d : Rooted(d, Pending)
    BY DEF Rooted, Pending
  <2>2. \A p \in proof' : Rooted(p.cal, p.att)
    BY <1>1, <1>2, <1>3, <2>1
  <2> QED BY <1>1, <1>7, <2>2 DEF ClientInv, RootInv, Rooted
<1>9. VerifyInv'
  BY <1>1, <1>2, <1>7, VerifyKept DEF verifyVars
<1>10. StampInv'
  BY <1>1 DEF StampInv
<1> QED BY <1>5, <1>6, <1>7, <1>8, <1>9, <1>10, TypePartsNext DEF ClientInv

LEMMA AnswerOK ==
  ASSUME ClientInv, NEW c \in Calendar
  PROVE  Answer(c) \subseteq Att /\ \A a \in Answer(c) : Rooted(c, a)
BY DEF Answer, ClientInv, TypeOK, RootInv

LEMMA UpgradeCallStep ==
  ASSUME ClientInv, NEW c \in Calendar, UpgradeCall(c)
  PROVE  ClientInv'
<1>1. /\ pc = "upgrade" /\ calls' = calls \ {c}
      /\ proof' \in {proof, MergeBranch(c, Answer(c))}
      /\ cache' = [cache EXCEPT ![c] = Answer(c)] \/ cache' = cache
      /\ UNCHANGED <<network, held, pc, via, next, replies, verifyVars>>
  BY DEF UpgradeCall
<1>2. faults' \in 0..MaxFaults
  BY FaultsBounded DEF UpgradeCall
<1>3. Answer(c) \subseteq Att /\ \A a \in Answer(c) : Rooted(c, a)
  BY AnswerOK
<1>4. /\ proof \subseteq proof' /\ proof' \subseteq [cal: Calendar, att: Att]
      /\ \A p \in proof' : Rooted(p.cal, p.att)
  <2>1. {[cal |-> c, att |-> a] : a \in Answer(c)} \subseteq [cal: Calendar, att: Att]
    BY <1>3
  <2>2. \A p \in {[cal |-> c, att |-> a] : a \in Answer(c)} : Rooted(p.cal, p.att)
    BY <1>3
  <2> QED BY <1>1, <2>1, <2>2 DEF MergeBranch, ClientInv, TypeOK, RootInv
<1>5. /\ cache' \in [Calendar -> SUBSET Att]
      /\ \A d \in Calendar : \A a \in cache'[d] : Rooted(d, a)
  BY <1>1, <1>3 DEF ClientInv, TypeOK, RootInv
<1>6. EnvironmentOK'
  BY <1>1, <1>2, <1>4, <1>5 DEF ClientInv, TypeOK, EnvironmentOK, network
<1>7. CallsOK'
  BY <1>1 DEF ClientInv, TypeOK, CallsOK
<1>8. VerifyOK' /\ MinedInv' /\ mined' = mined
  BY <1>1, <1>4, VerifyOKKept, MinedKept
<1>9. RootInv'
  BY <1>1, <1>4, <1>5, <1>8 DEF ClientInv, RootInv, Rooted
<1>10. VerifyInv' /\ StampInv'
  BY <1>1, <1>4, <1>8, VerifyKept DEF verifyVars, StampInv
<1> QED BY <1>6, <1>7, <1>8, <1>9, <1>10, TypePartsNext DEF ClientInv

-----------------------------------------------------------------------------
(***************************************************************************)
(* The environment: the client's variables stay.                           *)
(***************************************************************************)
LEMMA ClientKept ==
  ASSUME ClientInv, UNCHANGED client
  PROVE  CallsOK' /\ VerifyOK' /\ StampInv'
BY DEF ClientInv, TypeOK, CallsOK, VerifyOK, StampInv, client, verifyVars

LEMMA ExtendStep ==
  ASSUME ClientInv, NEW base \in Seq(Block), Len(base) + 1 <= MaxHeight,
         \A h \in DOMAIN base : [block |-> base[h], height |-> h] \in mined,
         NEW t \in Time, NEW has \in SUBSET Calendar, Extend(base, t, has),
         faults' \in 0..MaxFaults, UNCHANGED <<held, cache, client>>
  PROVE  ClientInv'
<1> DEFINE block == [id |-> NextId, time |-> t, has |-> has]
           new == [block |-> block, height |-> Len(base) + 1]
<1>1. chain' = Append(base, block) /\ mined' = mined \cup {new}
  BY DEF Extend
<1>2. Cardinality(mined) \in Nat /\ NextId = Cardinality(mined) + 1 /\ Len(base) \in Nat
  BY FS_CardinalityType, LenProperties DEF ClientInv, MinedInv, NextId
<1>3. block \in Block /\ new \in [block: Block, height: Nat]
  BY <1>2 DEF Block
<1>4. new.block.id = Cardinality(mined) + 1
  BY <1>2
<1>5. \A d \in mined : d.block.id # new.block.id
  BY <1>2, <1>4 DEF ClientInv, MinedInv
<1>6. IsFiniteSet(mined') /\ Cardinality(mined') = Cardinality(mined) + 1
  BY <1>1, <1>5, FS_AddElement DEF ClientInv, MinedInv
<1>7. /\ chain' \in Seq(Block) /\ Len(chain') = Len(base) + 1
      /\ \A h \in DOMAIN chain' : [block |-> chain'[h], height |-> h] \in mined'
  <2>1. /\ chain' \in Seq(Block) /\ Len(chain') = Len(base) + 1
        /\ \A h \in 1..Len(base) : chain'[h] = base[h]
        /\ chain'[Len(base) + 1] = block
    BY <1>1, <1>3, AppendProperties
  <2>2. DOMAIN chain' = 1..(Len(base) + 1) /\ DOMAIN base = 1..Len(base)
    BY <2>1, LenProperties
  <2>3. ASSUME NEW h \in DOMAIN chain'
        PROVE  [block |-> chain'[h], height |-> h] \in mined'
    <3>1. CASE h = Len(base) + 1
      BY <1>1, <2>1, <3>1
    <3>2. CASE h # Len(base) + 1
      <4>1. h \in DOMAIN base /\ chain'[h] = base[h]
        BY <1>2, <2>1, <2>2, <3>2
      <4> QED BY <1>1, <4>1
    <3> QED BY <3>1, <3>2
  <2> QED BY <2>1, <2>3
<1> HIDE DEF block, new
<1>8. MinedInv'
  <2>1. mined' \subseteq [block: Block, height: Nat]
    BY <1>1, <1>3 DEF ClientInv, MinedInv
  <2>2. \A d \in mined' : d.block.id \in 1..Cardinality(mined')
    BY <1>1, <1>2, <1>4, <1>6 DEF ClientInv, MinedInv
  <2>3. \A d, e \in mined' : d.block.id = e.block.id => d = e
    BY <1>1, <1>5 DEF ClientInv, MinedInv
  <2> QED BY <1>6, <1>7, <2>1, <2>2, <2>3 DEF MinedInv
<1>9. proof' = proof /\ UNCHANGED <<seen, best>> /\ result' = result /\ mined \subseteq mined'
  BY <1>1 DEF client, verifyVars
<1>10. EnvironmentOK'
  BY <1>7, <1>9 DEF ClientInv, TypeOK, EnvironmentOK
<1>11. RootInv'
  BY <1>9 DEF ClientInv, RootInv, Rooted
<1>12. VerifyInv'
  BY <1>9, VerifyKept
<1> QED BY <1>8, <1>10, <1>11, <1>12, ClientKept, TypePartsNext DEF ClientInv

\* A sequence without its last element.
LEMMA CutLast ==
  ASSUME NEW S, NEW s \in Seq(S), s # <<>>
  PROVE  /\ SubSeq(s, 1, Len(s) - 1) \in Seq(S)
         /\ \A i \in DOMAIN SubSeq(s, 1, Len(s) - 1) :
              i \in DOMAIN s /\ SubSeq(s, 1, Len(s) - 1)[i] = s[i]
<1> DEFINE n == Len(s) - 1
           t == SubSeq(s, 1, n)
<1>1. Len(s) \in Nat /\ Len(s) # 0 /\ DOMAIN s = 1..Len(s)
  BY EmptySeq, LenProperties
<1>2. n \in Nat /\ Len(s) = n + 1
  BY <1>1
<1>3. \A i \in 1..n : s[i] \in S
  BY <1>1, <1>2, ElementOfSeq
<1> HIDE DEF n
<1>4. /\ t \in Seq(S) /\ Len(t) = IF 1 <= n THEN n - 1 + 1 ELSE 0
      /\ \A i \in 1..(n - 1 + 1) : t[i] = s[1 + i - 1]
  BY <1>2, <1>3, SubSeqProperties
<1> HIDE DEF t
<1>5. Len(t) = n /\ \A i \in 1..n : t[i] = s[i]
  BY <1>2, <1>4
<1>6. DOMAIN t = 1..n
  BY <1>4, <1>5, LenProperties
<1>7. \A i \in DOMAIN t : i \in DOMAIN s /\ t[i] = s[i]
  BY <1>1, <1>2, <1>5, <1>6
<1> QED BY <1>4, <1>7 DEF t, n

LEMMA RoomLeft ==
  ASSUME NEW base \in Seq(Block), NEW has, LeavesRoom(base, has)
  PROVE  Len(base) + 1 <= MaxHeight
<1>1. Cardinality(Calendar \ (Included(base) \cup has)) \in Nat
  BY FS_Subset, FS_CardinalityType, ProofClientAssumption
<1>2. Len(base) \in Nat
  BY LenProperties
<1> QED BY <1>1, <1>2, ProofClientAssumption DEF LeavesRoom

LEMMA MineStep ==
  ASSUME ClientInv, Mine \/ Reorganise
  PROVE  ClientInv'
<1>1. faults' \in 0..MaxFaults /\ UNCHANGED <<held, cache, client>>
  BY FaultsBounded DEF Mine, Reorganise
<1>2. chain \in Seq(Block) /\ Received \subseteq Calendar
  BY DEF ClientInv, TypeOK, Received
<1>3. \A h \in DOMAIN chain : [block |-> chain[h], height |-> h] \in mined
  BY DEF ClientInv, MinedInv
<1>4. CASE Mine
  <2>1. PICK t \in Time, has \in SUBSET (Received \ Included(chain)) :
          LeavesRoom(chain, has) /\ Extend(chain, t, has)
    BY <1>4 DEF Mine
  <2>2. has \in SUBSET Calendar
    BY <1>2
  <2> QED BY <1>1, <1>2, <1>3, <2>1, <2>2, RoomLeft, ExtendStep
<1>5. CASE Reorganise
  <2> DEFINE base == SubSeq(chain, 1, Len(chain) - 1)
  <2>1. PICK t \in Time, has \in SUBSET (Received \ Included(base)) :
          LeavesRoom(base, has) /\ Extend(base, t, has)
    BY <1>5 DEF Reorganise
  <2>2. has \in SUBSET Calendar
    BY <1>2
  <2>3. base \in Seq(Block) /\ \A h \in DOMAIN base : h \in DOMAIN chain /\ base[h] = chain[h]
    <3>1. chain # <<>>
      BY <1>5 DEF Reorganise
    <3> QED BY <1>2, <3>1, CutLast
  <2> HIDE DEF base
  <2>4. \A h \in DOMAIN base : [block |-> base[h], height |-> h] \in mined
    BY <1>3, <2>3
  <2> QED BY <1>1, <2>1, <2>2, <2>3, <2>4, RoomLeft, ExtendStep
<1> QED BY <1>4, <1>5

\* A calendar stores what it can: every message is made up or has a path.
LEMMA StoreStep ==
  ASSUME ClientInv, NEW c \in Calendar, NEW atts \in SUBSET Att,
         \A a \in atts : Rooted(c, a),
         held' = [held EXCEPT ![c] = atts], faults' \in 0..MaxFaults,
         UNCHANGED <<network, cache, client>>
  PROVE  ClientInv'
<1>1. /\ held' \in [Calendar -> SUBSET Att]
      /\ \A d \in Calendar : \A a \in held'[d] : Rooted(d, a)
  BY DEF ClientInv, TypeOK, RootInv
<1>2. MinedInv' /\ mined' = mined /\ chain' = chain
  BY MinedKept
<1>3. proof' = proof /\ UNCHANGED <<seen, best>> /\ result' = result
  BY DEF client, verifyVars
<1>4. EnvironmentOK'
  BY <1>1, <1>2, <1>3 DEF ClientInv, TypeOK, EnvironmentOK
<1>5. RootInv'
  BY <1>1, <1>2, <1>3 DEF ClientInv, RootInv, Rooted
<1>6. VerifyInv'
  BY <1>2, <1>3, VerifyKept
<1> QED BY <1>2, <1>4, <1>5, <1>6, ClientKept, TypePartsNext DEF ClientInv

LEMMA AnchorStep ==
  ASSUME ClientInv, NEW c \in Calendar, Anchor(c)
  PROVE  ClientInv'
<1>1. PICK h \in DOMAIN chain :
        /\ c \in chain[h].has
        /\ held' = [held EXCEPT ![c] = @ \cup {Bitcoin(h, chain[h].id)}]
  BY DEF Anchor
<1>2. [block |-> chain[h], height |-> h] \in mined
  BY DEF ClientInv, MinedInv
<1>3. h \in Nat /\ chain[h].id \in Int
  BY <1>2 DEF ClientInv, MinedInv, Block
<1>4. Bitcoin(h, chain[h].id) \in Att
  BY <1>3, AttOK
<1>5. Rooted(c, Bitcoin(h, chain[h].id))
  BY <1>1, <1>2 DEF Rooted, Bitcoin
<1>6. /\ held[c] \cup {Bitcoin(h, chain[h].id)} \in SUBSET Att
      /\ \A a \in held[c] \cup {Bitcoin(h, chain[h].id)} : Rooted(c, a)
  BY <1>4, <1>5 DEF ClientInv, TypeOK, RootInv
<1>7. faults' \in 0..MaxFaults
  BY FaultsBounded DEF Anchor
<1> QED BY <1>1, <1>6, <1>7, StoreStep DEF Anchor

LEMMA LieStep ==
  ASSUME ClientInv, NEW c \in Calendar, Lie(c)
  PROVE  ClientInv'
<1>1. faults' \in 0..MaxFaults /\ UNCHANGED <<network, cache, client>>
  BY FaultsBounded DEF Lie
<1>2. PICK h \in 1..MaxHeight,
           m \in {Junk, Short} \cup
                 {b.block.id : b \in {d \in mined : c \in d.block.has}} :
        \/ \E a \in {Bitcoin(h, m), Litecoin, Unknown} : held' = [held EXCEPT ![c] = @ \cup {a}]
        \/ held' = [held EXCEPT ![c] = {Pending}]
  BY DEF Lie
<1>3. h \in Nat /\ m \in Int
  <2>1. \A d \in mined : d.block.id \in Int
    BY DEF ClientInv, MinedInv, Block
  <2> QED BY <2>1, ProofClientAssumption DEF Junk, Short
<1>4. Pending \in Att /\ Litecoin \in Att /\ Unknown \in Att /\ Bitcoin(h, m) \in Att
  BY <1>3, AttOK
<1>5. \A a \in {Pending, Litecoin, Unknown, Bitcoin(h, m)} : Rooted(c, a)
  <2>1. m \notin {Junk, Short} => \E d \in mined : d.block.id = m /\ c \in d.block.has
    OBVIOUS
  <2> QED BY <2>1 DEF Rooted, Pending, Litecoin, Unknown, Bitcoin
<1>6. \A a \in {Bitcoin(h, m), Litecoin, Unknown} :
        held[c] \cup {a} \in SUBSET Att /\ \A x \in held[c] \cup {a} : Rooted(c, x)
  BY <1>4, <1>5 DEF ClientInv, TypeOK, RootInv
<1>7. ASSUME NEW a \in {Bitcoin(h, m), Litecoin, Unknown}, held' = [held EXCEPT ![c] = @ \cup {a}]
      PROVE  ClientInv'
  BY <1>1, <1>6, <1>7, StoreStep
<1>8. CASE held' = [held EXCEPT ![c] = {Pending}]
  <2>1. {Pending} \in SUBSET Att /\ \A x \in {Pending} : Rooted(c, x)
    BY <1>4, <1>5
  <2> QED BY <1>1, <1>8, <2>1, StoreStep
<1> QED BY <1>2, <1>7, <1>8

-----------------------------------------------------------------------------
LEMMA ClientStepInv ==
  ASSUME ClientInv, [Next]_vars
  PROVE  ClientInv'
<1>1. CASE StampStart \/ UpgradeStart \/ VerifyStart \/ VerifyMismatch
  BY <1>1, StampStartStep, UpgradeStartStep, VerifyStartStep, VerifyMismatchStep
<1>2. CASE ClientStep
  <2>1. ASSUME NEW c \in Calendar, SubmitCall(c) \/ UpgradeCall(c)
        PROVE  ClientInv'
    BY <2>1, SubmitStep, UpgradeCallStep
  <2>2. ASSUME NEW p \in proof, CheckAttestation(p)
        PROVE  ClientInv'
    BY <2>2, CheckStep
  <2> QED BY <1>2, <2>1, <2>2, StampDoneStep, PollSteps, VerifyUpgradedStep,
             VerifyDoneStep DEF ClientStep
<1>3. CASE PollExpires \/ Mine \/ Reorganise
  BY <1>3, PollSteps, MineStep
<1>4. ASSUME NEW c \in Calendar, Anchor(c) \/ Lie(c)
      PROVE  ClientInv'
  BY <1>4, AnchorStep, LieStep
<1>5. CASE UNCHANGED vars
  <2>1. CallsOK' /\ pc' = pc
    BY <1>5 DEF vars, ClientInv, TypeOK, CallsOK
  <2>2. /\ UNCHANGED <<network, held, cache, proof, verifyVars>>
        /\ faults' \in 0..MaxFaults
    BY <1>5 DEF vars, ClientInv, TypeOK
  <2>3. EnvironmentOK' /\ VerifyOK'
    BY <2>2, EnvironmentKept, VerifyOKKept
  <2>4. MinedInv' /\ RootInv' /\ VerifyInv' /\ StampInv'
    BY <2>1, <2>2, QuietStep DEF verifyVars, ClientInv, StampInv
  <2> QED BY <2>1, <2>3, <2>4, TypePartsNext DEF ClientInv
<1> QED BY <1>1, <1>2, <1>3, <1>4, <1>5 DEF Next

(***************************************************************************)
(* Block ids are unique, no attestation is on the root of a block that     *)
(* does not commit to it, and what a verification has confirmed so far it  *)
(* can show, although chain and stores change while it runs.               *)
(***************************************************************************)
THEOREM ClientInvariant == Spec => []ClientInv
<1>1. Init => ClientInv
  BY ClientInit
<1>2. ClientInv /\ [Next]_vars => ClientInv'
  BY ClientStepInv
<1> QED BY <1>1, <1>2, PTL DEF Spec

(***************************************************************************)
(* The variables keep their types; in particular VerifyProof's overall     *)
(* status is never StatusUnknown.                                          *)
(***************************************************************************)
THEOREM ClientTypes == Spec => []TypeOK
<1>1. ClientInv => TypeOK
  BY DEF ClientInv
<1> QED BY <1>1, ClientInvariant, PTL

(***************************************************************************)
(* VerifyProof fails closed: valid means that the proof has an attestation *)
(* on the root of a real block of the reported height and time, which has  *)
(* the commitment, whatever calendars store and however the chain changes. *)
(***************************************************************************)
THEOREM VerifiedIsTrue == Spec => []FailClosed
<1>1. ClientInv => FailClosed
  BY DEF ClientInv, VerifyInv, Shown, FailClosed
<1> QED BY <1>1, ClientInvariant, PTL

(***************************************************************************)
(* VerifyProof's running minimum: if any attestation was confirmed the     *)
(* result is valid, and its time is not later than that of any confirmed   *)
(* block, in whatever order the attestations are met.                      *)
(***************************************************************************)
THEOREM EarliestTime == Spec => VerifiedAtEarliest
<1>1. ASSUME ClientInv, [Next]_vars, pc = "check", pc' = "idle", NEW n \in Confirmed
      PROVE  result'.valid /\ result'.time <= n.time
  <2>1. VerifyDone
    BY <1>1 DEF Next, StampStart, UpgradeStart, VerifyStart, VerifyMismatch, ClientStep,
       SubmitCall, StampDone, UpgradeCall, UpgradeDone, PollAgain, VerifyUpgraded,
       CheckAttestation, PollExpires, Mine, Reorganise, Anchor, Lie, client, vars
  <2>2. best # {}
    BY <1>1 DEF ClientInv, VerifyInv, BestInv
  <2>3. PICK b \in best :
          result' = [valid |-> TRUE, status |-> "confirmed", time |-> b.time,
                     height |-> b.height, id |-> b.id]
    BY <2>1, <2>2 DEF VerifyDone
  <2>4. b.time <= n.time
    BY <1>1 DEF ClientInv, VerifyInv, BestInv
  <2> QED BY <2>3, <2>4
<1>2. ClientInv /\ [Next]_vars =>
        [pc = "check" /\ pc' = "idle" =>
           \A n \in Confirmed : result'.valid /\ result'.time <= n.time]_vars
  BY <1>1
<1> QED BY <1>2, ClientInvariant, PTL DEF Spec, VerifiedAtEarliest
=============================================================================
