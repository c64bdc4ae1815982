---------------------------- MODULE ProofClient ----------------------------
(***************************************************************************)
(* The life of one proof on the client's side: pkg/ots (Pool and Client)   *)
(* and the relay's handlers stamp a digest with several calendars at once, *)
(* upgrade the pending attestations, and internal/verify decides what the  *)
(* proof is worth.  Calendars, the Bitcoin network and an HTTP cache in    *)
(* front of a calendar are the environment.                                *)
(*                                                                         *)
(* A proof is the set of its attestations, each with the calendar under    *)
(* whose commitment it hangs.  ProofMerge models the trees, Merge and      *)
(* findNode themselves and shows that what arrives is all in the proof,    *)
(* whatever its order and shape, which is what this set stands for.        *)
(* The message a Bitcoin attestation is on is the merkle root of the block *)
(* with that id; Junk stands for any other 32 bytes and Short for a        *)
(* message of another length.                                              *)
(***************************************************************************)
EXTENDS Integers, Sequences, FiniteSets

CONSTANTS
  Calendar,    \* the configured upstream calendars
  SelfNamed,   \* those whose attestations name the URL they are configured by
  Time,        \* values of nTime: they need not grow with the height
  MaxHeight,   \* bound: blocks in the chain
  Cached,      \* is there an HTTP cache in front of the calendars
  FaultKinds,  \* which faults may happen
  MaxFaults    \* bound: faults in one behaviour

ASSUME ProofClientAssumption ==
  /\ Calendar # {} /\ SelfNamed \subseteq Calendar
  /\ Time # {} /\ Time \subseteq Nat
  /\ IsFiniteSet(Calendar)
  /\ MaxHeight \in Nat /\ MaxHeight >= Cardinality(Calendar)
  /\ Cached \in BOOLEAN
  /\ MaxFaults \in Nat

VARIABLES
  chain,       \* the active chain
  mined,       \* history: every block ever mined, with its height
  held,        \* what each calendar's store has for its commitment; {}: nothing
  cache,       \* what the HTTP cache has for each calendar's commitment
  proof,       \* the client's proof
  pc,          \* what the client is doing
  via,         \* whom Upgrade asks
  next,        \* what comes after Upgrade: "once", "poll" or "verify"
  calls,       \* calls to calendars not yet made or answered
  replies,     \* Stamp: calendars whose proof has arrived
  headers,     \* opts.Headers is not nil
  checks,      \* attestations VerifyProof has still to look at
  seen,        \* what VerifyProof has found so far: result.Attestations
  best,        \* the block it keeps: VerifiedAt, BlockHeight and BlockHash;
               \* a set of at most one
  result,      \* what the last VerifyProof returned
  faults       \* faults so far

network == <<chain, mined>>
verifyVars == <<headers, checks, seen, best, result>>
vars == <<network, held, cache, proof, pc, via, next, calls, replies,
          verifyVars, faults>>

Junk == 0
Short == -1

Pending == [kind |-> "pending", height |-> 0, msg |-> Junk]
Bitcoin(h, m) == [kind |-> "bitcoin", height |-> h, msg |-> m]
Litecoin == [kind |-> "litecoin", height |-> 0, msg |-> Junk]
Unknown == [kind |-> "unknown", height |-> 0, msg |-> Junk]

Att == [kind: {"pending", "bitcoin", "litecoin", "unknown"}, height: Nat, msg: Int]

Block == [id: Nat, time: Time, has: SUBSET Calendar]

Pool == "pool"
Relay == "relay"

\* Whom Upgrade can ask: a Pool, the Client of a calendar, or the Client of a
\* relay, which offers the same GET /timestamp.
Upgrader == {Pool, Relay} \cup Calendar

NoResult == [valid |-> FALSE, status |-> "none", time |-> 0, height |-> 0, id |-> 0]

Status == {"confirmed", "pending", "invalid", "unverified", "unknown"}

\* What VerifyProof notes of an attestation; the block is 0 unless confirmed.
Note == [status: Status, time: Nat, height: Nat, id: Nat]

TypeOK ==
  /\ chain \in Seq(Block) /\ Len(chain) <= MaxHeight
  /\ held \in [Calendar -> SUBSET Att]
  /\ cache \in [Calendar -> SUBSET Att]
  /\ proof \subseteq [cal: Calendar, att: Att]
  /\ pc \in {"idle", "stamp", "upgrade", "wait", "check"}
  /\ via \in Upgrader
  /\ next \in {"once", "poll", "verify"}
  /\ calls \subseteq Calendar
  /\ replies \subseteq Calendar
  /\ headers \in BOOLEAN
  /\ checks \subseteq proof
  /\ seen \subseteq Note
  /\ best \subseteq Note
  /\ result \in [valid: BOOLEAN, status: (Status \ {"unknown"}) \cup {"none"},
                 time: Nat, height: Nat, id: Nat]
  /\ faults \in 0..MaxFaults

Init ==
  /\ chain = <<>>
  /\ mined = {}
  /\ held = [c \in Calendar |-> {}]
  /\ cache = [c \in Calendar |-> {}]
  /\ proof = {}
  /\ pc = "idle"
  /\ via = Pool
  /\ next = "once"
  /\ calls = {}
  /\ replies = {}
  /\ headers = FALSE
  /\ checks = {}
  /\ seen = {}
  /\ best = {}
  /\ result = NoResult
  /\ faults = 0

Fault(kind) ==
  /\ kind \in FaultKinds
  /\ faults < MaxFaults
  /\ faults' = faults + 1

NoFault == UNCHANGED faults

-----------------------------------------------------------------------------
(***************************************************************************)
(* Stamp: Pool.Stamp asks all calendars in parallel and waits for all of   *)
(* them; StampDigest and StampFile ask one.  It returns an error, and no   *)
(* proof, if none of them answered.                                        *)
(***************************************************************************)
StampStart ==
  /\ pc = "idle"
  /\ proof = {}
  /\ \E targets \in {Calendar} \cup {{c} : c \in Calendar} : calls' = targets
  /\ pc' = "stamp"
  /\ UNCHANGED <<network, held, cache, proof, via, next, replies, verifyVars,
                 faults>>

\* Client.Submit: the calendar answers with its receipt; or it cannot be
\* reached; or it took the digest, and its answer is lost, late or bad.
SubmitCall(c) ==
  /\ pc = "stamp"
  /\ c \in calls
  /\ calls' = calls \ {c}
  /\ \/ /\ NoFault
        /\ held' = [held EXCEPT ![c] = @ \cup {Pending}]
        /\ replies' = replies \cup {c}
     \/ /\ Fault("unreachable")
        /\ UNCHANGED <<held, replies>>
     \/ /\ Fault("lost")
        /\ held' = [held EXCEPT ![c] = @ \cup {Pending}]
        /\ UNCHANGED replies
  /\ UNCHANGED <<network, cache, proof, pc, via, next, verifyVars>>

\* All the proofs that arrived, merged: ProofMerge's NothingLost.
MergedReplies == {[cal |-> c, att |-> Pending] : c \in replies}

StampDone ==
  /\ pc = "stamp"
  /\ calls = {}
  /\ pc' = "idle"
  /\ replies' = {}
  /\ \/ replies = {} /\ UNCHANGED proof
     \/ replies # {} /\ proof' = MergedReplies
  /\ UNCHANGED <<network, held, cache, via, next, calls, verifyVars, faults>>

-----------------------------------------------------------------------------
(***************************************************************************)
(* Upgrade: every pending attestation there is when it starts, in turn.    *)
(***************************************************************************)
IsComplete == \E p \in proof : p.att.kind = "bitcoin"

PendingAt == {c \in Calendar : [cal |-> c, att |-> Pending] \in proof}

StartUpgrade(whom, after) ==
  /\ via' = whom
  /\ next' = after
  /\ calls' = PendingAt
  /\ pc' = "upgrade"

UpgradeStart ==
  /\ pc = "idle"
  /\ proof # {}
  /\ \/ \E whom \in Upgrader : StartUpgrade(whom, "once")
     \/ \E whom \in Upgrader \ {Pool} : StartUpgrade(whom, "poll")
  /\ result' = NoResult
  /\ UNCHANGED <<network, held, cache, proof, replies, headers, checks, seen,
                 best, faults>>

\* Mutant: a Client, too, goes by the URI in the attestation.
ReachesNamed(c) == via \in {Pool, Relay, c} /\ c \in SelfNamed

\* The Pool goes by the URI in the attestation and knows the URLs it is
\* configured with; a Client asks its own calendar whatever the URI says,
\* and only the calendar that made the commitment has it.  A relay asks all
\* its calendars (GetTimestampAny), whatever they are named.
Reaches(c) == via \in {c, Relay} \/ (via = Pool /\ c \in SelfNamed)

\* getTimestamp answers 200 with whatever is stored, to be cached for a year,
\* and 404 for a minute if there is nothing.
Answer(c) == IF Cached /\ cache[c] # {} THEN cache[c] ELSE held[c]

\* findNode and Merge: the answer's attestations join those at the node
\* (ProofMerge's NothingLost).
MergeBranch(c, atts) == proof \cup {[cal |-> c, att |-> a] : a \in atts}

UpgradeCall(c) ==
  /\ pc = "upgrade"
  /\ c \in calls
  /\ calls' = calls \ {c}
  /\ \/ /\ NoFault
        /\ Reaches(c) /\ Answer(c) # {}
        /\ proof' = MergeBranch(c, Answer(c))
        /\ cache' = IF Cached THEN [cache EXCEPT ![c] = Answer(c)] ELSE cache
     \/ /\ Fault("unreachable") \/ (NoFault /\ ~(Reaches(c) /\ Answer(c) # {}))
        /\ UNCHANGED <<proof, cache>>
  /\ UNCHANGED <<network, held, pc, via, next, replies, verifyVars>>

\* The locals of Upgrade and its callers are gone.
Forget == via' = Pool /\ next' = "once"

\* UpgradeUntilConfirmed goes round again until the proof is complete.
UpgradeDone ==
  /\ pc = "upgrade"
  /\ calls = {}
  /\ next # "verify"
  /\ IF next = "poll" /\ ~IsComplete
     THEN pc' = "wait" /\ UNCHANGED <<via, next>>
     ELSE pc' = "idle" /\ Forget
  /\ UNCHANGED <<network, held, cache, proof, calls, replies, verifyVars,
                 faults>>

PollAgain ==
  /\ pc = "wait"
  /\ StartUpgrade(via, "poll")
  /\ UNCHANGED <<network, held, cache, proof, replies, verifyVars, faults>>

\* The caller's context ends while waiting.
PollExpires ==
  /\ pc = "wait"
  /\ pc' = "idle"
  /\ Forget
  /\ UNCHANGED <<network, held, cache, proof, calls, replies, verifyVars,
                 faults>>

-----------------------------------------------------------------------------
(***************************************************************************)
(* VerifyProof: upgrade if there is somebody to ask, then look at every    *)
(* attestation, asking the header source for each Bitcoin one in turn.     *)
(***************************************************************************)
Verdict(status) == [NoResult EXCEPT !.status = status]

\* The digest, or the file's hash, is not the one the proof is for.
VerifyMismatch ==
  /\ pc = "idle"
  /\ proof # {}
  /\ result' = Verdict("invalid")
  /\ UNCHANGED <<network, held, cache, proof, pc, via, next, calls, replies,
                 headers, checks, seen, best, faults>>

VerifyStart ==
  /\ pc = "idle"
  /\ proof # {}
  /\ headers' \in BOOLEAN
  /\ \/ /\ \E whom \in Upgrader : StartUpgrade(whom, "verify")
        /\ UNCHANGED checks
     \/ /\ pc' = "check"
        /\ checks' = proof
        /\ UNCHANGED <<via, next, calls>>
  /\ result' = NoResult
  /\ UNCHANGED <<network, held, cache, proof, replies, seen, best, faults>>

VerifyUpgraded ==
  /\ pc = "upgrade"
  /\ calls = {}
  /\ next = "verify"
  /\ pc' = "check"
  /\ checks' = proof
  /\ Forget
  /\ UNCHANGED <<network, held, cache, proof, calls, replies, headers, seen,
                 best, result, faults>>

Unconfirmed(status) == [status |-> status, time |-> 0, height |-> 0, id |-> 0]

\* Mutant: the message is not compared with the header's merkle root.
HeaderExists(a) ==
  IF a.height \notin DOMAIN chain THEN Unconfirmed("unverified")
  ELSE [status |-> "confirmed", time |-> chain[a.height].time,
        height |-> a.height, id |-> chain[a.height].id]

\* The header at the attested height, if there is one, against the message.
CompareHeader(a) ==
  IF a.height \notin DOMAIN chain THEN Unconfirmed("unverified")
  ELSE IF chain[a.height].id # a.msg THEN Unconfirmed("invalid")
  ELSE [status |-> "confirmed", time |-> chain[a.height].time,
        height |-> a.height, id |-> a.msg]

verifyBitcoin(a) ==
  IF ~headers THEN Unconfirmed("unverified")
  ELSE IF a.msg = Short THEN Unconfirmed("invalid")
  ELSE CompareHeader(a)

StatusOf(a) ==
  CASE a.kind = "pending"  -> Unconfirmed("pending")
    [] a.kind = "bitcoin"  -> verifyBitcoin(a)
    [] a.kind = "litecoin" -> Unconfirmed("unverified")
    [] a.kind = "unknown"  -> Unconfirmed("unknown")

\* Mutant: the lower block is taken for the earlier one.
KeepLower(n) ==
  IF n.status = "confirmed" /\ \A b \in best : n.height < b.height
  THEN {n} ELSE best

\* A confirmed block takes the place of the one kept if its nTime is before
\* that one's, or if there is none.
KeepEarlier(n) ==
  IF n.status = "confirmed" /\ \A b \in best : n.time < b.time
  THEN {n} ELSE best

Found(n) == seen' = seen \cup {n} /\ best' = KeepEarlier(n)

\* One turn of VerifyProof's loop, in any order: the order of attestations
\* in the tree is anything.
CheckAttestation(p) ==
  /\ pc = "check"
  /\ p \in checks
  /\ checks' = checks \ {p}
  /\ \/ NoFault /\ Found(StatusOf(p.att))
     \/ /\ p.att.kind = "bitcoin" /\ headers /\ p.att.msg # Short
        /\ Fault("rpc")
        /\ Found(Unconfirmed("unverified"))
  /\ UNCHANGED <<network, held, cache, proof, pc, via, next, calls, replies,
                 headers, result>>

Saw(status) == \E n \in seen : n.status = status

\* Mutant: an attestation of unknown kind decides.
UnknownFirst ==
  IF Saw("unknown") THEN "unknown"
  ELSE IF Saw("invalid") THEN "invalid"
  ELSE IF Saw("pending") THEN "pending"
  ELSE "unverified"

\* The status of a proof without a confirmed attestation.
Overall ==
  IF Saw("invalid") THEN "invalid"
  ELSE IF Saw("pending") THEN "pending"
  ELSE "unverified"

VerifyDone ==
  /\ pc = "check"
  /\ checks = {}
  /\ pc' = "idle"
  /\ headers' = FALSE
  /\ seen' = {}
  /\ best' = {}
  /\ \/ \E n \in best :
          result' = [valid |-> TRUE, status |-> "confirmed", time |-> n.time,
                     height |-> n.height, id |-> n.id]
     \/ /\ best = {}
        /\ result' = Verdict(Overall)
  /\ UNCHANGED <<network, held, cache, proof, via, next, calls, replies,
                 checks, faults>>

-----------------------------------------------------------------------------
(***************************************************************************)
(* The environment.  A calendar anchors what it holds and stores the       *)
(* attestation; it can also store a wrong one, on a message it made up or  *)
(* on a block's root under another height (that is all SHA-256 leaves it), *)
(* or be back at its receipt, restored from a backup.                      *)
(***************************************************************************)
client == <<proof, pc, via, next, calls, replies, verifyVars>>

NextId == Cardinality(mined) + 1

Extend(base, t, has) ==
  LET block == [id |-> NextId, time |-> t, has |-> has]
  IN  /\ chain' = Append(base, block)
      /\ mined' = mined \cup {[block |-> block, height |-> Len(base) + 1]}

Received == {c \in Calendar : held[c] # {}}

Included(base) == UNION {base[h].has : h \in DOMAIN base}

\* The bound on the height must not keep a calendar from ever anchoring.
LeavesRoom(base, has) ==
  Len(base) + 1 + Cardinality(Calendar \ (Included(base) \cup has)) <= MaxHeight

Mine ==
  /\ \E t \in Time, has \in SUBSET (Received \ Included(chain)) :
       has # {} /\ LeavesRoom(chain, has) /\ Extend(chain, t, has)
  /\ NoFault
  /\ UNCHANGED <<held, cache, client>>

\* The last block is replaced by another.
Reorganise ==
  /\ chain # <<>>
  /\ Fault("reorg")
  /\ LET base == SubSeq(chain, 1, Len(chain) - 1)
     IN  \E t \in Time, has \in SUBSET (Received \ Included(base)) :
           LeavesRoom(base, has) /\ Extend(base, t, has)
  /\ UNCHANGED <<held, cache, client>>

Anchor(c) ==
  /\ \E h \in DOMAIN chain :
       /\ c \in chain[h].has
       /\ Bitcoin(h, chain[h].id) \notin held[c]
       /\ held' = [held EXCEPT ![c] = @ \cup {Bitcoin(h, chain[h].id)}]
  /\ NoFault
  /\ UNCHANGED <<network, cache, client>>

Lie(c) ==
  /\ held[c] # {}
  /\ Fault("lie")
  /\ \E h \in 1..MaxHeight,
        m \in {Junk, Short} \cup {b.block.id : b \in {d \in mined : c \in d.block.has}} :
       \/ \E a \in {Bitcoin(h, m), Litecoin, Unknown} : held' = [held EXCEPT ![c] = @ \cup {a}]
       \/ held' = [held EXCEPT ![c] = {Pending}]
  /\ UNCHANGED <<network, cache, client>>

ClientStep ==
  \/ \E c \in Calendar : SubmitCall(c) \/ UpgradeCall(c)
  \/ StampDone
  \/ UpgradeDone \/ PollAgain
  \/ VerifyUpgraded \/ VerifyDone
  \/ \E p \in proof : CheckAttestation(p)

Next ==
  \/ StampStart \/ UpgradeStart \/ VerifyStart \/ VerifyMismatch
  \/ ClientStep
  \/ PollExpires
  \/ Mine \/ Reorganise
  \/ \E c \in Calendar : Anchor(c) \/ Lie(c)

Spec == Init /\ [][Next]_vars

(***************************************************************************)
(* Fairness: calls return (HTTP timeouts) and the poll interval passes;    *)
(* blocks are mined and calendars anchor what they received.  Nothing      *)
(* makes a client stamp, upgrade or verify.                                *)
(***************************************************************************)
MineAll ==
  /\ Received \ Included(chain) # {}
  /\ \E t \in Time : Extend(chain, t, Received \ Included(chain))
  /\ NoFault
  /\ UNCHANGED <<held, cache, client>>

Fairness ==
  /\ WF_vars(ClientStep)
  /\ WF_vars(MineAll)
  /\ \A c \in Calendar : WF_vars(Anchor(c))

FairSpec == Spec /\ Fairness

-----------------------------------------------------------------------------
(***************************************************************************)
(* VerifyProof fails closed: it says valid only of a proof with an         *)
(* attestation on the root of a real block of that height, id and nTime,   *)
(* which commits to the digest, whatever calendars claim and although the  *)
(* chain may change between two header requests.                           *)
(***************************************************************************)
FailClosed ==
  result.valid =>
    \E p \in proof, b \in mined :
      /\ p.att = Bitcoin(b.height, b.block.id)
      /\ p.cal \in b.block.has
      /\ result.height = b.height
      /\ result.id = b.block.id
      /\ result.time = b.block.time

(***************************************************************************)
(* "VerifiedAt then carries the earliest such block's nTime": whatever     *)
(* order VerifyProof's loop meets the attestations in, and although the    *)
(* chain changes between its header requests, the block it ends with is    *)
(* not later than any that it listed as confirmed, also when a lower block *)
(* is the later one; and one confirmed attestation is enough.              *)
(***************************************************************************)
Confirmed == {n \in seen : n.status = "confirmed"}

VerifiedAtEarliest ==
  [][pc = "check" /\ pc' = "idle" =>
       \A n \in Confirmed : result'.valid /\ result'.time <= n.time]_vars

(***************************************************************************)
(* "UpgradeUntilConfirmed polls the calendar until the proof contains a    *)
(* confirmed Bitcoin attestation or ctx expires": with calendars that      *)
(* anchor, polling a calendar the proof has a receipt of, or a relay of    *)
(* it, ends with a complete proof unless the caller gives up, whatever     *)
(* name the calendar goes by in its receipts.                              *)
(***************************************************************************)
PollingCompletes ==
  (pc = "wait" /\ (via \in PendingAt \/ (via = Relay /\ PendingAt # {})))
    ~> (IsComplete \/ pc = "idle")
=============================================================================
