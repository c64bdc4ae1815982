# A TLA+ verification of the OTS calendar and client

The repository is a Go implementation of OpenTimestamps: a *calendar* that
takes digests, answers with receipts and anchors them in Bitcoin, and a
*client side* (an SDK and a relay server) that stamps digests with several
calendars, upgrades the receipts and verifies proofs. This directory models it
in TLA+, checks the models with TLC on small instances, and proves the safety
properties of six of the eight state machines, and both refinements, with TLAPS
for every instance. `PROJECT.json` lists components, runs, mutants, the
correspondence with the source, findings, hazards and theorems.

## 1. Inventory

| Component | State it keeps | Operations | What makes it correct |
|---|---|---|---|
| Stamper (`internal/stamper`) | pool, tracked transactions with their trees, journal cursor, time of the last transaction; all in memory | `Recover`, and every 5 s `step`: ingest the journal, track confirmations (keep, re-queue, finalize), maybe send | no commitment is lost or followed twice; attestations are true; everything is eventually anchored |
| Bitcoin client (`internal/bitcoin/client.go`) and node | the chain, the mempool, the wallet | `TxStatus`, `BlockTxIDs`, `BlockHeader`, `SendOpReturn` | (environment) |
| Block proofs (`internal/bitcoin/blockproof.go`) | none; extends `utx.tip` in place | `StripWitness`, `MakeTimestampFromBlock` | the path from every leaf ends in the block's merkle root |
| Timestamp trees (`internal/core/timestamp`, `op`, `notary`) | the tree | `AddOp`, `Merge`, `CatThenUnaryOp`, `MakeMerkleTree`, (de)serialization | merging loses nothing; every leaf reaches the root |
| Journal (`internal/calendar/journal.go`) | the file, `count` | `OpenJournal`, `Append`, `Read`, `Len` | what was acknowledged is read back at its index after any crash |
| Aggregator (`internal/calendar/aggregator.go`) | queue, batch | `Submit`, the loop, `Close` | every request is answered once; nothing accepted is dropped; shutdown ends |
| Calendar service and store (`calendar.go`, `store_bolt.go`) | journal and store | `Submit`: append, then `Put`; `Get` | a stored commitment is journaled; `Put` never loses an attestation |
| Handlers and processes (`api/…`, `cmd/…`) | none; lifecycle of the process | HTTP handlers, start-up order, shutdown with a timeout | a graceful shutdown loses no client |
| SDK, pool (`pkg/ots`) | the caller's proof | `Pool.Stamp`, `Upgrade`, `UpgradeUntilConfirmed`, `GetTimestampAny` | a receipt that arrived is kept; upgrading only adds |
| Verification (`internal/verify`) | none | `VerifyProof`, `Upgrade`, `IsComplete`, `ParseProof` | fails closed; reports the earliest block |
| Data directory (`internal/calendar/datadir.go`) | the `hmac-key` and `uri` files | `OpenDataDir` at every boot | a calendar's identity never changes once served |
| Codec (`internal/core/serialize`, and the (de)serializers of `op`, `notary`, `timestamp`) | bytes | varints, varbytes, attestations, ops, timestamps, detached files | what is written is read back; damaged bytes are refused or their effect is confined; what was accepted can be passed on |
| Logging, swagger | none | — | no logic of their own (section 7) |

How they interact. HTTP handlers call `Aggregator.Submit` and block on a
channel. The aggregator's goroutine builds a merkle tree over a batch and calls
`Service.Submit`, which appends the commitment to the journal and then writes
the pending proof to the store. The stamper's goroutine polls the journal's
length, reads records, and writes to the same store; it shares nothing else
with the submitting side. It talks to the Bitcoin node by synchronous RPCs, each of
which sees the chain at a different moment. Clients see a calendar only through
`POST /digest` and `GET /timestamp/{commitment}`; a relay offers the same two
requests and passes them on to its calendars. Proofs travel and are stored as
bytes: bare timestamps in answers, requests and the store, detached files (.ots)
on disk.

What is hard: the stamper's `step` is a long sequence of RPCs and store writes,
during which the chain reorganises, submissions arrive and the process may die,
and whose in-memory state is thrown away by a restart; `finalize` changes a tree
in place before it knows whether it will succeed; the journal meets short writes
and power loss; requests, ticks and a shutdown with a timeout race in the
aggregator; a client combines answers of several calendars and block
headers fetched one by one; and proofs are read from bytes that may have been
cut, because readers stop at a limit and a short read is not an error. The hazards
in `PROJECT.json` give the lines.

## 2. Modules

```
BitcoinNode <- Stamper <- MCStamper          the calendar's anchoring, end to end
CalendarLedger <- Stamper                    what the calendar promises, refined
DurableLog  <- Journal <- MCJournal          the journal refines a durable log
               Aggregator <- MCAggregator    requests, batches, shutdown
TimestampTree <- BlockProof <- MCTrees       trees and block inclusion proofs
TimestampTree <- ProofMerge <- MCTrees       merging and upgrading a client's tree
Wire <- Codec <- ProofTransfer <- MCProofTransfer    the byte format of proofs
               ProofClient <- MCProofClient  stamp, upgrade, verify
               DataDir <- MCDataDir          the calendar's identity on disk

theorems:
Stamper <- StamperProofs, Journal <- JournalProofs,
Aggregator <- AggregatorProofs, ProofClient <- ProofClientProofs,
DataDir <- DataDirProofs,
Wire <- WireProofs, ProofTransfer <- CodecProofs <- ProofTransferProofs
```

**`BitcoinNode`** is the environment of `client.go`: the active chain, the
transactions broadcast, mining, reorganisations by a longer branch, and mined
transactions that conflict with an anchor. Its answers are those of `TxStatus`
(negative confirmations for a conflicted transaction), `BlockTxIDs` and
`BlockHeader`. It is external, except for how the client reads the answers.

**`Stamper`** has one action for each stretch of `stamper.go` between two calls
out of the process: `Tick` (`ingestJournal`), `TrackTx` (one iteration of
`trackConfirmations`), `FinalizeBuild` (`BlockHeader` and
`MakeTimestampFromBlock`), `FinalizePut` (one store write), `SendOpReturn` and
`SendReply`, `Crash`, `Recover`, with `Service.Submit` in two steps beside it.
`pending`, `unconfirmed`, `cursor`, `lastTxTime` are the fields of the Go struct;
`tip` is what the in-place tree of a transaction remembers of earlier attempts:
a set of branches, each with the first neighbour hash on the path and whether an
attestation hangs at its end. `BlockProof` shows that this abstraction is exact.

**`CalendarLedger`** is what the calendar promises to the outside: what it has
recorded, the receipts it gave, what each anchor transaction commits to, and the
attestations it hands out. All four only grow; only recorded commitments are
anchored, and an attestation is only handed out for a commitment in the anchor
it names. `Stamper` implements it (`ImplementsLedger`), with the journal, the
broadcast transactions and the store for its variables: crashes, conflicts,
reorganisations and repeated transactions are stuttering steps of the ledger.

**`TimestampTree`**, **`BlockProof`** model the trees themselves: nodes on a
heap, because the code shares and mutates them, messages as terms over a
collision-free hash. `finalize` runs on real shapes: a batch tree, the
transaction around its tip, the block's tree with odd nodes duplicated, and a
second attempt on the tree the first has changed.

**`Journal`** is the file at the level of `Write`, `Sync` and truncation, a
record being `RecordSize` parts so that a write can stop in the middle; a crash
keeps what the kernel has, a power loss keeps at least what was synced.
**`DurableLog`** is what its users rely on: a log that only grows, whose stable
prefix never changes, with a way to become damaged (an append that failed) after
which only what was stable by then is promised.

**`Aggregator`** has the two `select`s of `Submit`, the loop, `flush` split at
the journal append and the store write, and `main`'s shutdown: `Shutdown` with
its timeout, `Close`, exit, including the send on a closed channel that is
possible after the timeout.

**`Wire`** and **`Codec`** are the byte format, kept in its structure with its
sizes as constants: `Wire` has varints, byte strings, attestations and ops,
`Codec` the trees, the detached file and `ParseProof`. The instance scales the
sizes down: bytes of 3 bits instead of 8, so that a varint byte carries 2 bits
instead of 7, words of 5 bits instead of 64. Two things are scaled in the modules
themselves: tags have 2 bytes instead of 8, and the special bytes are 0 to 7, in
the order of the real ones. A reader
returns success with the bytes left, an error, or a panic. What makes the real
format subtle is there: lengths converted to signed integers, varints that
overflow, short reads filled up with zeros, payloads with their own end, the fork
mark before every item but the last, the depth limit, sorting. Recursion is
written as recursive functions, on the bytes left or on trees; a function needs a
domain, so trees are nested at most `MaxNesting` deep (any number not below
`RecursionLimit`; the reader's own limit is `RecursionLimit`).
**`ProofTransfer`** composes proofs with it (`AddOp`, attestations, nesting), sends
them bare or detached, and lets the bytes be cut, altered or followed by others.

**`ProofClient`** is the client side of one digest. A proof is a set of
attestations, each under the commitment of one calendar. A calendar is asked
directly, by a Pool that goes by the URI in the attestation, or through a relay
that asks all of its calendars (`GetTimestampAny`). Calendars hold,
anchor, and may store wrong attestations; blocks have times that need not grow
with height; a header is asked for one attestation at a time, and the earliest
block so far is kept as `VerifyProof` keeps it. That a proof can be taken for a
set of attestations, which grows by whatever arrives, is what `ProofMerge` shows.

**`ProofMerge`** is the tree behind that set: nodes with lists of attestations
and of ops, as `Deserialize` and `Merge` build them. `Pool.Stamp` takes the
answers in any order; `Upgrade` takes a list of attestations, and for each answer
`findNode` looks up a message in the tree as it is by then. `Merge` goes down op
by op, adds what is missing and can fail on another message or on a message that
is too long. Answers overlap with the tree and with each other, and the tree may
be a foreign one with repetitions. Here a client's tree is a value: unlike the
calendar's, no two nodes of it are shared.

**`DataDir`** is `OpenDataDir` at the level of creating, writing and syncing
the two identity files, with boots that are given different flags and are killed,
lose power or meet an I/O error anywhere. Syncing a new file is taken to make
its directory entry durable, which the code relies on (it never syncs the
directory).

## 3. Runs

| Run | Question | Bounds |
|---|---|---|
| `stamper_safety` | is anything lost, followed twice, attested wrongly or for a block that is not active; does it implement `CalendarLedger` | 2 commitments, pool of 1, 2 transactions, 2 neighbour hashes, `MinConf` 2, reorganisations of up to 2, faults of weight 2 out of seven kinds |
| `stamper_liveness` | is everything journaled eventually anchored | 4 transactions, 1 fault |
| `stamper_put_failure` | the same with a failed store write: **violated** | 1 commitment, 1 fault |
| `journal` | does the file refine `DurableLog`, is damage confined, is an index given out once | 4 records of 3 parts, 3 faults |
| `journal_write_fault` | is every acknowledged record readable after a failed write: **violated** | 3 records, 1 fault |
| `aggregator` | requests, batches, failures and shutdown | 3 requests, queue of 2, 2 faults |
| `aggregator_receipt` | is a receipt always recorded: **violated** | 1 request, 1 fault |
| `proof_trees` | the calendar's trees: are stored proofs true and complete, is `Stamper`'s abstraction exact | 3 leaves, every position in blocks of 2 to 5 transactions, 2 blocks, 2 attempts |
| | a client's trees: do merging and upgrading keep everything, in any order, once, and report it | 3 calendars, 4 receipts, 4 answers, 2 foreign proofs, messages of up to 3 parts, 2 upgrades |
| `proof_transfer` | is every proof read back, and what do cut, altered and trailing bytes do | 4 attestations and ops (3 when altered), 6 attestations, 3 ops, reader's limit 3 deep, trees up to 4, payloads of 3 bytes |
| `proof_client` | stamping, upgrading, verifying and polling | 2 calendars and a relay, 2 blocks, times 1 and 2, 1 fault |
| `proof_client_cache` | does polling end behind an HTTP cache: **violated** | no fault |
| `data_dir` | does the identity survive once it is served | 2 URIs, 4 keys, files of 2 parts, 3 faults |

Why the bounds are enough for the question. A pool of one with two commitments
makes ingestion stop and resume; two transactions allow a re-queued commitment
to be anchored again, or another to be tracked meanwhile; depth two makes "one
confirmation", "enough" and "more" differ. A reorganisation counts as many
faults as it is deep: one of one block is what the depth protects against (and
one more fault may follow), one of two blocks is as deep as `MinConf`, which
`AttestedWhenActive` and the invariants must survive and `AnchoredOnChain`
excepts by the history variable `deepest`. Two faults allow a second one during
recovery from the first. Commitments and neighbour hashes are interchangeable
and declared symmetric. Three leaves give an odd batch tree and five
transactions an odd level above the lowest in the block's tree. Three parts in a
record let a write stop in two places, and four records let a record be appended
after a misaligned one and after a reopening. Three requests and a queue of two
leave one sender waiting. Two calendars and two blocks suffice for the lower
block to be the later one, for one receipt to arrive and the other to be lost,
and for the Pool to know one calendar by its name and not the other
(`SelfNamed`), so that a relay, which knows both, differs from the Pool; `LeavesRoom` keeps the height bound from excluding a calendar
for ever. Three faults let an interrupted first boot be followed by a kill and a
power loss, and four keys are one more than those can destroy. In
`proof_transfer` the attestations are chosen at the limits: a URI of the greatest
length, which makes a payload of the greatest length, heights of one, two and
three bytes up to the largest word, and an unknown kind with and without payload;
the ops reach the greatest message length exactly; four items give a chain one
deeper than the limit, two branches, and a branch beside an attestation.
In the client's half of `proof_trees` the shapes are chosen to overlap: receipts with the same op and
another attestation below it, answers with the same attestation again, one
message that is reached by two ways (two appended parts at once or one after the
other), which makes `findNode` take one of two nodes, a foreign proof with an
attestation and an op twice at a node, and messages at the length limit, under
which some answers cannot be read; two upgrades let the second ask again for what
the first has added. The two halves of `proof_trees` have no tree in common, so a
behaviour of `MCTrees` is one of the calendar or one of the client.
Bounds are constants and show up in guards only.

Deadlock is checked in the stamper, client and data directory runs. `Journal`,
`Aggregator`, `BlockProof`, `ProofMerge` and `ProofTransfer` end: the records are
used up, the process has stopped, the attempts or the upgrades are used up, the
proof has been read.

What `proof_transfer` says in particular. A bare timestamp cut short is refused,
with one exception that `CutConfined` delimits: if the bytes end in a block
height of several bytes, the last attestation may come out with a lower height,
because the missing byte is read as zero (`serialize.go:150`). Such a proof does not
verify (`FailClosed`: the root at that height is another), but `ParseProof` reports
the height. A proof with an attestation of an unknown kind and a payload is
refused as a whole: `notary.Deserialize` leaves that payload unread for its own
`AssertEOF`. `RoundTrip` has it as a limit of the reader (`Supported`), so as to
say all the rest. It is not what `verify` expects: `VerifyProof` has the status
"unknown" for an "unrecognized attestation type", which such a proof never gets to;
only an attestation without payload does. The hazard at `notary.go:237` names it. A
length of 2^63 or more makes `ReadVarBytes` panic; the model has that outcome
for altered bytes, and `CutConfined` shows that cutting never leads there.
`PassedOn` promises the same bytes at the next hop for proofs in which no node has
two children under one op (`Distinct`). `AddOp` never makes another, but altered
bytes may hold one, `Deserialize` accepts it, and `sort.Slice` then promises no
order of the two; such a proof is still read back completely.

Every property of a passing run has a *mutant*: a version of one modelled
definition with a plausible programming error, defined right before it (a failed
`TxStatus` that forgets the transaction, a confirmation too few, `Put`
overwriting as `MemoryStore` does, a journal that does not truncate, ...), under
which TLC finds that property violated.

## 4. What the violated runs show

1. **A failed store write blocks a transaction until a restart.**
   `finalize` has grafted the block's branch onto `utx.tip` by the time it writes
   the leaves. If a `Put` fails it returns, the transaction is tried again at the
   next tick, and `CatThenUnaryOp` refuses: "append/prepend paths diverged". The
   commitments that were not written stay unanchored although their transaction
   is buried. `NoCommitmentLost` still holds (they are tracked), so a restart
   repairs it, at the price of a second transaction.
2. **A failed journal write misaligns the file.** After a short write
   `Append` returns an error, but the next record goes behind the torn one, and its
   index, which is acknowledged, reads the wrong bytes. `DamageConfined` shows that
   records acknowledged before the failure are safe.
3. **A receipt without a record.** `flush` ignores the error of
   `Service.Submit`, which attests the tree before it journals it: the batch's
   clients get a receipt for a commitment nobody will anchor.
4. **A pending proof is cacheable for a year.** `getTimestamp` marks every
   stored proof `max-age=31536000`, also a pending one, so a shared cache makes
   polling hopeless.

## 5. Fairness

- Stamper: weak fairness of the goroutine (ticker, mutex and RPCs return), of
  the restart (`restart: unless-stopped` in the deployment), of the clock, and of
  mining what is in the mempool. Faults are bounded by `MaxFaults`, so there is a
  last one. Nothing forces a submission.
- Aggregator: weak fairness of each handler, of the loop (its ticker fires) and
  of `main` after a signal. Clients need not cancel; no signal need arrive.
- ProofClient: calls return (the HTTP client has a timeout) and the poll
  interval passes; blocks are mined and calendars anchor what they received.
  Starting to stamp, upgrade or verify, and giving up, are not fair.

## 6. Proofs

Eight modules hold the theorems; all obligations are discharged by SMT, Zenon and
LS4. The only assumptions are those on the constants, each named in the module that
declares them: bounds are natural numbers, `MinConf`, `QueueCap`, `RecordSize` and
the file size are not zero, and in `ProofClient` there is a calendar and a time,
and the chain has room for the finitely many calendars to anchor. Of the byte
format (`SizesAssumption`, `PayloadAssumption`) it is assumed what the Go constants
satisfy: there are enough byte values for the special ones, a digest fits in
a message, the limits are below half a word (2^63), and the payload of every
height and of every URI is within `MaxPayloadSize`. So the theorems
hold for any set of commitments, requests, calendars, keys, attestations and ops, any
number of transactions, blocks and faults, reorganisations of any depth, and
the real sizes of the format, but for its tags (section 2). In each module
the strengthened invariant was first checked by TLC on the instance of the run;
the proof of its inductive step has one lemma per action, and in it one step per
conjunct the action can disturb.

| Theorem | States | Rests on |
|---|---|---|
| `LossInvariant`, `NothingLost`, `TypeCorrect` | `[]LossInv`, `[]NoCommitmentLost`, `[]TypeOK` | `LossInv` |
| `NeverTrackedTwice` | `[]NoDoubleTracking` | `TrackInv` |
| `LedgerRefinement` | `ImplementsLedger` | `LedgerInv` |
| `AttestationsTrue`, `AttestsActiveBlocks` | `[]AnchoredOnChain`, `AttestedWhenActive` | `ChainInv` |
| `CountWithinFile`, `AcknowledgedSurvives`, `NoFailureNoLoss` | `[]TypeOK`, `[]DamageConfined`, no loss without a failed append | `JournalInv` |
| `LogRefinement`, `StableRecordsStay` | `ImplementsLog`, what is on disk stays | `JournalInv` |
| `IndicesStay` | `[]IndexNotReused` | `IndexInv` |
| `QueueBounded`, `EachOnce`, `JournalFirst`, `ShutdownLosesNobody` | `[]TypeOK`, `[]SubmittedOnce`, `[]StoredIsJournaled`, `[]GracefulShutdown` | `AggregatorInv` |
| `ReceiptsRecorded` | `[]ReceiptRecorded` if journal appends do not fail | `ReceiptInv` |
| `ServesWholeKey`, `OneIdentity`, `AlwaysStartsAgain` | `[]TypeOK`, `[]IdentityStable`, `[]StartsAgain` | `DataDirInv` |
| `ClientTypes`, `VerifiedIsTrue` | `[]TypeOK`, `[]FailClosed` | `ClientInv` |
| `EarliestTime` | `VerifiedAtEarliest` | `ClientInv` |
| `TypeCorrect`, `RoundTripHolds`, `CutConfinedHolds`, `PassedOnHolds`, `ParsedFactsHold` (in `ProofTransferProofs`) | `[]TypeOK`, `[]RoundTrip`, `[]CutConfined`, `[]PassedOn`, `[]ParsedFacts` | `IInv` |

**Nothing is lost.** `NoCommitmentLost` (every journal record before the cursor is
pooled, a leaf of a tracked transaction, or attested in the store) is not
inductive. Two steps break it from states that satisfy it but are not reachable:
`FinalizeDone` drops a transaction from the list, which is safe only if each of
its leaves has been written with an attestation; and `SendReply` removes what was
broadcast from the pool, which is safe only if that is what the transaction
commits to. `LossInv` therefore adds: while `finalize` works on a transaction it
is tracked and no longer to be looked at; when it writes, the tree carries an
attestation and every leaf that is not still to be written has one in the store;
between broadcast and answer the pool is exactly what was broadcast (`step` holds
the lock, and `Service.Submit` does not touch the pool). A crash empties pool and
list and sets the cursor to zero; `LossRecover` shows that the replay restores the
invariant.

**Nothing is followed twice.** `ingestJournal` does not look whether a commitment
is tracked. `TrackInv` says why it need not: the journal has each commitment once,
and what is pooled or tracked is before the cursor; and `Recover`, which starts
before all of it, starts with nothing tracked.

**The ledger.** A step of the stamper is a step of `CalendarLedger` or leaves it
alone. Handing out an attestation is the delicate one: `LedgerInv` says that
`finalize` writes to leaves of its own transaction only, that a transaction not
yet sent commits to nothing, and that what transactions commit to is journaled
(which needs `TrackInv`: what is pooled is journaled).

**The chain.** `finalize` holds the block's identity from `TxStatus`, its
transactions from `BlockTxIDs`, and asks `BlockHeader` by height, with
reorganisations in between. `ChainInv` says that block identities are not reused,
that wherever the block is active it is at the height and has the transaction
`finalize` thinks it has, and that until a reorganisation is `MinConf` deep every
block `finalize` works on, a branch leads to or an attestation names is buried
under `MinConf - 1` others. The last part is what a shallower reorganisation
cannot break, since it replaces fewer blocks than that; `NetworkReplaces` reduces
mining and reorganisations to that one fact. `AttestedWhenActive` needs no bound
on the depth: the comparison of the merkle root is made against the active chain.

**The journal.** `DamageConfined` holds of the acknowledged records because they
are below `synced` and, while the file is open, below `count` (`Kept`), and nothing
changes parts below `synced`. To show that the record just written and synced is
the one acknowledged, `ShapeInv` has the length of an open file that has seen no
failure: exactly `count` records, plus the one being appended. After a failure no
such thing is true (the violated run), and the proof only keeps `Kept` for what
was stable by then; this is why `DurableLog` has `Damage`. `LogRefinement` then
follows per action: opening cuts a torn record or leaves a longer log than `count`
knew, a crash loses a tail beyond `synced`. Division by the record size
is confined to the lemmas `Fits`, `NextRecord` and `WholeRecordsFit`.
`IndexNotReused` does not depend on what the records contain, and holds also after
a failed write: `IndexInv` has every acknowledged index below `count` while the
file is open and its record within what is synced, so that a recount finds at
least as many records, however the file is misaligned.

**The aggregator.** A request is in the queue, in the batch or answered, in one of
them and once, because whatever is in one has left its handler's first `select`
(`PlaceInv`), which a handler passes once. `ShutdownInv` connects the closed
channel with `main`'s progress. `ReceiptsRecorded` complements the violated run
`aggregator_receipt`: a failed journal append is the only cause.

**The data directory.** `DataDirInv` relates three pieces of state: a file whose
`Sync` returned is whole and durable and is never the one being created; what a
boot has loaded is what the disk has and has passed the checks; whatever was
served is what both files have now, both synced.

**The client.** `FailClosed` is about the past as much as the present, since the
chain changes between two headers and after the verification. `MinedInv` says
that an id names one block at one height for ever; `RootInv` that no calendar,
cache or proof has an attestation on the root of a block that does not commit to
what that calendar holds (a calendar can lie about the height, not about the
hash); `VerifyInv` that every confirmation noted so far, and the last result, is
shown by the proof and a block that was mined. `VerifiedAtEarliest` rests on the
part of it about the minimum that is kept (`BestInv`): before every attestation it
is one of the confirmations noted so far and not later than any of them, which
`KeepsEarliest` shows for the step, whichever attestation comes next and whatever
block answers for its height by then.

**The byte format.** The state machine is simple here (`IInv` only remembers
how the tree was composed, `Composed`, that nothing was read before it was sent, `Unread`,
and how the bytes come from those written, `Delivered`); the content is in the
recursive functions. Two lemmas replace what the provers lack. `SizeInduction`
is induction over data with a set in the place of a predicate, measured by a
function into the naturals (length of the bytes, depth of the tree), and follows
from the well-foundedness of `<`. `RecursiveFunction` shows that a definition
which goes down in that measure has a function that satisfies it, so that the
`CHOOSE` behind `f[x \in S] == ...` can be unfolded. Every recursive function of
`Wire`, `Codec` and `ProofTransfer` gets its equation that way, and then its own
induction. On these rest four facts, each for every tree and all bytes:

- `TreeBack`: of what `Serialize` wrote, followed by anything, `Deserialize` returns
  the tree with its nodes sorted and leaves what follows, if the tree is
  `Supported`, and refuses it otherwise. Readers
  are composed: each has a lemma for what its writer wrote (`WireProofs`), and a
  node is read item by item because a fork mark stands before all but the last.
- `TreeShort`: of a proper prefix it returns an error, or the tree with
  a lower height at the very end. A cut falls into the last item or before it; a
  short read that was filled with zeros either leaves its payload not at its end,
  is no URI character, or is the high group of the last varint.
- `DeserializeSound`: whatever bytes it accepts, the result has no empty node, is
  within the limits and is `Supported`, so that `TreeBack` applies to writing it
  again.
- `ShuffledBytes`: `Serialize` gives the same bytes for two trees that are equal up
  to the order of items, because items have one sorted arrangement if the order
  tells all that differ apart; `sort.Slice` is only known to return some sorted arrangement.

`RoundTrip` and `PassedOn` are about `Equal` and the order of composition, which
`SortAttestations` and `SortOps` change; a `Supported` tree and the one
read back are rearrangements of each other node by node, which is also why `ParseProof` finds the same heights
and calendars (`ParsedFacts`).

Only model-checked, and why:

- liveness (`EventuallyAnchored`, `EveryRequestEnds`, `QueuedIsAttempted`,
  `ShutdownEnds`, `PollingCompletes`): it rests on fairness and ENABLED, which this
  prover does not handle;
- `BlockProof` (`BranchesSuffice`, `StoredProofsTrue`, `StoredProofsComplete`):
  they are about what the RECURSIVE operators of `TimestampTree` do to a heap of
  shared nodes, and this prover has no SMT backend in a module that declares
  RECURSIVE operators. Recursive functions, as in `Codec`, would need sets
  of all messages (nested hashes) and of all heaps for their domains;
- `ProofMerge` (`NothingLost`, `OrderIrrelevant`, `NoRepeats`, `ReportsGain`): the
  same holds of its trees and of the operators on them.

## 7. Not modelled

- Fees, amounts, mempool eviction and transaction replacement. The node's wallet
  rebroadcasts its own transactions; a fee that stays too low for ever is outside
  the model.
- The race of `Get` and `IsPending` in `getTimestamp`, which can answer "not
  found" for a commitment that is on its way. The two reads are no steps of a
  module; nothing promises that a request in between succeeds, and
  `NoCommitmentLost` says where the commitment is for the next one.
- Errors that cannot happen or change nothing: `MakeMerkleTree` on the digests of
  a batch, `Service.Submit` before it attests (`Aggregator`), `ParseProof` under
  another digest, which is refused before anything is reported (`Codec`).
- The length limit of ops in `TimestampTree`, which a large anchor transaction
  could meet (a hazard); `ProofMerge` and `ProofTransfer` have the limit.
- `MemoryStore` (used without a data directory, and then without a stamper),
  the HMAC prefix and time in a commitment (a commitment is a fresh value).
- In `Wire` and `Codec`: `ReadBool` and `WriteBool`, which nothing calls; the messages of a
  tree (they follow from the ops), except for their lengths. Hash functions are
  told apart by tag and digest length only.
- Depths in `ProofClient`: that grafting answers can make a proof deeper than a
  reader accepts is listed as a hazard.
- What a restart does to `--btc-min-tx-interval`: `lastTxTime` is memory only, so the
  first anchor after a restart need not wait. `Stamper` has it, no property is about it.
- Request decoding, JSON, status and health reports, logging, generated API
  documentation. The relay's `main`: it has no state, and its one piece of logic,
  the pings at start that share a deadline, is listed as a hazard.

## 8. Plan

1. Composition by proof: that what `Stamper` assumes of its journal (records are
   acknowledged once, keep their index and survive a crash) is what `DurableLog`
   gives, for a journal without failed appends.
2. `TimestampTree` with recursive functions over bounded sets of messages and
   heaps in the place of its RECURSIVE operators, so that `SizeInduction` and
   `RecursiveFunction` apply to `BlockProof` too.
