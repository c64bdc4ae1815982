------------------------------ MODULE Journal ------------------------------
(***************************************************************************)
(* internal/calendar/journal.go: the append-only file of fixed-size        *)
(* records behind the calendar.  A record of JournalRecordSize bytes is    *)
(* RecordSize parts here, enough for a write to stop in the middle.        *)
(*                                                                         *)
(* Append writes and fsyncs under j.mu, so two Appends never interleave    *)
(* and Read never sees one half done.  The process can die between any two *)
(* system calls, which leaves the file as written; or the machine can lose *)
(* power, which leaves at least what was fsync'd, at most what was written.*)
(***************************************************************************)
EXTENDS Integers, Sequences, Functions

CONSTANTS
  Commitment,  \* the records
  RecordSize,  \* JournalRecordSize, in parts
  FaultKinds,  \* which of "crash", "power", "write", "sync" may happen
  MaxFaults    \* bound: faults in one behaviour

ASSUME JournalAssumption ==
  /\ RecordSize \in Nat \ {0}
  /\ MaxFaults \in Nat

VARIABLES
  file,        \* what the kernel holds: a sequence of parts
  synced,      \* how much of it is known to be on disk
  count,       \* j.count
  state,       \* "closed", "open", or "written": Append between Write and Sync
  rec,         \* the record being appended, as a set of at most one
  acked,       \* history: index and record of every Append that returned nil
  intact,      \* history: those of them before any Append returned an error
  damagedAt,   \* history: records on disk when an Append first failed, or NotYet
  tried,       \* history: the records ever given to Append
  faults       \* faults so far

vars == <<file, synced, count, state, rec, acked, intact, damagedAt, tried,
          faults>>

NotYet == -1

failed == damagedAt # NotYet

Parts(c) == [k \in 1..RecordSize |-> <<c, k>>]

TypeOK ==
  /\ file \in Seq(Commitment \X (1..RecordSize))
  /\ synced \in 0..Len(file)
  /\ count \in 0..(Len(file) \div RecordSize)
  /\ state \in {"closed", "open", "written"}
  /\ rec \subseteq Commitment
  /\ acked \subseteq (Nat \X Commitment)
  /\ intact \subseteq acked
  /\ damagedAt \in Nat \cup {NotYet}
  /\ tried \subseteq Commitment
  /\ faults \in 0..MaxFaults

Init ==
  /\ file = <<>>
  /\ synced = 0
  /\ count = 0
  /\ state = "closed"
  /\ rec = {}
  /\ acked = {}
  /\ intact = {}
  /\ damagedAt = NotYet
  /\ tried = {}
  /\ faults = 0

Fault(kind) ==
  /\ kind \in FaultKinds
  /\ faults < MaxFaults
  /\ faults' = faults + 1

-----------------------------------------------------------------------------
\* Mutant: the size is taken as it is.
Untruncated(size) == size

\* A trailing partial record is truncated away.
WholeRecords(size) == size - (size % RecordSize)

\* Mutant: one record too many.
OneMore(size) == size \div RecordSize + 1

\* Mutant: a reopened journal counts from zero.
CountAnew(size) == 0

RecordsIn(size) == size \div RecordSize

OpenJournal ==
  /\ state = "closed"
  /\ LET size == WholeRecords(Len(file))
     IN  /\ file' = SubSeq(file, 1, size)
         /\ synced' = IF size < synced THEN size ELSE synced
         /\ count' = RecordsIn(size)
  /\ state' = "open"
  /\ UNCHANGED <<rec, acked, intact, damagedAt, tried, faults>>

\* The records that are wholly on disk.
StableRecords == synced \div RecordSize

\* Append returns an error.
Fail == damagedAt' = IF failed THEN damagedAt ELSE StableRecords

(***************************************************************************)
(* Append: Write, then Sync, then count.  A write that fails leaves the    *)
(* parts it wrote and the offset after them; a sync that fails leaves the  *)
(* whole record.  Neither is undone.                                       *)
(***************************************************************************)
\* f.Write at the current offset, the end of what was written before.
WriteAtOffset(parts) == file \o parts

AppendWrite(c) ==
  /\ state = "open"
  /\ c \notin tried
  /\ tried' = tried \cup {c}
  /\ \/ /\ file' = WriteAtOffset(Parts(c))
        /\ state' = "written"
        /\ rec' = {c}
        /\ UNCHANGED <<faults, damagedAt>>
     \/ /\ Fault("write")
        /\ \E k \in 0..(RecordSize - 1) :
             file' = WriteAtOffset(SubSeq(Parts(c), 1, k))
        /\ Fail
        /\ UNCHANGED <<state, rec>>
  /\ UNCHANGED <<synced, count, acked, intact>>

\* Mutant: Append answers before the record is on disk.
SyncedNothing == synced

SyncedAll == Len(file)

\* The index Append returns for its record.
Answer == {<<count, c>> : c \in rec}

AppendSync ==
  /\ state = "written"
  /\ state' = "open"
  /\ rec' = {}
  /\ \/ /\ synced' = SyncedAll
        /\ acked' = acked \cup Answer
        /\ intact' = IF failed THEN intact ELSE acked'
        /\ count' = count + 1
        /\ UNCHANGED <<faults, damagedAt>>
     \/ /\ Fault("sync")
        /\ Fail
        /\ UNCHANGED <<synced, acked, intact, count>>
  /\ UNCHANGED <<file, tried>>

\* Read(idx), for idx < count: the parts at idx * RecordSize.
Read(idx) == SubSeq(file, idx * RecordSize + 1, (idx + 1) * RecordSize)

\* The process dies and the file stays in the kernel; or the machine loses
\* power, what was not fsync'd may be cut short, and what is left is on disk.
Crash ==
  /\ state # "closed"
  /\ \/ Fault("crash") /\ UNCHANGED <<file, synced>>
     \/ /\ Fault("power")
        /\ \E n \in synced..Len(file) : file' = SubSeq(file, 1, n) /\ synced' = n
  /\ state' = "closed"
  /\ count' = 0
  /\ rec' = {}
  /\ UNCHANGED <<acked, intact, damagedAt, tried>>

Next ==
  \/ OpenJournal
  \/ \E c \in Commitment : AppendWrite(c)
  \/ AppendSync
  \/ Crash

Spec == Init /\ [][Next]_vars

-----------------------------------------------------------------------------
\* Records readable now or, when the journal is closed, by the next open.
Readable == IF state = "closed" THEN Len(file) \div RecordSize ELSE count

\* Read at the index Append returned gives the record Append was given.
ReadsBack(a) == a[1] < Readable /\ Read(a[1]) = Parts(a[2])

(***************************************************************************)
(* "Append writes one commitment record and fsyncs before returning its    *)
(* index" and "Read returns the record at idx": whatever Append returned   *)
(* an index for can be read at that index, now and after any crash and     *)
(* reopening.                                                              *)
(***************************************************************************)
AckedReadable == \A a \in acked : ReadsBack(a)

(***************************************************************************)
(* A failed Append damages only what comes after it: whatever was          *)
(* acknowledged before the first failure is still read back correctly,     *)
(* through misaligned appends, crashes and OpenJournal's truncation.       *)
(***************************************************************************)
DamageConfined == \A a \in intact : ReadsBack(a)

(***************************************************************************)
(* An index Append returned names its record for good: whatever fails, the *)
(* counter never comes back to it, neither after a failed Write or Sync    *)
(* that left bytes in the file nor when OpenJournal counts again after a   *)
(* crash or a power loss, so no later Append returns it.  The stamper's    *)
(* cursor, which is such an index, depends on it.                          *)
(***************************************************************************)
IndexNotReused ==
  \A a \in acked : a[1] < Readable /\ \A b \in acked : a[1] = b[1] => a = b

\* The log a reader sees, a torn or misplaced record shown as it is read.
RecordAt(i) ==
  IF \E c \in Commitment : Read(i) = Parts(c)
  THEN CHOOSE c \in Commitment : Read(i) = Parts(c)
  ELSE <<"torn", Read(i)>>

VisibleLog == [i \in 1..Readable |-> RecordAt(i - 1)]

Log == INSTANCE DurableLog WITH
         log <- VisibleLog,
         stable <- IF failed THEN damagedAt ELSE StableRecords,
         damaged <- failed

(***************************************************************************)
(* The journal implements the durable log: readers only ever see it grow   *)
(* by whole commitments at the end, and lose at most the records no fsync  *)
(* has covered, through every append, crash and reopening (OpenJournal's   *)
(* truncation, Append's order of write, sync and count); after a failed    *)
(* Append they keep the records that were on disk by then.                 *)
(***************************************************************************)
ImplementsLog == Log!LogSpec
=============================================================================
