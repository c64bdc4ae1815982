--------------------------- MODULE JournalProofs ---------------------------
(***************************************************************************)
(* Theorems about Journal, for records of any size and any number of short *)
(* writes, failed fsyncs, crashes and power losses: what was acknowledged  *)
(* before the first failure stays readable, no index is given out twice,   *)
(* and the file implements DurableLog.                                     *)
(***************************************************************************)
EXTENDS Journal, SequenceTheorems, TLAPS

Part == Commitment \X (1..RecordSize)

(***************************************************************************)
(* Arithmetic of records: q records fit in n parts exactly if q is at most *)
(* the quotient.                                                           *)
(***************************************************************************)
LEMMA Fits ==
  ASSUME NEW q \in Nat, NEW n \in Nat
  PROVE  /\ q * RecordSize \in Nat
         /\ n \div RecordSize \in Nat
         /\ q * RecordSize <= n <=> q <= n \div RecordSize
BY JournalAssumption

LEMMA NextRecord ==
  ASSUME NEW q \in Nat
  PROVE  /\ (q + 1) * RecordSize = q * RecordSize + RecordSize
         /\ (q * RecordSize) \div RecordSize = q
         /\ \A p \in Nat : p <= q => p * RecordSize <= q * RecordSize
         /\ \A p \in Nat : p * RecordSize <= q * RecordSize => p <= q
<1>1. (q + 1) * RecordSize = q * RecordSize + RecordSize
  BY JournalAssumption
<1>2. (q * RecordSize) \div RecordSize = q
  BY JournalAssumption
<1>3. \A p \in Nat : p <= q => p * RecordSize <= q * RecordSize
  BY JournalAssumption
<1>4. q * RecordSize \in Nat
  BY JournalAssumption
<1>5. \A p \in Nat : p * RecordSize <= q * RecordSize => p <= q
  BY <1>2, <1>4, Fits
<1> QED BY <1>1, <1>2, <1>3, <1>5

\* OpenJournal's truncation keeps the records that fit.
LEMMA WholeRecordsFit ==
  ASSUME NEW n \in Nat
  PROVE  /\ WholeRecords(n) = (n \div RecordSize) * RecordSize
         /\ WholeRecords(n) \in 0..n
         /\ RecordsIn(WholeRecords(n)) = n \div RecordSize
<1>1. n \div RecordSize \in Nat /\ n - (n % RecordSize) = (n \div RecordSize) * RecordSize
  BY JournalAssumption
<1>2. (n \div RecordSize) * RecordSize <= n /\ (n \div RecordSize) * RecordSize \in Nat
  BY <1>1, Fits
<1> QED BY <1>1, <1>2, NextRecord DEF WholeRecords, RecordsIn

-----------------------------------------------------------------------------
\* What an open file looks like.
ShapeInv ==
  /\ state = "written" => (count + 1) * RecordSize <= Len(file)
  /\ ~failed => intact = acked
  /\ ~failed /\ state # "closed" => synced <= count * RecordSize
  /\ ~failed /\ state = "open" => Len(file) = count * RecordSize
  /\ ~failed /\ state = "written" =>
       /\ Len(file) = (count + 1) * RecordSize
       /\ \E c \in Commitment : rec = {c} /\ Read(count) = Parts(c)

\* A record that is on disk for good and within the reader's reach.
Kept(n) == n * RecordSize <= synced /\ (state # "closed" => n <= count)

KeptInv ==
  /\ failed => Kept(damagedAt)
  /\ \A a \in intact : Kept(a[1] + 1) /\ Read(a[1]) = Parts(a[2])

JournalInv == TypeOK /\ ShapeInv /\ KeptInv

LEMMA JournalInit == Init => JournalInv
<1> SUFFICES ASSUME Init PROVE JournalInv
  OBVIOUS
<1>1. file \in Seq(Part) /\ Len(file) = 0
  BY EmptySeq DEF Init
<1>2. Len(file) \div RecordSize \in Nat /\ MaxFaults \in Nat
  BY <1>1, Fits, JournalAssumption
<1>3. TypeOK
  BY <1>1, <1>2 DEF Init, TypeOK, Part
<1> QED BY <1>3 DEF Init, JournalInv, ShapeInv, KeptInv, failed

-----------------------------------------------------------------------------
(***************************************************************************)
(* The three things that happen to the file: it is cut, it grows, or it    *)
(* stays.  The first n parts are the same before and after.                *)
(***************************************************************************)
Agree(n) ==
  /\ n <= Len(file) /\ n <= Len(file')
  /\ \A k \in 1..n : file'[k] = file[k]

LEMMA FileOK ==
  ASSUME JournalInv
  PROVE  /\ file \in Seq(Part) /\ Len(file) \in Nat /\ DOMAIN file = 1..Len(file)
         /\ synced \in Nat /\ synced <= Len(file)
         /\ count \in Nat /\ count * RecordSize <= Len(file)
<1>1. file \in Seq(Part) /\ synced \in 0..Len(file) /\ count \in 0..(Len(file) \div RecordSize)
  BY DEF JournalInv, TypeOK, Part
<1>2. Len(file) \in Nat /\ DOMAIN file = 1..Len(file)
  BY <1>1, LenProperties
<1>3. Len(file) \div RecordSize \in Nat
  BY <1>2, Fits
<1>4. count \in Nat /\ count <= Len(file) \div RecordSize
  BY <1>1, <1>3
<1> QED BY <1>1, <1>2, <1>4, Fits

LEMMA CutFile ==
  ASSUME JournalInv, NEW n \in Nat, n <= Len(file), file' = SubSeq(file, 1, n)
  PROVE  file' \in Seq(Part) /\ Len(file') = n /\ Agree(n)
<1>1. file \in Seq(Part) /\ Len(file) \in Nat
  BY FileOK
<1>2. \A k \in 1..n : file[k] \in Part
  BY <1>1, ElementOfSeq
<1>3. file' \in Seq(Part)
  BY <1>2, SubSeqProperties
<1>4. Len(file') = n /\ \A k \in 1..n : file'[k] = file[k]
  BY <1>1
<1> QED BY <1>3, <1>4 DEF Agree

LEMMA GrowFile ==
  ASSUME JournalInv, NEW s \in Seq(Part), file' = file \o s
  PROVE  /\ file' \in Seq(Part) /\ Len(file') = Len(file) + Len(s) /\ Agree(Len(file))
         /\ \A k \in 1..Len(s) : file'[Len(file) + k] = s[k]
<1>1. file \in Seq(Part) /\ Len(file) \in Nat /\ Len(s) \in Nat
  BY FileOK, LenProperties
<1>2. /\ file' \in Seq(Part) /\ Len(file') = Len(file) + Len(s)
      /\ \A i \in 1..(Len(file) + Len(s)) :
           file'[i] = IF i <= Len(file) THEN file[i] ELSE s[i - Len(file)]
  BY <1>1, ConcatProperties
<1>3. \A k \in 1..Len(s) : file'[Len(file) + k] = s[k]
  BY <1>1, <1>2
<1>4. Agree(Len(file))
  BY <1>1, <1>2 DEF Agree
<1> QED BY <1>2, <1>3, <1>4

LEMMA SameFile ==
  ASSUME JournalInv, file' = file
  PROVE  file' \in Seq(Part) /\ Len(file') = Len(file) /\ Agree(Len(file))
BY FileOK DEF Agree

\* A record within the unchanged part is read as before.
LEMMA SameRecord ==
  ASSUME NEW n \in Nat, Agree(n), NEW i \in Nat, (i + 1) * RecordSize <= n
  PROVE  Read(i)' = Read(i) /\ RecordAt(i)' = RecordAt(i)
<1> DEFINE b == i * RecordSize
<1>1. b \in Nat /\ (i + 1) * RecordSize = b + RecordSize /\ RecordSize \in Nat
  BY NextRecord, Fits, JournalAssumption
<1> HIDE DEF b
<1>2. \A k \in (b + 1)..(b + RecordSize) : file'[k] = file[k]
  BY <1>1 DEF Agree
<1>3. SubSeq(file', b + 1, b + RecordSize) = SubSeq(file, b + 1, b + RecordSize)
  <2>1. \A k \in 1..RecordSize : file'[k + (b + 1) - 1] = file[k + (b + 1) - 1]
    BY <1>1, <1>2
  <2> QED BY <1>1, <2>1
<1>4. Read(i)' = Read(i)
  BY <1>1, <1>3 DEF Read, b
<1> QED BY <1>4 DEF RecordAt

LEMMA WithinSynced ==
  ASSUME JournalInv, NEW m \in Nat, synced <= m
  PROVE  \A q \in Nat : q * RecordSize <= synced => q * RecordSize <= m
<1>1. synced \in Nat
  BY FileOK
<1>2. ASSUME NEW q \in Nat, q * RecordSize <= synced PROVE q * RecordSize <= m
  <2>1. q * RecordSize \in Nat
    BY Fits
  <2> QED BY <1>1, <1>2, <2>1
<1> QED BY <1>2

(***************************************************************************)
(* A step that keeps the whole records on disk and, while the journal is   *)
(* open, within reach of the counter, keeps what KeptInv speaks of.        *)
(***************************************************************************)
LEMMA KeptStep ==
  ASSUME JournalInv, NEW n \in Nat, Agree(n), synced' \in Nat,
         \A q \in Nat : q * RecordSize <= synced =>
                         q * RecordSize <= synced' /\ q * RecordSize <= n,
         state' # "closed" => \A q \in Nat : Kept(q) => q <= count'
  PROVE  /\ failed => Kept(damagedAt) /\ damagedAt * RecordSize <= synced'
                      /\ (state' # "closed" => damagedAt <= count')
         /\ \A a \in intact : /\ (a[1] + 1) * RecordSize <= synced'
                              /\ state' # "closed" => a[1] + 1 <= count'
                              /\ Read(a[1])' = Parts(a[2])
<1>1. failed => damagedAt \in Nat
  BY DEF JournalInv, TypeOK, failed
<1>2. failed => Kept(damagedAt)
  BY DEF JournalInv, KeptInv
<1>3. failed => damagedAt * RecordSize <= synced' /\ (state' # "closed" => damagedAt <= count')
  BY <1>1, <1>2 DEF Kept
<1>4. ASSUME NEW a \in intact
      PROVE  /\ (a[1] + 1) * RecordSize <= synced'
             /\ state' # "closed" => a[1] + 1 <= count'
             /\ Read(a[1])' = Parts(a[2])
  <2>1. a[1] \in Nat /\ a[1] + 1 \in Nat
    BY DEF JournalInv, TypeOK
  <2>2. Kept(a[1] + 1) /\ Read(a[1]) = Parts(a[2])
    BY DEF JournalInv, KeptInv
  <2>3. (a[1] + 1) * RecordSize <= synced' /\ (a[1] + 1) * RecordSize <= n
    BY <2>1, <2>2 DEF Kept
  <2>4. Read(a[1])' = Read(a[1])
    BY <2>1, <2>3, SameRecord
  <2> QED BY <2>1, <2>2, <2>3, <2>4
<1> QED BY <1>2, <1>3, <1>4

\* KeptInv' when no history variable changes.
LEMMA KeptSame ==
  ASSUME JournalInv, NEW n \in Nat, Agree(n), synced' \in Nat,
         \A q \in Nat : q * RecordSize <= synced =>
                         q * RecordSize <= synced' /\ q * RecordSize <= n,
         state' # "closed" => \A q \in Nat : Kept(q) => q <= count',
         damagedAt' = damagedAt, intact' = intact
  PROVE  KeptInv'
BY KeptStep DEF KeptInv, Kept, failed

LEMMA OpenStep ==
  ASSUME JournalInv, OpenJournal
  PROVE  /\ JournalInv' /\ state = "closed" /\ state' = "open"
         /\ count' = Len(file) \div RecordSize
         /\ Agree(count' * RecordSize)
         /\ synced' = IF count' * RecordSize < synced THEN count' * RecordSize ELSE synced
<1> DEFINE size == WholeRecords(Len(file))
<1>1. /\ file \in Seq(Part) /\ Len(file) \in Nat /\ synced \in Nat /\ synced <= Len(file)
  BY FileOK
<1>2. /\ state = "closed" /\ state' = "open"
      /\ file' = SubSeq(file, 1, size)
      /\ synced' = IF size < synced THEN size ELSE synced
      /\ count' = RecordsIn(size)
      /\ UNCHANGED <<rec, acked, intact, damagedAt, tried, faults>>
  BY DEF OpenJournal
<1>3. /\ size \in Nat /\ size <= Len(file) /\ count' = Len(file) \div RecordSize
      /\ count' \in Nat /\ size = count' * RecordSize
  BY <1>1, <1>2, WholeRecordsFit, Fits
<1> HIDE DEF size
<1>4. file' \in Seq(Part) /\ Len(file') = size /\ Agree(size)
  BY <1>2, <1>3, CutFile
<1>5. synced' \in Nat /\ synced' <= size /\ synced' <= synced
  BY <1>1, <1>2, <1>3
<1>6. count' \in 0..(Len(file') \div RecordSize)
  BY <1>3, <1>4, NextRecord
<1>7. TypeOK'
  <2>1. synced' \in 0..Len(file')
    BY <1>4, <1>5, <1>3
  <2> QED BY <1>2, <1>4, <1>6, <2>1 DEF JournalInv, TypeOK, Part
<1>8. ASSUME NEW q \in Nat, q * RecordSize <= synced
      PROVE  q <= count' /\ q * RecordSize <= size /\ q * RecordSize <= synced'
  <2>1. q * RecordSize \in Nat /\ q * RecordSize <= Len(file)
    BY <1>1, <1>8, Fits
  <2>2. q <= count'
    BY <1>1, <1>3, <2>1, Fits
  <2>3. q * RecordSize <= size
    BY <1>3, <2>2, NextRecord
  <2> QED BY <1>2, <1>8, <2>2, <2>3
<1>9. KeptInv'
  BY <1>2, <1>3, <1>4, <1>5, <1>8, KeptSame DEF Kept
<1>10. ShapeInv'
  BY <1>2, <1>3, <1>4, <1>5 DEF JournalInv, ShapeInv, failed
<1> QED BY <1>2, <1>3, <1>4, <1>7, <1>9, <1>10 DEF JournalInv

\* Parts is a record's content, and tells records apart.
LEMMA PartsOK ==
  ASSUME NEW c \in Commitment
  PROVE  /\ Parts(c) \in Seq(Part) /\ Len(Parts(c)) = RecordSize
         /\ \A k \in 1..RecordSize : Parts(c)[k] = <<c, k>>
         /\ \A d \in Commitment : Parts(d) = Parts(c) => d = c
<1>1. RecordSize \in Nat /\ 1 \in 1..RecordSize
  BY JournalAssumption
<1>2. \A d \in Commitment : \A k \in 1..RecordSize : Parts(d)[k] = <<d, k>>
  BY DEF Parts
<1>3. \A k \in 1..RecordSize : <<c, k>> \in Part
  BY DEF Part
<1>4. Parts(c) \in Seq(Part) /\ Len(Parts(c)) = RecordSize
  BY <1>1, <1>3 DEF Parts
<1>5. ASSUME NEW d \in Commitment, Parts(d) = Parts(c) PROVE d = c
  <2>1. <<d, 1>> = <<c, 1>>
    BY <1>1, <1>2, <1>5
  <2> QED BY <2>1
<1> QED BY <1>2, <1>4, <1>5

\* A slice of a sequence, element by element.
LEMMA SliceIs ==
  ASSUME NEW s, NEW b \in Nat, NEW t \in Seq(Part), Len(t) = RecordSize,
         \A k \in 1..RecordSize : s[b + k] = t[k]
  PROVE  SubSeq(s, b + 1, b + RecordSize) = t
<1>1. RecordSize \in Nat /\ RecordSize # 0
  BY JournalAssumption
<1>2. \A k \in (b + 1)..(b + RecordSize) : k - b \in 1..RecordSize /\ s[k] = t[k - b]
  <2>1. \A k \in (b + 1)..(b + RecordSize) : k - b \in 1..RecordSize /\ b + (k - b) = k
    BY <1>1
  <2> QED BY <2>1
<1>3. \A k \in (b + 1)..(b + RecordSize) : s[k] \in Part
  BY <1>2, ElementOfSeq
<1> DEFINE u == SubSeq(s, b + 1, b + RecordSize)
           n == b + RecordSize
<1>4. /\ u \in Seq(Part)
      /\ Len(u) = IF b + 1 <= n THEN n - (b + 1) + 1 ELSE 0
      /\ \A k \in 1..(n - (b + 1) + 1) : u[k] = s[b + 1 + k - 1]
  BY <1>1, <1>3, SubSeqProperties
<1>5. b + 1 <= n /\ n - (b + 1) + 1 = RecordSize
  BY <1>1
<1>6. \A k \in 1..RecordSize : b + 1 + k - 1 = b + k
  BY <1>1
<1> HIDE DEF u, n
<1>7. Len(u) = RecordSize /\ \A k \in 1..RecordSize : u[k] = t[k]
  BY <1>4, <1>5, <1>6
<1> QED BY <1>4, <1>7, SeqEqual DEF u

\* A first failure is noted with the records that are on disk.
LEMMA FailStep ==
  ASSUME JournalInv, Fail, ~failed, state # "closed"
  PROVE  damagedAt' \in Nat /\ damagedAt' * RecordSize <= synced /\ damagedAt' <= count
<1>1. synced \in Nat /\ count \in Nat /\ synced <= count * RecordSize
  BY FileOK DEF JournalInv, ShapeInv
<1>2. damagedAt' = synced \div RecordSize
  BY DEF Fail, StableRecords
<1>3. damagedAt' \in Nat /\ damagedAt' * RecordSize <= synced
  BY <1>1, <1>2, Fits
<1>4. damagedAt' * RecordSize <= count * RecordSize
  BY <1>1, <1>3, Fits
<1> QED BY <1>1, <1>3, <1>4, NextRecord

\* An Append that returns an error, in Write or in Sync.
LEMMA FailedAppend ==
  ASSUME JournalInv, Fail, state # "closed", state' = "open", Agree(Len(file)),
         file' \in Seq(Part), rec' \subseteq Commitment, tried' \subseteq Commitment,
         faults' \in 0..MaxFaults, UNCHANGED <<synced, count, acked, intact>>
  PROVE  /\ JournalInv' /\ failed'
         /\ damagedAt' = IF failed THEN damagedAt ELSE StableRecords
<1>1. /\ Len(file) \in Nat /\ synced \in Nat /\ synced <= Len(file)
      /\ count \in Nat /\ count * RecordSize <= Len(file)
  BY FileOK
<1>2. Len(file') \in Nat /\ Len(file) <= Len(file')
  BY LenProperties DEF Agree
<1>3. damagedAt' \in Nat
  BY FailStep DEF Fail, failed, JournalInv, TypeOK
<1>4. failed'
  BY <1>3 DEF failed, NotYet
<1>5. TypeOK'
  <2>1. count * RecordSize <= Len(file') /\ Len(file') \div RecordSize \in Nat
    BY <1>1, <1>2, Fits
  <2>2. count' \in 0..(Len(file') \div RecordSize)
    BY <1>1, <1>2, <2>1, Fits
  <2>3. synced' \in 0..Len(file')
    BY <1>1, <1>2
  <2> QED BY <1>3, <2>2, <2>3 DEF JournalInv, TypeOK, Part
<1>6. \A q \in Nat : q * RecordSize <= synced =>
        q * RecordSize <= synced' /\ q * RecordSize <= Len(file)
  BY <1>1, WithinSynced
<1>7. /\ failed => Kept(damagedAt)
      /\ \A a \in intact : /\ (a[1] + 1) * RecordSize <= synced'
                           /\ a[1] + 1 <= count'
                           /\ Read(a[1])' = Parts(a[2])
  BY <1>1, <1>6, KeptStep DEF Kept
<1>8. damagedAt' * RecordSize <= synced /\ damagedAt' <= count
  BY <1>7, FailStep DEF Fail, Kept
<1>9. KeptInv'
  BY <1>7, <1>8 DEF KeptInv, Kept
<1>10. ShapeInv'
  BY <1>4 DEF ShapeInv
<1> QED BY <1>4, <1>5, <1>9, <1>10 DEF JournalInv, Fail

LEMMA FaultsBounded ==
  ASSUME JournalInv, NEW kind, Fault(kind)
  PROVE  faults' \in 0..MaxFaults
BY JournalAssumption DEF JournalInv, TypeOK, Fault

\* f.Write succeeds: the record is in the file, after the ones counted.
LEMMA WrittenStep ==
  ASSUME JournalInv, NEW c \in Commitment, state = "open", state' = "written",
         file' = WriteAtOffset(Parts(c)), rec' = {c}, tried' \subseteq Commitment,
         UNCHANGED <<synced, count, acked, intact, damagedAt, faults>>
  PROVE  JournalInv' /\ Agree(Len(file))
<1>1. /\ file \in Seq(Part) /\ Len(file) \in Nat /\ synced \in Nat /\ synced <= Len(file)
      /\ count \in Nat /\ count * RecordSize <= Len(file) /\ RecordSize \in Nat
      /\ count * RecordSize \in Nat
  BY FileOK, Fits, JournalAssumption
<1>2. /\ file' \in Seq(Part) /\ Len(file') = Len(file) + RecordSize /\ Agree(Len(file))
      /\ \A k \in 1..RecordSize : file'[Len(file) + k] = Parts(c)[k]
  <2>1. Parts(c) \in Seq(Part) /\ Len(Parts(c)) = RecordSize
    BY PartsOK
  <2>2. file' = file \o Parts(c)
    BY DEF WriteAtOffset
  <2>3. /\ file' \in Seq(Part) /\ Len(file') = Len(file) + Len(Parts(c))
        /\ Agree(Len(file))
        /\ \A k \in 1..Len(Parts(c)) : file'[Len(file) + k] = Parts(c)[k]
    BY <2>1, <2>2, GrowFile
  <2> QED BY <2>1, <2>3
<1>3. (count + 1) * RecordSize = count * RecordSize + RecordSize
  BY <1>1, NextRecord
<1>4. TypeOK'
  <2>1. count * RecordSize <= Len(file') /\ Len(file') \in Nat
    BY <1>1, <1>2
  <2>2. count' \in 0..(Len(file') \div RecordSize)
    BY <1>1, <2>1, Fits
  <2>3. synced' \in 0..Len(file')
    BY <1>1, <1>2
  <2> QED BY <1>2, <2>2, <2>3 DEF JournalInv, TypeOK, Part
<1>5. KeptInv'
  <2>1. \A q \in Nat : q * RecordSize <= synced =>
          q * RecordSize <= synced' /\ q * RecordSize <= Len(file)
    BY <1>1, WithinSynced
  <2> QED BY <1>1, <1>2, <2>1, KeptSame DEF Kept
<1>6. ASSUME ~failed
      PROVE  Len(file') = (count + 1) * RecordSize /\ Read(count)' = Parts(c)
  <2>1. Len(file) = count * RecordSize
    BY <1>6 DEF JournalInv, ShapeInv
  <2> DEFINE b == count * RecordSize
  <2>2. b \in Nat /\ \A k \in 1..RecordSize : file'[b + k] = Parts(c)[k]
    BY <1>1, <1>2, <2>1
  <2>3. Read(count)' = SubSeq(file', b + 1, b + RecordSize)
    BY <1>3 DEF Read
  <2>4. Parts(c) \in Seq(Part) /\ Len(Parts(c)) = RecordSize
    BY PartsOK
  <2>5. SubSeq(file', b + 1, b + RecordSize) = Parts(c)
    BY <2>2, <2>4, SliceIs
  <2> QED BY <1>2, <1>3, <2>1, <2>3, <2>5
<1>7. ShapeInv'
  <2>1. (count + 1) * RecordSize <= Len(file')
    BY <1>1, <1>2, <1>3
  <2> QED BY <1>6, <2>1 DEF JournalInv, ShapeInv, failed
<1> QED BY <1>2, <1>4, <1>5, <1>7 DEF JournalInv

LEMMA WriteStep ==
  ASSUME JournalInv, NEW c \in Commitment, AppendWrite(c)
  PROVE  /\ JournalInv' /\ Agree(Len(file)) /\ state = "open" /\ state' # "closed"
         /\ count' = count /\ synced' = synced
         /\ \/ damagedAt' = damagedAt
            \/ damagedAt' = (IF failed THEN damagedAt ELSE StableRecords) /\ failed'
<1>1. /\ state = "open" /\ tried' = tried \cup {c}
      /\ UNCHANGED <<synced, count, acked, intact>>
  BY DEF AppendWrite
<1>2. tried' \subseteq Commitment
  BY <1>1 DEF JournalInv, TypeOK
<1>3. CASE /\ file' = WriteAtOffset(Parts(c))
           /\ state' = "written"
           /\ rec' = {c}
           /\ UNCHANGED <<faults, damagedAt>>
  BY <1>1, <1>2, <1>3, WrittenStep
<1>4. CASE /\ Fault("write")
           /\ \E k \in 0..(RecordSize - 1) : file' = WriteAtOffset(SubSeq(Parts(c), 1, k))
           /\ Fail
           /\ UNCHANGED <<state, rec>>
  <2>1. PICK k \in 0..(RecordSize - 1) : file' = WriteAtOffset(SubSeq(Parts(c), 1, k))
    BY <1>4
  <2>2. SubSeq(Parts(c), 1, k) \in Seq(Part)
    <3>1. k \in Nat /\ k <= RecordSize /\ RecordSize \in Nat
      BY JournalAssumption
    <3>2. \A i \in 1..k : Parts(c)[i] \in Part
      BY <3>1, PartsOK, ElementOfSeq
    <3> QED BY <3>1, <3>2, SubSeqProperties
  <2>3. file' \in Seq(Part) /\ Agree(Len(file))
    BY <2>1, <2>2, GrowFile DEF WriteAtOffset
  <2>4. rec' \subseteq Commitment /\ faults' \in 0..MaxFaults
    BY <1>4, FaultsBounded DEF JournalInv, TypeOK
  <2> QED BY <1>1, <1>2, <1>4, <2>3, <2>4, FailedAppend
<1> QED BY <1>3, <1>4 DEF AppendWrite

\* f.Sync succeeds: what Append answers for is on disk.
LEMMA SyncedStep ==
  ASSUME JournalInv, state = "written", state' = "open", rec' = {},
         synced' = SyncedAll, acked' = acked \cup Answer,
         intact' = IF failed THEN intact ELSE acked', count' = count + 1,
         UNCHANGED <<file, tried, faults, damagedAt>>
  PROVE  JournalInv'
<1>1. /\ file \in Seq(Part) /\ Len(file) \in Nat /\ synced \in Nat /\ synced <= Len(file)
      /\ count \in Nat /\ count + 1 \in Nat
      /\ (count + 1) * RecordSize <= Len(file) /\ synced' = Len(file)
  BY FileOK DEF SyncedAll, JournalInv, ShapeInv
<1>2. Agree(Len(file))
  BY SameFile
<1>3. rec \subseteq Commitment /\ Answer \subseteq Nat \X Commitment
  BY <1>1 DEF Answer, JournalInv, TypeOK
<1>4. TypeOK'
  <2>1. count' \in 0..(Len(file') \div RecordSize)
    BY <1>1, Fits
  <2>2. acked' \subseteq Nat \X Commitment /\ intact' \subseteq acked'
    BY <1>3 DEF JournalInv, TypeOK
  <2>3. synced' \in 0..Len(file')
    BY <1>1
  <2> QED BY <1>1, <2>1, <2>2, <2>3 DEF JournalInv, TypeOK, Part
<1>5. /\ failed => damagedAt * RecordSize <= synced' /\ damagedAt <= count'
      /\ \A a \in intact : /\ (a[1] + 1) * RecordSize <= synced'
                           /\ a[1] + 1 <= count'
                           /\ Read(a[1])' = Parts(a[2])
  <2>1. \A q \in Nat : q * RecordSize <= synced =>
          q * RecordSize <= synced' /\ q * RecordSize <= Len(file)
    BY <1>1, WithinSynced
  <2>2. \A q \in Nat : Kept(q) => q <= count'
    BY <1>1 DEF Kept
  <2> QED BY <1>1, <1>2, <2>1, <2>2, KeptStep
<1>6. ASSUME ~failed, NEW a \in Answer
      PROVE  /\ (a[1] + 1) * RecordSize <= synced' /\ a[1] + 1 <= count'
             /\ Read(a[1])' = Parts(a[2])
  <2>1. PICK c \in Commitment : rec = {c} /\ Read(count) = Parts(c)
    BY <1>6 DEF JournalInv, ShapeInv
  <2>2. a[1] = count /\ a[2] = c
    BY <2>1 DEF Answer
  <2> QED BY <1>1, <2>1, <2>2 DEF Read
<1>7. KeptInv'
  <2>1. \A a \in intact' : Kept(a[1] + 1)' /\ Read(a[1])' = Parts(a[2])
    BY <1>5, <1>6 DEF Kept, JournalInv, ShapeInv
  <2> QED BY <1>5, <2>1 DEF KeptInv, Kept, failed
<1>8. ShapeInv'
  <2>1. ~failed => Len(file) = (count + 1) * RecordSize
    BY DEF JournalInv, ShapeInv
  <2> QED BY <1>1, <2>1 DEF ShapeInv, failed
<1> QED BY <1>4, <1>7, <1>8 DEF JournalInv

LEMMA SyncStep ==
  ASSUME JournalInv, AppendSync
  PROVE  JournalInv'
<1>1. /\ state = "written" /\ state' = "open" /\ rec' = {} /\ UNCHANGED <<file, tried>>
  BY DEF AppendSync
<1>2. CASE /\ synced' = SyncedAll
           /\ acked' = acked \cup Answer
           /\ intact' = IF failed THEN intact ELSE acked'
           /\ count' = count + 1
           /\ UNCHANGED <<faults, damagedAt>>
  BY <1>1, <1>2, SyncedStep
<1>3. CASE Fault("sync") /\ Fail /\ UNCHANGED <<synced, acked, intact, count>>
  <2>1. file' \in Seq(Part) /\ Agree(Len(file))
    BY <1>1, SameFile
  <2>2. rec' \subseteq Commitment /\ tried' \subseteq Commitment /\ faults' \in 0..MaxFaults
    BY <1>1, <1>3, FaultsBounded DEF JournalInv, TypeOK
  <2> QED BY <1>1, <1>3, <2>1, <2>2, FailedAppend
<1> QED BY <1>2, <1>3 DEF AppendSync

LEMMA CrashStep ==
  ASSUME JournalInv, Crash
  PROVE  /\ JournalInv' /\ state # "closed" /\ state' = "closed"
         /\ damagedAt' = damagedAt
         /\ \/ file' = file /\ synced' = synced
            \/ /\ Len(file') \in synced..Len(file) /\ synced' = Len(file')
               /\ Agree(Len(file'))
<1>1. /\ state # "closed" /\ state' = "closed" /\ count' = 0 /\ rec' = {}
      /\ UNCHANGED <<acked, intact, damagedAt, tried>>
  BY DEF Crash
<1>2. faults' \in 0..MaxFaults
  BY FaultsBounded DEF Crash
<1>3. /\ file \in Seq(Part) /\ Len(file) \in Nat /\ synced \in Nat /\ synced <= Len(file)
  BY FileOK
<1>4. /\ file' \in Seq(Part) /\ Agree(Len(file')) /\ Len(file') \in Nat
      /\ synced <= synced' /\ synced' <= Len(file') /\ synced' \in Nat
      /\ \/ file' = file /\ synced' = synced
         \/ Len(file') \in synced..Len(file) /\ synced' = Len(file')
  <2>1. CASE UNCHANGED <<file, synced>>
    BY <1>3, <2>1, SameFile
  <2>2. ASSUME NEW n \in synced..Len(file), file' = SubSeq(file, 1, n), synced' = n
        PROVE  /\ file' \in Seq(Part) /\ Len(file') = n /\ Agree(n) /\ n \in Nat
    <3>1. n \in Nat /\ n <= Len(file)
      BY <1>3
    <3> QED BY <2>2, <3>1, CutFile
  <2> QED BY <1>3, <2>1, <2>2 DEF Crash
<1>5. TypeOK'
  <2>1. count' \in 0..(Len(file') \div RecordSize)
    BY <1>1, <1>4, Fits
  <2> QED BY <1>1, <1>2, <1>4, <2>1 DEF JournalInv, TypeOK, Part
<1>6. KeptInv'
  <2>1. \A q \in Nat : q * RecordSize <= synced =>
          q * RecordSize <= synced' /\ q * RecordSize <= Len(file')
    <3>1. synced <= Len(file')
      BY <1>3, <1>4
    <3> QED BY <1>4, <3>1, WithinSynced
  <2> QED BY <1>1, <1>4, <2>1, KeptSame
<1>7. ShapeInv'
  BY <1>1 DEF JournalInv, ShapeInv, failed
<1> QED BY <1>1, <1>4, <1>5, <1>6, <1>7 DEF JournalInv

-----------------------------------------------------------------------------
LEMMA JournalStep ==
  ASSUME JournalInv, [Next]_vars
  PROVE  JournalInv'
<1>1. CASE Next
  BY <1>1, OpenStep, WriteStep, SyncStep, CrashStep DEF Next
<1>2. CASE UNCHANGED vars
  BY <1>2 DEF vars, JournalInv, TypeOK, ShapeInv, KeptInv, Kept, failed, Read
<1> QED BY <1>1, <1>2

(***************************************************************************)
(* The file is where the counter says, as long as no Append failed, and    *)
(* what is on disk for good is within the synced part and, while the       *)
(* journal is open, below the counter.                                     *)
(***************************************************************************)
THEOREM JournalInvariant == Spec => []JournalInv
<1>1. Init => JournalInv
  BY JournalInit
<1>2. JournalInv /\ [Next]_vars => JournalInv'
  BY JournalStep
<1> QED BY <1>1, <1>2, PTL DEF Spec

(***************************************************************************)
(* The variables keep their types; in particular j.count never exceeds the *)
(* whole records of the file, so Read stays inside it.                     *)
(***************************************************************************)
THEOREM CountWithinFile == Spec => []TypeOK
<1>1. JournalInv => TypeOK
  BY DEF JournalInv
<1> QED BY <1>1, JournalInvariant, PTL

\* What a reader can reach is in the file.
LEMMA ReadableFits ==
  ASSUME JournalInv
  PROVE  /\ Readable \in Nat /\ Readable * RecordSize <= Len(file)
         /\ \A n \in Nat : Kept(n) => n <= Readable
<1>1. /\ Len(file) \in Nat /\ synced \in Nat /\ synced <= Len(file)
      /\ count \in Nat /\ count * RecordSize <= Len(file)
  BY FileOK
<1>2. CASE state = "closed"
  <2>1. Readable = Len(file) \div RecordSize /\ Readable \in Nat
    BY <1>1, <1>2, Fits DEF Readable
  <2>2. Readable * RecordSize <= Len(file)
    BY <1>1, <2>1, Fits
  <2>3. ASSUME NEW n \in Nat, Kept(n) PROVE n <= Readable
    <3>1. n * RecordSize <= Len(file)
      BY <1>1, <2>3, WithinSynced DEF Kept
    <3> QED BY <1>1, <2>1, <3>1, Fits
  <2> QED BY <2>1, <2>2, <2>3
<1>3. CASE state # "closed"
  BY <1>1, <1>3 DEF Readable, Kept
<1> QED BY <1>2, <1>3

(***************************************************************************)
(* Whatever Append acknowledged before it first failed is read back at its *)
(* index, through every later short write, failed fsync, crash, power loss *)
(* and OpenJournal's truncation.                                           *)
(***************************************************************************)
THEOREM AcknowledgedSurvives == Spec => []DamageConfined
<1>1. ASSUME JournalInv, NEW a \in intact PROVE ReadsBack(a)
  <2>1. a[1] \in Nat /\ a[1] + 1 \in Nat
    BY <1>1 DEF JournalInv, TypeOK
  <2>2. Kept(a[1] + 1) /\ Read(a[1]) = Parts(a[2])
    BY <1>1 DEF JournalInv, KeptInv
  <2>3. a[1] + 1 <= Readable /\ Readable \in Nat
    BY <1>1, <2>1, <2>2, ReadableFits
  <2> QED BY <2>1, <2>2, <2>3 DEF ReadsBack
<1>2. JournalInv => DamageConfined
  BY <1>1 DEF DamageConfined
<1> QED BY <1>2, JournalInvariant, PTL

(***************************************************************************)
(* As long as no Append has returned an error, every index Append returned *)
(* reads back its record, also after any crash and reopening: a failed     *)
(* Write or Sync that the process survives is the only way to lose one.    *)
(***************************************************************************)
THEOREM NoFailureNoLoss == Spec => [](~failed => AckedReadable)
<1>1. JournalInv /\ DamageConfined => (~failed => AckedReadable)
  BY DEF JournalInv, ShapeInv, DamageConfined, AckedReadable
<1> QED BY <1>1, JournalInvariant, AcknowledgedSurvives, PTL

(***************************************************************************)
(* Every index that was given out is on disk for good, also when what can  *)
(* be read there is another record; and it was given out once.             *)
(***************************************************************************)
IndexInv ==
  /\ \A a \in acked : Kept(a[1] + 1)
  /\ \A a, b \in acked : a[1] = b[1] => a = b
  /\ state = "written" => \E c \in Commitment : rec = {c}

\* A step that acknowledges nothing.
LEMMA IndexKept ==
  ASSUME JournalInv, IndexInv, acked' = acked,
         \A q \in Nat : Kept(q) =>
           q * RecordSize <= synced' /\ (state' # "closed" => q <= count'),
         state' = "written" => \E c \in Commitment : rec' = {c}
  PROVE  IndexInv'
<1>1. \A a \in acked : a[1] + 1 \in Nat
  BY DEF JournalInv, TypeOK
<1>2. \A a \in acked' : Kept(a[1] + 1)'
  BY <1>1 DEF IndexInv, Kept
<1> QED BY <1>2 DEF IndexInv

\* f.Sync succeeds: the index is the counter's, above all that were given out.
LEMMA IndexAnswered ==
  ASSUME JournalInv, IndexInv, state = "written", state' = "open",
         synced' = SyncedAll, acked' = acked \cup Answer, count' = count + 1
  PROVE  IndexInv'
<1>1. /\ count \in Nat /\ synced \in Nat /\ synced <= Len(file) /\ Len(file) \in Nat
      /\ (count + 1) * RecordSize <= Len(file) /\ synced' = Len(file)
  BY FileOK DEF SyncedAll, JournalInv, ShapeInv
<1>2. PICK c \in Commitment : Answer = {<<count, c>>}
  <2>1. PICK c \in Commitment : rec = {c}
    BY DEF IndexInv
  <2> QED BY <2>1 DEF Answer
<1>3. \A a \in acked : /\ a[1] \in Nat /\ a[1] < count
                       /\ (a[1] + 1) * RecordSize <= synced'
  <2>1. ASSUME NEW a \in acked
        PROVE  a[1] \in Nat /\ a[1] < count /\ (a[1] + 1) * RecordSize <= synced'
    <3>1. a[1] \in Nat /\ a[1] + 1 \in Nat
      BY DEF JournalInv, TypeOK
    <3>2. (a[1] + 1) * RecordSize <= synced /\ a[1] + 1 <= count
      BY DEF IndexInv, Kept
    <3>3. (a[1] + 1) * RecordSize \in Nat
      BY <3>1, Fits
    <3> QED BY <1>1, <3>1, <3>2, <3>3
  <2> QED BY <2>1
<1>4. \A a \in acked' : Kept(a[1] + 1)'
  <2>1. \A a \in acked : a[1] + 1 <= count'
    BY <1>1, <1>3
  <2>2. count + 1 <= count'
    BY <1>1
  <2> QED BY <1>1, <1>2, <1>3, <2>1, <2>2 DEF Kept
<1>5. \A a, b \in acked' : a[1] = b[1] => a = b
  <2>1. \A a \in acked : a[1] # count
    BY <1>1, <1>3
  <2> QED BY <1>2, <2>1 DEF IndexInv
<1> QED BY <1>4, <1>5 DEF IndexInv

LEMMA IndexStep ==
  ASSUME JournalInv, IndexInv, [Next]_vars
  PROVE  IndexInv'
<1>0. synced \in Nat /\ synced <= Len(file) /\ Len(file) \in Nat /\ count \in Nat
  BY FileOK
<1>1. CASE OpenJournal
  <2>1. /\ acked' = acked /\ state' = "open" /\ count' = Len(file) \div RecordSize
        /\ synced' = IF count' * RecordSize < synced THEN count' * RecordSize ELSE synced
    BY <1>1, OpenStep DEF OpenJournal
  <2>2. ASSUME NEW q \in Nat, Kept(q)
        PROVE  q * RecordSize <= synced' /\ q <= count'
    <3>1. q * RecordSize \in Nat /\ q * RecordSize <= Len(file)
      BY <1>0, <2>2, Fits DEF Kept
    <3>2. q <= count' /\ count' \in Nat
      BY <1>0, <2>1, <3>1, Fits
    <3>3. q * RecordSize <= count' * RecordSize
      BY <3>2, NextRecord
    <3> QED BY <2>1, <2>2, <3>2, <3>3 DEF Kept
  <2> QED BY <2>1, <2>2, IndexKept
<1>2. ASSUME NEW c \in Commitment, AppendWrite(c)
      PROVE  IndexInv'
  <2>1. /\ state = "open" /\ UNCHANGED <<acked, synced, count>>
        /\ state' = "written" => rec' = {c}
    BY <1>2 DEF AppendWrite
  <2> QED BY <2>1, IndexKept DEF Kept
<1>3. CASE AppendSync
  <2>1. state = "written" /\ state' = "open"
    BY <1>3 DEF AppendSync
  <2>2. CASE synced' = SyncedAll /\ acked' = acked \cup Answer /\ count' = count + 1
    BY <2>1, <2>2, IndexAnswered
  <2>3. CASE UNCHANGED <<synced, acked, count>>
    BY <2>1, <2>3, IndexKept DEF Kept
  <2> QED BY <1>3, <2>2, <2>3 DEF AppendSync
<1>4. CASE Crash
  <2>1. acked' = acked /\ state' = "closed"
    BY <1>4 DEF Crash
  <2>2. synced' = synced \/ synced' \in synced..Len(file)
    BY <1>4, CrashStep
  <2>3. \A q \in Nat : Kept(q) => q * RecordSize <= synced'
    <3>1. ASSUME NEW q \in Nat, Kept(q) PROVE q * RecordSize <= synced'
      <4>1. q * RecordSize \in Nat /\ q * RecordSize <= synced
        BY <3>1, Fits DEF Kept
      <4> QED BY <1>0, <2>2, <4>1
    <3> QED BY <3>1
  <2> QED BY <2>1, <2>3, IndexKept
<1>5. CASE UNCHANGED vars
  BY <1>5, IndexKept DEF vars, Kept, IndexInv
<1> QED BY <1>1, <1>2, <1>3, <1>4, <1>5 DEF Next

(***************************************************************************)
(* No index is given out twice, and none that was given out gets out of    *)
(* reach, whatever fails and however often the journal is reopened.        *)
(***************************************************************************)
THEOREM IndicesStay == Spec => []IndexNotReused
<1>1. Init => IndexInv
  BY DEF Init, IndexInv
<1>2. JournalInv /\ IndexInv /\ [Next]_vars => IndexInv'
  BY IndexStep
<1>3. ASSUME JournalInv, IndexInv PROVE IndexNotReused
  <2>1. ASSUME NEW a \in acked PROVE a[1] < Readable
    <3>1. a[1] \in Nat /\ Kept(a[1] + 1)
      BY <1>3 DEF JournalInv, TypeOK, IndexInv
    <3>2. a[1] + 1 <= Readable /\ Readable \in Nat
      BY <1>3, <3>1, ReadableFits DEF Kept
    <3> QED BY <3>1, <3>2
  <2> QED BY <1>3, <2>1 DEF IndexInv, IndexNotReused
<1> QED BY <1>1, <1>2, <1>3, JournalInvariant, PTL DEF Spec

-----------------------------------------------------------------------------
(***************************************************************************)
(* The refinement.  stableRecords is the number of records the log of      *)
(* DurableLog holds for stable, under Journal's mapping.                   *)
(***************************************************************************)
stableRecords == IF failed THEN damagedAt ELSE StableRecords

LEMMA StableReadable ==
  ASSUME JournalInv
  PROVE  stableRecords \in Nat /\ stableRecords <= Readable
<1>1. synced \in Nat /\ count \in Nat
  BY FileOK
<1>2. stableRecords \in Nat /\ Kept(stableRecords)
  <2>1. CASE failed
    BY <2>1 DEF stableRecords, failed, JournalInv, TypeOK, KeptInv
  <2>2. CASE ~failed
    <3>1. stableRecords = synced \div RecordSize
      BY <2>2 DEF stableRecords, StableRecords
    <3>2. stableRecords \in Nat /\ stableRecords * RecordSize <= synced
      BY <1>1, <3>1, Fits
    <3>3. state # "closed" => stableRecords <= count
      <4>1. ASSUME state # "closed" PROVE stableRecords <= count
        <5>1. synced <= count * RecordSize /\ count * RecordSize \in Nat
          BY <1>1, <2>2, <4>1, Fits DEF JournalInv, ShapeInv
        <5>2. stableRecords * RecordSize <= count * RecordSize
          BY <3>2, <5>1, WithinSynced
        <5> QED BY <1>1, <3>2, <5>2, NextRecord
      <4> QED BY <4>1
    <3> QED BY <3>2, <3>3 DEF Kept
  <2> QED BY <2>1, <2>2
<1> QED BY <1>2, ReadableFits

LEMMA SamePrefix ==
  ASSUME NEW s, NEW t, NEW n \in Nat, \A i \in 1..n : s[i] = t[i]
  PROVE  SubSeq(s, 1, n) = SubSeq(t, 1, n)
<1>1. \A i \in 1..n : i + 1 - 1 = i
  OBVIOUS
<1> QED BY <1>1

LEMMA LenOf ==
  ASSUME NEW n \in Nat, NEW f, f = [i \in 1..n |-> f[i]]
  PROVE  Len(f) = n /\ f \in Seq({f[i] : i \in 1..n})
OBVIOUS

\* The log before and after a step.
LEMMA LogIs ==
  ASSUME JournalInv, JournalInv'
  PROVE  /\ Readable \in Nat /\ Readable' \in Nat
         /\ Len(VisibleLog) = Readable /\ Len(VisibleLog') = Readable'
         /\ VisibleLog = [i \in 1..Readable |-> RecordAt(i - 1)]
         /\ VisibleLog' = [i \in 1..(Readable') |-> RecordAt(i - 1)']
         /\ VisibleLog \in Seq({VisibleLog[i] : i \in 1..Readable})
         /\ VisibleLog' \in Seq({VisibleLog'[i] : i \in 1..(Readable')})
<1>1. Readable \in Nat
  BY ReadableFits
<1>2. Readable' \in Nat
  BY Fits, LenProperties DEF Readable, JournalInv, TypeOK
<1>3. /\ VisibleLog = [i \in 1..Readable |-> RecordAt(i - 1)]
      /\ VisibleLog' = [i \in 1..(Readable') |-> RecordAt(i - 1)']
  BY DEF VisibleLog
<1>4. VisibleLog = [i \in 1..Readable |-> VisibleLog[i]]
  BY <1>3
<1>5. VisibleLog' = [i \in 1..(Readable') |-> VisibleLog'[i]]
  BY <1>3
<1>6. Len(VisibleLog) = Readable /\ VisibleLog \in Seq({VisibleLog[i] : i \in 1..Readable})
  BY <1>1, <1>4, LenOf
<1>7. /\ Len(VisibleLog') = Readable'
      /\ VisibleLog' \in Seq({VisibleLog'[i] : i \in 1..(Readable')})
  BY <1>2, <1>5, LenOf
<1> QED BY <1>1, <1>2, <1>3, <1>6, <1>7

\* The records in an unchanged part of the file are the same to a reader.
LEMMA SameLog ==
  ASSUME JournalInv, JournalInv', NEW m \in Nat, Agree(m),
         NEW n \in Nat, n * RecordSize <= m, n <= Readable, n <= Readable'
  PROVE  \A i \in 1..n : VisibleLog'[i] = VisibleLog[i]
<1>1. ASSUME NEW i \in 1..n PROVE VisibleLog'[i] = VisibleLog[i]
  <2>1. i - 1 \in Nat /\ (i - 1) + 1 = i /\ i \in Nat /\ i <= n
    OBVIOUS
  <2>2. i * RecordSize <= n * RecordSize /\ i * RecordSize \in Nat /\ n * RecordSize \in Nat
    BY <2>1, NextRecord, Fits
  <2>3. RecordAt(i - 1)' = RecordAt(i - 1)
    BY <2>1, <2>2, SameRecord
  <2>4. i \in 1..Readable /\ i \in 1..(Readable')
    BY <2>1, LogIs
  <2> QED BY <2>3, <2>4, LogIs
<1> QED BY <1>1

\* Steps that a reader does not notice.
LEMMA LogStutters ==
  ASSUME JournalInv, JournalInv', NEW m \in Nat, Agree(m), Readable * RecordSize <= m,
         Readable' = Readable
  PROVE  VisibleLog' = VisibleLog
<1>1. Readable \in Nat /\ Readable <= Readable /\ Readable <= Readable'
  BY ReadableFits
<1>2. \A i \in 1..Readable : VisibleLog'[i] = VisibleLog[i]
  BY <1>1, SameLog
<1>3. /\ VisibleLog = [i \in 1..Readable |-> VisibleLog[i]]
      /\ VisibleLog' = [i \in 1..Readable |-> VisibleLog'[i]]
  BY DEF VisibleLog
<1> QED BY <1>2, <1>3

\* Steps after which nothing is promised but the records that are stable.
LEMMA LogDamage ==
  ASSUME JournalInv, JournalInv', NEW m \in Nat, Agree(m), stableRecords * RecordSize <= m,
         stableRecords <= Readable', failed', damagedAt' = stableRecords
  PROVE  Log!LogNext
<1>1. stableRecords \in Nat /\ stableRecords <= Readable
  BY StableReadable
<1>2. /\ Len(VisibleLog) = Readable /\ Len(VisibleLog') = Readable'
      /\ Readable \in Nat /\ Readable' \in Nat
      /\ VisibleLog \in Seq({VisibleLog[i] : i \in 1..Readable})
      /\ VisibleLog' \in Seq({VisibleLog'[i] : i \in 1..(Readable')})
  BY LogIs
<1>3. \A i \in 1..stableRecords : VisibleLog'[i] = VisibleLog[i]
  BY <1>1, SameLog
<1>4. SubSeq(VisibleLog', 1, stableRecords) = SubSeq(VisibleLog, 1, stableRecords)
  BY <1>1, <1>3, SamePrefix
<1>5. stableRecords' = stableRecords
  BY DEF stableRecords
<1>6. Log!Damage
  BY <1>2, <1>4, <1>5 DEF Log!Damage, stableRecords
<1> QED BY <1>6 DEF Log!LogNext

LEMMA AppendIs ==
  ASSUME NEW S, NEW s \in Seq(S), NEW e
  PROVE  Append(s, e) = [i \in 1..(Len(s) + 1) |-> IF i = Len(s) + 1 THEN e ELSE s[i]]
<1> DEFINE t == Append(s, e)
<1>1. s \in Seq(S \cup {e}) /\ e \in S \cup {e}
  BY SeqMonotonic
<1>2. /\ t \in Seq(S \cup {e}) /\ Len(t) = Len(s) + 1
      /\ \A i \in 1..Len(s) : t[i] = s[i]
      /\ t[Len(s) + 1] = e
  BY <1>1, AppendProperties
<1>3. Len(s) \in Nat /\ t = [i \in 1..(Len(s) + 1) |-> t[i]]
  BY <1>2, LenProperties
<1> HIDE DEF t
<1>4. \A i \in 1..(Len(s) + 1) : i # Len(s) + 1 => i \in 1..Len(s)
  BY <1>3
<1> QED BY <1>2, <1>3, <1>4 DEF t

\* Steps after which a reader sees one more record.
LEMMA LogExtends ==
  ASSUME JournalInv, JournalInv', ~failed, ~failed', NEW m \in Nat, Agree(m),
         Readable' = Readable + 1, (Readable + 1) * RecordSize <= m,
         NEW c \in Commitment, Read(Readable) = Parts(c),
         stableRecords' \in {stableRecords, Readable + 1}
  PROVE  Log!LogNext
<1>1. /\ Readable \in Nat /\ Len(VisibleLog) = Readable
      /\ VisibleLog \in Seq({VisibleLog[i] : i \in 1..Readable})
      /\ VisibleLog' = [i \in 1..(Readable') |-> RecordAt(i - 1)']
  BY LogIs
<1>2. PICK n \in Nat : n = Readable
  BY <1>1
<1>3. RecordAt(n)' = c
  <2>1. RecordAt(n)' = RecordAt(n)
    BY <1>2, SameRecord
  <2>2. \A d \in Commitment : Parts(d) = Parts(c) => d = c
    BY PartsOK
  <2>3. RecordAt(n) = CHOOSE d \in Commitment : Parts(c) = Parts(d)
    BY <1>2 DEF RecordAt
  <2> QED BY <2>1, <2>2, <2>3
<1>4. \A i \in 1..n : VisibleLog'[i] = VisibleLog[i]
  <2>1. n * RecordSize <= m
    BY <1>2, NextRecord, Fits, JournalAssumption
  <2>2. n <= Readable /\ n <= Readable'
    BY <1>2
  <2> QED BY <2>1, <2>2, SameLog
<1>5. VisibleLog' = Append(VisibleLog, c)
  <2>1. n + 1 \in 1..(n + 1) /\ (n + 1) - 1 = n
    OBVIOUS
  <2>2. VisibleLog'[n + 1] = c
    BY <1>1, <1>2, <1>3, <2>1
  <2>3. VisibleLog' = [i \in 1..(n + 1) |-> VisibleLog'[i]]
    BY <1>1, <1>2
  <2>4. Append(VisibleLog, c) =
          [i \in 1..(n + 1) |-> IF i = n + 1 THEN c ELSE VisibleLog[i]]
    <3>1. VisibleLog \in Seq({VisibleLog[i] : i \in 1..Readable}) /\ Len(VisibleLog) = n
      BY <1>1, <1>2
    <3>2. Append(VisibleLog, c) = [i \in 1..(Len(VisibleLog) + 1) |->
            IF i = Len(VisibleLog) + 1 THEN c ELSE VisibleLog[i]]
      BY <3>1, AppendIs, Zenon
    <3> QED BY <3>1, <3>2
  <2>5. \A i \in 1..(n + 1) : i # n + 1 => i \in 1..n
    OBVIOUS
  <2> QED BY <1>4, <2>2, <2>3, <2>4, <2>5
<1>6. Log!Extend(c)
  BY <1>1, <1>5 DEF Log!Extend, stableRecords
<1> QED BY <1>6 DEF Log!LogNext, Log!Sound

\* Steps after which records that are not stable may be gone.
LEMMA LogLoses ==
  ASSUME JournalInv, JournalInv', ~failed, ~failed', NEW m \in Nat, Agree(m),
         Readable' * RecordSize <= m, Readable' <= Readable,
         stableRecords <= Readable', stableRecords' = Readable'
  PROVE  Log!LogNext
<1>1. /\ Readable \in Nat /\ Readable' \in Nat /\ Len(VisibleLog) = Readable
      /\ VisibleLog \in Seq({VisibleLog[i] : i \in 1..Readable})
      /\ stableRecords \in Nat
  BY LogIs, StableReadable
<1>2. \A i \in 1..(Readable') : VisibleLog'[i] = VisibleLog[i]
  <2>1. Readable' <= Readable'
    BY <1>1
  <2> QED BY <1>1, <2>1, SameLog
<1>3. VisibleLog' = SubSeq(VisibleLog, 1, Readable')
  <2>1. VisibleLog' = [i \in 1..(Readable') |-> VisibleLog'[i]]
    BY DEF VisibleLog
  <2>2. SubSeq(VisibleLog, 1, Readable') = [i \in 1..(Readable') |-> VisibleLog[i]]
    BY <1>1
  <2> QED BY <1>2, <2>1, <2>2
<1>4. Readable' \in stableRecords..Len(VisibleLog)
  BY <1>1
<1>5. Log!LoseTail
  BY <1>3, <1>4 DEF Log!LoseTail, stableRecords
<1> QED BY <1>5 DEF Log!LogNext, Log!Sound

-----------------------------------------------------------------------------
LEMMA OpenRefines ==
  ASSUME JournalInv, OpenJournal
  PROVE  UNCHANGED Log!logVars
<1>1. /\ JournalInv' /\ state = "closed" /\ state' = "open"
      /\ count' = Len(file) \div RecordSize
      /\ Agree(count' * RecordSize)
      /\ synced' = IF count' * RecordSize < synced THEN count' * RecordSize ELSE synced
      /\ damagedAt' = damagedAt
  BY OpenStep DEF OpenJournal
<1>2. Len(file) \in Nat /\ synced \in Nat /\ synced <= Len(file)
  BY FileOK
<1>3. /\ count' \in Nat /\ count' * RecordSize \in Nat
      /\ Readable = count' /\ Readable' = Readable
  BY <1>1, <1>2, Fits DEF Readable
<1>4. VisibleLog' = VisibleLog
  <2>1. Readable * RecordSize <= count' * RecordSize
    BY <1>3
  <2> QED BY <1>1, <1>3, <2>1, LogStutters
<1>5. synced' \div RecordSize = synced \div RecordSize
  <2>1. CASE count' * RecordSize < synced
    <3>1. synced' \div RecordSize = count'
      BY <1>1, <1>3, <2>1, NextRecord
    <3>2. synced \div RecordSize \in Nat /\ count' <= synced \div RecordSize
      BY <1>2, <1>3, <2>1, Fits
    <3>3. (synced \div RecordSize) * RecordSize <= Len(file)
      <4>1. (synced \div RecordSize) * RecordSize <= synced
        BY <1>2, <3>2, Fits
      <4> QED BY <1>2, <3>2, <4>1, WithinSynced
    <3>4. synced \div RecordSize <= count'
      BY <1>1, <1>2, <3>2, <3>3, Fits
    <3> QED BY <1>3, <3>1, <3>2, <3>4
  <2>2. CASE ~(count' * RecordSize < synced)
    BY <1>1, <2>2
  <2> QED BY <2>1, <2>2
<1> QED BY <1>1, <1>4, <1>5 DEF Log!logVars, failed, StableRecords

\* Both kinds of a failing Append: the records on disk stay where they are.
LEMMA FailRefines ==
  ASSUME JournalInv, JournalInv', Agree(Len(file)), Readable <= Readable', failed',
         damagedAt' = IF failed THEN damagedAt ELSE StableRecords
  PROVE  Log!LogNext
<1>1. /\ Len(file) \in Nat /\ Readable \in Nat /\ Readable' \in Nat
      /\ Readable * RecordSize <= Len(file)
  BY FileOK, LogIs, ReadableFits
<1>2. stableRecords \in Nat /\ stableRecords <= Readable
  BY StableReadable
<1>3. stableRecords * RecordSize <= Len(file)
  <2>1. /\ stableRecords * RecordSize <= Readable * RecordSize
        /\ stableRecords * RecordSize \in Nat /\ Readable * RecordSize \in Nat
    BY <1>1, <1>2, NextRecord, Fits
  <2> QED BY <1>1, <2>1
<1>4. stableRecords <= Readable'
  BY <1>1, <1>2
<1> QED BY <1>1, <1>3, <1>4, LogDamage DEF stableRecords

LEMMA WriteRefines ==
  ASSUME JournalInv, NEW c \in Commitment, AppendWrite(c)
  PROVE  Log!LogNext \/ UNCHANGED Log!logVars
<1>1. /\ JournalInv' /\ Agree(Len(file)) /\ state = "open" /\ state' # "closed"
      /\ count' = count /\ synced' = synced
      /\ \/ damagedAt' = damagedAt
         \/ damagedAt' = (IF failed THEN damagedAt ELSE StableRecords) /\ failed'
  BY WriteStep
<1>2. Readable' = Readable /\ Readable \in Nat
  BY <1>1, ReadableFits DEF Readable
<1>3. CASE damagedAt' = damagedAt
  <2>1. VisibleLog' = VisibleLog
    BY <1>1, <1>2, ReadableFits, FileOK, LogStutters
  <2> QED BY <1>1, <1>3, <2>1 DEF Log!logVars, failed, StableRecords
<1>4. CASE damagedAt' = (IF failed THEN damagedAt ELSE StableRecords) /\ failed'
  <2>1. Readable <= Readable'
    BY <1>2
  <2> QED BY <1>1, <1>4, <2>1, FailRefines
<1> QED BY <1>1, <1>3, <1>4

LEMMA SyncRefines ==
  ASSUME JournalInv, AppendSync
  PROVE  Log!LogNext
<1>1. JournalInv' /\ state = "written" /\ state' = "open" /\ file' = file
  BY SyncStep DEF AppendSync
<1>2. /\ Len(file) \in Nat /\ count \in Nat /\ Agree(Len(file))
      /\ Readable = count /\ Readable' = count'
  BY <1>1, FileOK, SameFile DEF Readable
<1>3. CASE /\ synced' = SyncedAll /\ count' = count + 1 /\ UNCHANGED damagedAt
  <2>1. failed' = failed /\ Readable' = Readable + 1
    BY <1>2, <1>3 DEF failed
  <2>2. CASE failed
    <3>1. Readable <= Readable'
      BY <1>2, <2>1
    <3> QED BY <1>1, <1>2, <1>3, <2>1, <2>2, <3>1, FailRefines
  <2>3. CASE ~failed
    <3>1. PICK c \in Commitment : rec = {c} /\ Read(count) = Parts(c)
      BY <1>1, <2>3 DEF JournalInv, ShapeInv
    <3>2. Len(file) = (count + 1) * RecordSize /\ count + 1 \in Nat
      BY <1>1, <1>2, <2>3 DEF JournalInv, ShapeInv
    <3>3. stableRecords' = count + 1
      <4>1. stableRecords' = Len(file) \div RecordSize
        BY <1>3, <2>1, <2>3 DEF stableRecords, StableRecords, SyncedAll
      <4> QED BY <3>2, <4>1, NextRecord
    <3>4. (Readable + 1) * RecordSize <= Len(file)
      BY <1>2, <3>2
    <3>5. Read(Readable) = Parts(c) /\ stableRecords' \in {stableRecords, Readable + 1}
      BY <1>2, <3>1, <3>3
    <3> QED BY <1>1, <1>2, <2>1, <2>3, <3>4, <3>5, LogExtends
  <2> QED BY <2>2, <2>3
<1>4. CASE Fail /\ UNCHANGED <<synced, count>>
  <2>1. /\ damagedAt' = IF failed THEN damagedAt ELSE StableRecords
        /\ Readable <= Readable'
    BY <1>2, <1>4 DEF Fail
  <2>2. failed'
    <3>1. synced \in Nat /\ StableRecords \in Nat
      BY FileOK, Fits DEF StableRecords
    <3> QED BY <2>1, <3>1 DEF failed, NotYet
  <2> QED BY <1>1, <1>2, <2>1, <2>2, FailRefines
<1> QED BY <1>3, <1>4 DEF AppendSync

(***************************************************************************)
(* A crash before any failure.  The journal is closed by it, so a record   *)
(* that was written and not yet counted comes into view, unless the power  *)
(* loss took it.                                                           *)
(***************************************************************************)
LEMMA SoundCrashRefines ==
  ASSUME JournalInv, Crash, ~failed
  PROVE  Log!LogNext \/ UNCHANGED Log!logVars
<1>1. /\ JournalInv' /\ state # "closed" /\ state' = "closed" /\ damagedAt' = damagedAt
      /\ \/ file' = file /\ synced' = synced
         \/ /\ Len(file') \in synced..Len(file) /\ synced' = Len(file')
            /\ Agree(Len(file'))
  BY CrashStep
<1>2. /\ Len(file) \in Nat /\ synced \in Nat /\ synced <= Len(file) /\ count \in Nat
      /\ count + 1 \in Nat
  BY FileOK
<1>3. ~failed' /\ Readable = count /\ Readable' = Len(file') \div RecordSize
  BY <1>1 DEF failed, Readable
<1>4. /\ stableRecords = synced \div RecordSize
      /\ stableRecords' = synced' \div RecordSize
  BY <1>3 DEF stableRecords, StableRecords
<1>5. /\ Len(file') \in Nat /\ Len(file') <= Len(file) /\ synced <= Len(file')
      /\ Agree(Len(file'))
  BY <1>1, <1>2, SameFile
<1>6. /\ Readable' \in Nat /\ Readable' * RecordSize <= Len(file')
      /\ Readable' * RecordSize <= Len(file) /\ Readable' * RecordSize \in Nat
  BY <1>2, <1>3, <1>5, Fits
<1>7. stableRecords \in Nat /\ stableRecords <= Readable'
  <2>1. stableRecords \in Nat /\ stableRecords * RecordSize <= synced
    BY <1>2, <1>4, Fits
  <2>2. stableRecords * RecordSize <= Len(file')
    BY <1>5, <2>1, WithinSynced
  <2> QED BY <1>3, <1>5, <2>1, <2>2, Fits
<1>8. CASE Readable' = count + 1
  <2>1. state = "written"
    <3>1. CASE state = "open"
      <4>1. Len(file) = count * RecordSize
        BY <3>1 DEF JournalInv, ShapeInv
      <4>2. Readable' <= count
        BY <1>2, <1>6, <4>1, NextRecord
      <4> QED BY <1>2, <1>8, <4>2
    <3> QED BY <1>1, <3>1 DEF JournalInv, TypeOK
  <2>2. PICK c \in Commitment : rec = {c} /\ Read(count) = Parts(c)
    BY <2>1 DEF JournalInv, ShapeInv
  <2>3. Len(file) = (count + 1) * RecordSize
    BY <2>1 DEF JournalInv, ShapeInv
  <2>4. Len(file') = Len(file)
    BY <1>2, <1>5, <1>6, <1>8, <2>3
  <2>5. stableRecords' \in {stableRecords, Readable + 1}
    <3>1. CASE synced' = synced
      BY <1>4, <3>1
    <3>2. CASE synced' = Len(file')
      BY <1>3, <1>4, <1>8, <3>2
    <3> QED BY <1>1, <3>1, <3>2
  <2>6. (Readable + 1) * RecordSize <= Len(file')
    BY <1>3, <1>6, <1>8
  <2>7. Readable' = Readable + 1 /\ Read(Readable) = Parts(c)
    BY <1>3, <1>8, <2>2
  <2> QED BY <1>1, <1>3, <1>5, <2>5, <2>6, <2>7, LogExtends
<1>9. CASE Readable' # count + 1
  <2>1. Readable' <= count
    <3>1. Len(file) = count * RecordSize \/ Len(file) = (count + 1) * RecordSize
      BY <1>1 DEF JournalInv, ShapeInv, TypeOK
    <3>2. Readable' <= count \/ Readable' <= count + 1
      <4>1. CASE Len(file) = count * RecordSize
        BY <1>2, <1>6, <4>1, NextRecord
      <4>2. CASE Len(file) = (count + 1) * RecordSize
        BY <1>2, <1>6, <4>2, NextRecord
      <4> QED BY <3>1, <4>1, <4>2
    <3> QED BY <1>2, <1>6, <1>9, <3>2
  <2>2. CASE synced' = Len(file')
    <3>1. stableRecords' = Readable' /\ Readable' <= Readable
      BY <1>3, <1>4, <2>1, <2>2
    <3> QED BY <1>1, <1>3, <1>5, <1>6, <1>7, <3>1, LogLoses
  <2>3. CASE file' = file /\ synced' = synced
    <3>1. count <= Readable'
      <4>1. count * RecordSize <= Len(file')
        BY <2>3, FileOK
      <4> QED BY <1>2, <1>3, <1>5, <4>1, Fits
    <3>2. Readable' = Readable
      BY <1>2, <1>3, <1>6, <2>1, <3>1
    <3>3. VisibleLog' = VisibleLog
      BY <1>1, <1>5, <1>6, <3>2, LogStutters
    <3> QED BY <1>1, <2>3, <3>3 DEF Log!logVars, failed, StableRecords
  <2> QED BY <1>1, <2>2, <2>3
<1> QED BY <1>8, <1>9

LEMMA CrashRefines ==
  ASSUME JournalInv, Crash
  PROVE  Log!LogNext \/ UNCHANGED Log!logVars
<1>1. CASE ~failed
  BY <1>1, SoundCrashRefines
<1>2. CASE failed
  <2>1. /\ JournalInv' /\ state' = "closed" /\ damagedAt' = damagedAt
        /\ \/ file' = file /\ synced' = synced
           \/ Len(file') \in synced..Len(file) /\ Agree(Len(file'))
    BY CrashStep
  <2>2. Len(file) \in Nat /\ synced \in Nat /\ synced <= Len(file)
    BY FileOK
  <2>3. Len(file') \in Nat /\ synced <= Len(file') /\ Agree(Len(file'))
    BY <2>1, <2>2, SameFile
  <2>4. /\ stableRecords = damagedAt /\ damagedAt \in Nat /\ failed'
        /\ damagedAt * RecordSize <= synced
    BY <1>2, <2>1 DEF stableRecords, failed, JournalInv, TypeOK, KeptInv, Kept
  <2>5. stableRecords * RecordSize <= Len(file')
    BY <2>3, <2>4, WithinSynced
  <2>6. stableRecords <= Readable'
    <3>1. Readable' = Len(file') \div RecordSize
      BY <2>1 DEF Readable
    <3> QED BY <2>3, <2>4, <2>5, <3>1, Fits
  <2> QED BY <2>1, <2>3, <2>4, <2>5, <2>6, LogDamage
<1> QED BY <1>1, <1>2

(***************************************************************************)
(* The journal implements DurableLog: through every write, sync, crash,    *)
(* power loss and reopening a reader sees the log only grow at its end and *)
(* lose at most what no fsync covered; and after a failed Append it keeps  *)
(* what was on disk by then.                                               *)
(***************************************************************************)
THEOREM LogRefinement == Spec => ImplementsLog
<1>1. Init => Log!LogInit
  <2> SUFFICES ASSUME Init PROVE Log!LogInit
    OBVIOUS
  <2>1. ~failed /\ synced = 0 /\ Len(file) = 0 /\ Readable = Len(file) \div RecordSize
    BY DEF Init, failed, Readable
  <2>2. 0 * RecordSize = 0
    BY JournalAssumption
  <2>3. 0 \div RecordSize = 0
    BY <2>2, NextRecord
  <2>4. Readable = 0 /\ StableRecords = 0
    BY <2>1, <2>3 DEF StableRecords
  <2>5. VisibleLog = <<>>
    BY <2>4 DEF VisibleLog
  <2> QED BY <2>1, <2>4, <2>5 DEF Log!LogInit
<1>2. ASSUME JournalInv, [Next]_vars PROVE [Log!LogNext]_(Log!logVars)
  <2>1. CASE Next
    BY <1>2, <2>1, OpenRefines, WriteRefines, SyncRefines, CrashRefines DEF Next
  <2>2. CASE UNCHANGED vars
    BY <2>2 DEF vars, Log!logVars, VisibleLog, Readable, RecordAt, Read, failed,
                StableRecords
  <2> QED BY <1>2, <2>1, <2>2
<1> QED BY <1>1, <1>2, JournalInvariant, PTL DEF Spec, ImplementsLog, Log!LogSpec

(***************************************************************************)
(* What the stamper, which keeps a cursor into the journal, relies on: the *)
(* records that are on disk stay what they are, at the same index, and     *)
(* there are never fewer of them, whatever fails.                          *)
(***************************************************************************)
THEOREM StableRecordsStay ==
  Spec => [][/\ stableRecords <= stableRecords'
             /\ \A i \in 1..stableRecords : VisibleLog'[i] = VisibleLog[i]]_vars
<1> DEFINE Stay == /\ stableRecords <= stableRecords'
                   /\ \A i \in 1..stableRecords : VisibleLog'[i] = VisibleLog[i]
<1>1. ASSUME JournalInv, JournalInv', Log!LogNext PROVE Stay
  <2>1. /\ Readable \in Nat /\ Len(VisibleLog) = Readable
        /\ VisibleLog \in Seq({VisibleLog[i] : i \in 1..Readable})
        /\ stableRecords \in Nat /\ stableRecords <= Readable
    BY <1>1, LogIs, StableReadable
  <2>2. CASE Log!LoseTail
    <3>1. PICK n \in stableRecords..Len(VisibleLog) :
            VisibleLog' = SubSeq(VisibleLog, 1, n) /\ stableRecords' = n
      BY <2>2 DEF Log!LoseTail, stableRecords
    <3>2. n \in Nat /\ n <= Readable /\ stableRecords <= n
      BY <2>1
    <3>3. \A i \in 1..n : SubSeq(VisibleLog, 1, n)[i] = VisibleLog[i]
      BY <2>1, <3>2
    <3> QED BY <2>1, <3>1, <3>2, <3>3
  <2>3. ASSUME NEW c \in Commitment, Log!Extend(c) PROVE Stay
    <3>1. /\ VisibleLog' = Append(VisibleLog, c)
          /\ stableRecords' \in {stableRecords, Len(VisibleLog) + 1}
      BY <2>3 DEF Log!Extend, stableRecords
    <3>2. \A i \in 1..Readable : Append(VisibleLog, c)[i] = VisibleLog[i]
      BY <2>1
    <3> QED BY <2>1, <3>1, <3>2
  <2>4. CASE Log!Damage
    <3>1. /\ stableRecords' = stableRecords /\ stableRecords <= Len(VisibleLog')
          /\ SubSeq(VisibleLog', 1, stableRecords) = SubSeq(VisibleLog, 1, stableRecords)
      BY <2>4 DEF Log!Damage, stableRecords
    <3>2. \A i \in 1..stableRecords :
            /\ SubSeq(VisibleLog', 1, stableRecords)[i] = VisibleLog'[i]
            /\ SubSeq(VisibleLog, 1, stableRecords)[i] = VisibleLog[i]
      BY <2>1
    <3> QED BY <2>1, <3>1, <3>2
  <2> QED BY <1>1, <2>2, <2>3, <2>4 DEF Log!LogNext, Log!Sound
<1>2. ASSUME JournalInv, UNCHANGED Log!logVars PROVE Stay
  BY <1>2, StableReadable DEF Log!logVars, stableRecords
<1>3. ASSUME JournalInv, [Next]_vars PROVE Stay
  <2>1. CASE Next
    <3>1. JournalInv'
      BY <1>3, JournalStep
    <3> QED BY <1>1, <1>2, <1>3, <2>1, <3>1, OpenRefines, WriteRefines, SyncRefines,
               CrashRefines DEF Next
  <2>2. CASE UNCHANGED vars
    BY <1>2, <1>3, <2>2 DEF vars, Log!logVars, VisibleLog, Readable, RecordAt, Read,
       failed, StableRecords
  <2> QED BY <1>3, <2>1, <2>2
<1>4. JournalInv /\ [Next]_vars => [Stay]_vars
  BY <1>3
<1> QED BY <1>4, JournalInvariant, PTL DEF Spec
=============================================================================
