--------------------------- MODULE DataDirProofs ---------------------------
(***************************************************************************)
(* Theorems about DataDir: a calendar's identity survives, for any set of  *)
(* URIs and keys, files of any size, and any number of kills, power losses *)
(* and I/O errors.                                                         *)
(***************************************************************************)
EXTENDS DataDir, TLAPS

\* What a reader of file f finds.
ContentOf(f) == [val |-> disk[f].val, len |-> disk[f].len]

Whole(f) == disk[f].len = Size /\ disk[f].durable = Size

\* OpenDataDir's two checks, for the content of any file.
Fit(f, content) == IF f = "hmac-key" THEN content.len = Size ELSE content.len > 0

\* The files this boot has the value of.
Known ==
  {f \in File : \/ pc \in {"open", "serving"}
                \/ pc \in {"load", "write", "sync"} /\ file = "uri" /\ f = "hmac-key"}

\* The files: a synced one is whole for ever, one being created is not synced.
FilesInv ==
  /\ \A f \in synced : Whole(f)
  /\ pc = "write" => disk[file].len = 0 /\ disk[file].durable = -1
  /\ pc = "sync" => disk[file].len = Size
  /\ pc \in {"write", "sync"} => file \notin synced

\* The memory: what this boot knows is what the disk has, and was checked.
MemoryInv == \A f \in Known : loaded[f] = ContentOf(f) /\ Fit(f, loaded[f])

\* The past: whatever was served is what both files have now.
ServedInv ==
  /\ \A i \in served : synced = File /\ \A f \in File : i[f] = ContentOf(f)
  /\ pc = "refused" => served = {}

DataDirInv == TypeOK /\ FilesInv /\ MemoryInv /\ ServedInv

LEMMA DataDirInit == Init => DataDirInv
BY DataDirAssumption
   DEF Init, DataDirInv, TypeOK, FilesInv, MemoryInv, ServedInv, Known, File, Value,
       Absent, NotLoaded, Content

LEMMA FaultsBounded ==
  ASSUME DataDirInv, NEW kind, NoFault \/ Fault(kind)
  PROVE  faults' \in 0..MaxFaults
BY DataDirAssumption DEF DataDirInv, TypeOK, NoFault, Fault

\* What TypeOK says of the disk alone.
DiskOK ==
  /\ disk \in [File -> [val: Value, len: -1..Size, durable: -1..Size]]
  /\ \A f \in File : disk[f].durable <= disk[f].len

(***************************************************************************)
(* Every way the process can end: it forgets what it had loaded, and all   *)
(* that is asked of the disk is that no synced file has changed.           *)
(***************************************************************************)
LEMMA ExitStep ==
  ASSUME DataDirInv, Exit, DiskOK', UNCHANGED <<used, synced, served>>,
         faults' \in 0..MaxFaults, \A f \in synced : disk'[f] = disk[f]
  PROVE  DataDirInv'
<1>1. /\ pc' = "down" /\ file' = "hmac-key" /\ flag' = None
      /\ loaded' = [f \in File |-> NotLoaded]
  BY DEF Exit
<1>2. loaded' \in [File -> Content]
  BY <1>1, DataDirAssumption DEF NotLoaded, Content, Value
<1>3. TypeOK'
  BY <1>1, <1>2 DEF DataDirInv, TypeOK, DiskOK, File
<1>4. FilesInv'
  BY <1>1 DEF DataDirInv, FilesInv, Whole
<1>5. MemoryInv'
  BY <1>1 DEF MemoryInv, Known
<1>6. ServedInv'
  BY <1>1 DEF DataDirInv, ServedInv, ContentOf
<1> QED BY <1>3, <1>4, <1>5, <1>6 DEF DataDirInv

\* Nothing is written: the case of most steps.
LEMMA ExitSameDisk ==
  ASSUME DataDirInv, Exit, UNCHANGED <<disk, used, synced, served>>,
         faults' \in 0..MaxFaults
  PROVE  DataDirInv'
<1>1. DiskOK'
  BY DEF DataDirInv, TypeOK, DiskOK
<1> QED BY <1>1, ExitStep

(***************************************************************************)
(* The value of the file at hand is read or was just written: what is in   *)
(* memory is what is on disk, for this file and for the one before.        *)
(***************************************************************************)
LEMMA LoadedStep ==
  ASSUME DataDirInv, pc \in {"load", "sync"}, Loaded(OnDisk), Fit(file, OnDisk),
         disk[file].len >= 0, DiskOK', \A f \in File : ContentOf(f)' = ContentOf(f),
         UNCHANGED <<used, served>>, faults' \in 0..MaxFaults,
         synced' \in {synced, synced \cup {file}}, \A f \in synced' : Whole(f)'
  PROVE  DataDirInv'
<1>1. /\ file \in File /\ loaded \in [File -> Content] /\ synced \subseteq File
      /\ disk[file].val \in Value /\ disk[file].len \in 0..Size
  BY DEF DataDirInv, TypeOK
<1>2. OnDisk \in Content /\ OnDisk = ContentOf(file)
  BY <1>1 DEF OnDisk, Content, ContentOf
<1>3. /\ loaded' = [loaded EXCEPT ![file] = OnDisk]
      /\ flag' = flag
      /\ \/ file = "hmac-key" /\ pc' = "load" /\ file' = "uri"
         \/ file = "uri" /\ pc' = "open" /\ file' = "uri"
  BY <1>1 DEF Loaded, File
<1>4. /\ loaded' \in [File -> Content] /\ loaded'[file] = OnDisk
      /\ \A f \in File : f # file => loaded'[f] = loaded[f]
  BY <1>1, <1>2, <1>3
<1>5. TypeOK'
  BY <1>1, <1>3, <1>4 DEF DataDirInv, TypeOK, DiskOK, File
<1>6. FilesInv'
  BY <1>3 DEF FilesInv
<1>7. MemoryInv'
  <2>1. ASSUME NEW f \in Known' PROVE f \in File /\ (f = file \/ f \in Known)
    BY <1>1, <1>3 DEF Known, File
  <2>2. ASSUME NEW f \in Known'
        PROVE  loaded'[f] = ContentOf(f)' /\ Fit(f, loaded'[f])
    <3>1. CASE f = file
      BY <1>2, <1>4, <2>1, <3>1
    <3>2. CASE f # file
      BY <1>4, <2>1, <3>2 DEF DataDirInv, MemoryInv
    <3> QED BY <3>1, <3>2
  <2> QED BY <2>2 DEF MemoryInv, Fit
<1>8. ServedInv'
  BY <1>1, <1>3 DEF DataDirInv, ServedInv
<1> QED BY <1>5, <1>6, <1>7, <1>8 DEF DataDirInv

-----------------------------------------------------------------------------
LEMMA BootStep ==
  ASSUME DataDirInv, Boot
  PROVE  DataDirInv'
<1>1. /\ pc' = "load" /\ file' = "hmac-key" /\ flag' \in URI \cup {None}
      /\ UNCHANGED <<disk, loaded, used, synced, served, faults>>
  BY DEF Boot
<1>2. TypeOK'
  BY <1>1 DEF DataDirInv, TypeOK, File
<1>3. FilesInv' /\ ServedInv'
  BY <1>1 DEF DataDirInv, FilesInv, Whole, ServedInv, ContentOf
<1>4. MemoryInv'
  BY <1>1 DEF MemoryInv, Known
<1> QED BY <1>2, <1>3, <1>4 DEF DataDirInv

LEMMA LoadStep ==
  ASSUME DataDirInv, Load
  PROVE  DataDirInv'
<1>1. /\ pc = "load" /\ faults' \in 0..MaxFaults
      /\ UNCHANGED <<disk, used, synced, served>>
  BY FaultsBounded DEF Load
<1>2. DiskOK' /\ \A f \in File : ContentOf(f)' = ContentOf(f)
  BY <1>1 DEF DataDirInv, TypeOK, DiskOK, ContentOf
<1>3. \A f \in synced' : Whole(f)'
  BY <1>1 DEF DataDirInv, FilesInv, Whole
<1>4. CASE LoadFile
  <2>1. Fit(file, OnDisk)
    BY <1>4 DEF LoadFile, Acceptable, Fit, OnDisk
  <2>2. Loaded(OnDisk) /\ disk[file].len >= 0
    BY <1>4 DEF LoadFile
  <2> QED BY <1>1, <1>2, <1>3, <2>1, <2>2, LoadedStep
<1>5. CASE RefuseFile
  <2>1. pc' = "refused" /\ ~Acceptable /\ UNCHANGED <<file, flag, loaded>>
    BY <1>5 DEF RefuseFile
  <2>2. served = {}
    <3>1. file \in File
      BY DEF DataDirInv, TypeOK
    <3>2. ~Whole(file)
      BY <2>1, DataDirAssumption DEF Acceptable, Whole
    <3> QED BY <3>1, <3>2 DEF DataDirInv, ServedInv, FilesInv
  <2>3. TypeOK'
    BY <1>1, <2>1 DEF DataDirInv, TypeOK
  <2>4. FilesInv' /\ MemoryInv'
    BY <1>3, <2>1 DEF FilesInv, MemoryInv, Known
  <2>5. ServedInv'
    BY <1>1, <2>2 DEF ServedInv
  <2> QED BY <2>3, <2>4, <2>5 DEF DataDirInv
<1>6. CASE Exit
  BY <1>1, <1>6, ExitSameDisk
<1> QED BY <1>4, <1>5, <1>6 DEF Load

\* writeFileSync creates the file at hand, empty: only the disk and pc change.
LEMMA CreatedStep ==
  ASSUME DataDirInv, pc = "load", disk[file].len = -1, NEW v \in Value,
         disk' = [disk EXCEPT ![file] = [val |-> v, len |-> 0, durable |-> -1]],
         pc' = "write", used' \subseteq Key,
         UNCHANGED <<file, flag, loaded, synced, served, faults>>
  PROVE  DataDirInv'
<1>1. /\ file \in File /\ file' = file
      /\ disk \in [File -> [val: Value, len: -1..Size, durable: -1..Size]]
  BY DEF DataDirInv, TypeOK
<1>2. /\ disk' \in [File -> [val: Value, len: -1..Size, durable: -1..Size]]
      /\ disk'[file].len = 0 /\ disk'[file].durable = -1
      /\ \A f \in File : f # file => disk'[f] = disk[f]
  BY <1>1, DataDirAssumption
<1>3. file \notin synced
  BY <1>1, DataDirAssumption DEF DataDirInv, FilesInv, Whole
<1>4. TypeOK'
  BY <1>1, <1>2 DEF DataDirInv, TypeOK
<1>5. FilesInv'
  BY <1>1, <1>2, <1>3 DEF DataDirInv, TypeOK, FilesInv, Whole
<1>6. MemoryInv'
  <2>1. ASSUME NEW f \in Known' PROVE f \in Known /\ f \in File /\ f # file
    BY <1>1 DEF Known
  <2> QED BY <1>2, <2>1 DEF DataDirInv, MemoryInv, ContentOf, Fit
<1>7. ServedInv'
  BY <1>1, <1>3 DEF DataDirInv, ServedInv
<1> QED BY <1>4, <1>5, <1>6, <1>7 DEF DataDirInv

LEMMA CreateStep ==
  ASSUME DataDirInv, Create
  PROVE  DataDirInv'
<1>1. /\ pc = "load" /\ disk[file].len = -1 /\ UNCHANGED <<synced, served, faults>>
  BY DEF Create
<1>2. CASE /\ \E k \in Key \ used :
                /\ used' = used \cup {k}
                /\ disk' = [disk EXCEPT ![file] = [val |-> k, len |-> 0, durable |-> -1]]
           /\ pc' = "write"
           /\ UNCHANGED <<file, flag, loaded>>
  <2>1. PICK k \in Key \ used :
          /\ used' = used \cup {k}
          /\ disk' = [disk EXCEPT ![file] = [val |-> k, len |-> 0, durable |-> -1]]
    BY <1>2
  <2>2. k \in Value /\ used' \subseteq Key
    BY <2>1 DEF Value, DataDirInv, TypeOK
  <2> QED BY <1>1, <1>2, <2>1, <2>2, CreatedStep
<1>3. CASE /\ flag # None
           /\ disk' = [disk EXCEPT ![file] = [val |-> flag, len |-> 0, durable |-> -1]]
           /\ pc' = "write"
           /\ UNCHANGED <<file, flag, loaded, used>>
  <2>1. flag \in Value /\ used' \subseteq Key
    BY <1>3 DEF Value, DataDirInv, TypeOK
  <2> QED BY <1>1, <1>3, <2>1, CreatedStep
<1>4. CASE Exit /\ UNCHANGED <<disk, used>>
  <2>1. faults' \in 0..MaxFaults
    BY <1>1 DEF DataDirInv, TypeOK
  <2> QED BY <1>1, <1>4, <2>1, ExitSameDisk
<1> QED BY <1>2, <1>3, <1>4 DEF Create

LEMMA WriteStep ==
  ASSUME DataDirInv, Write
  PROVE  DataDirInv'
<1>1. /\ pc = "write" /\ file \in File /\ file \notin synced /\ synced \subseteq File
      /\ disk[file].len = 0 /\ disk[file].durable = -1
      /\ disk \in [File -> [val: Value, len: -1..Size, durable: -1..Size]]
      /\ UNCHANGED <<used, synced, served>>
  BY DEF Write, DataDirInv, TypeOK, FilesInv
<1>2. faults' \in 0..MaxFaults
  BY FaultsBounded DEF Write
<1>3. ASSUME NEW n \in 0..Size, disk' = [disk EXCEPT ![file].len = n]
      PROVE  /\ DiskOK' /\ disk'[file].len = n
             /\ \A f \in File : f # file => disk'[f] = disk[f]
  <2>1. /\ disk' \in [File -> [val: Value, len: -1..Size, durable: -1..Size]]
        /\ disk'[file].len = n /\ disk'[file].durable = -1
        /\ \A f \in File : f # file => disk'[f] = disk[f]
    BY <1>1, <1>3, DataDirAssumption
  <2>2. \A f \in File : disk'[f].durable <= disk'[f].len
    BY <2>1 DEF DataDirInv, TypeOK
  <2> QED BY <2>1, <2>2 DEF DiskOK
<1>4. CASE /\ disk' = [disk EXCEPT ![file].len = Size]
           /\ pc' = "sync"
           /\ UNCHANGED <<file, flag, loaded>>
  <2>1. /\ DiskOK' /\ disk'[file].len = Size
        /\ \A f \in File : f # file => disk'[f] = disk[f]
    <3>1. Size \in 0..Size
      BY DataDirAssumption
    <3> QED BY <1>3, <1>4, <3>1
  <2>2. TypeOK'
    BY <1>1, <1>2, <1>4, <2>1 DEF DataDirInv, TypeOK, DiskOK
  <2>3. FilesInv'
    BY <1>1, <1>4, <2>1 DEF DataDirInv, FilesInv, Whole
  <2>4. MemoryInv'
    <3>1. ASSUME NEW f \in Known' PROVE f \in Known /\ f \in File /\ f # file
      BY <1>1, <1>4 DEF Known
    <3> QED BY <1>4, <2>1, <3>1 DEF DataDirInv, MemoryInv, ContentOf, Fit
  <2>5. ServedInv'
    BY <1>1, <1>4 DEF DataDirInv, ServedInv
  <2> QED BY <2>2, <2>3, <2>4, <2>5 DEF DataDirInv
<1>5. CASE /\ \E n \in 0..(Size - 1) : disk' = [disk EXCEPT ![file].len = n]
           /\ Exit
  <2>1. PICK n \in 0..(Size - 1) : disk' = [disk EXCEPT ![file].len = n]
    BY <1>5
  <2>2. n \in 0..Size
    BY DataDirAssumption
  <2>3. DiskOK' /\ \A f \in File : f # file => disk'[f] = disk[f]
    BY <1>3, <2>1, <2>2
  <2>4. \A f \in synced : disk'[f] = disk[f]
    BY <1>1, <2>3
  <2> QED BY <1>1, <1>2, <1>5, <2>3, <2>4, ExitStep
<1> QED BY <1>4, <1>5 DEF Write

LEMMA SyncStep ==
  ASSUME DataDirInv, Sync
  PROVE  DataDirInv'
<1>1. /\ pc = "sync" /\ file \in File /\ disk[file].len = Size
      /\ disk \in [File -> [val: Value, len: -1..Size, durable: -1..Size]]
      /\ UNCHANGED <<used, served>>
  BY DEF Sync, DataDirInv, TypeOK, FilesInv
<1>2. faults' \in 0..MaxFaults
  BY FaultsBounded DEF Sync
<1>3. CASE /\ disk' = [disk EXCEPT ![file].durable = DurableAfterSync(file)]
           /\ synced' = synced \cup {file}
           /\ Loaded(OnDisk)
  <2>1. /\ disk' \in [File -> [val: Value, len: -1..Size, durable: -1..Size]]
        /\ disk'[file].len = Size /\ disk'[file].durable = Size
        /\ disk'[file].val = disk[file].val
        /\ \A f \in File : f # file => disk'[f] = disk[f]
    BY <1>1, <1>3, DataDirAssumption DEF DurableAfterSync
  <2>2. DiskOK'
    BY <1>1, <2>1 DEF DataDirInv, TypeOK, DiskOK
  <2>3. \A f \in File : ContentOf(f)' = ContentOf(f)
    BY <1>1, <2>1 DEF ContentOf
  <2>4. \A f \in synced' : Whole(f)'
    BY <1>1, <1>3, <2>1 DEF DataDirInv, TypeOK, FilesInv, Whole
  <2>5. Fit(file, OnDisk) /\ disk[file].len >= 0
    BY <1>1, DataDirAssumption DEF Fit, OnDisk
  <2>6. synced' \in {synced, synced \cup {file}}
    BY <1>3
  <2> QED BY <1>1, <1>2, <1>3, <2>2, <2>3, <2>4, <2>5, <2>6, LoadedStep
<1>4. CASE Exit /\ UNCHANGED <<disk, synced>>
  BY <1>1, <1>2, <1>4, ExitSameDisk
<1> QED BY <1>3, <1>4 DEF Sync

LEMMA OpenStep ==
  ASSUME DataDirInv, Open
  PROVE  DataDirInv'
<1>1. pc = "open" /\ UNCHANGED <<disk, used, synced>> /\ faults' \in 0..MaxFaults
  BY FaultsBounded DEF Open
<1>2. CASE /\ pc' = "serving"
           /\ served' = IF synced = File THEN served \cup {loaded} ELSE served
           /\ UNCHANGED <<file, flag, loaded>>
  <2>1. /\ Known = File /\ Known' = File
        /\ \A f \in File : loaded[f] = ContentOf(f) /\ Fit(f, loaded[f])
    BY <1>1, <1>2 DEF Known, DataDirInv, MemoryInv
  <2>2. loaded["hmac-key"].len = Size /\ loaded["uri"].len > 0
    BY <2>1 DEF Fit, File
  <2>3. loaded \in [File -> Content] /\ served' \subseteq [File -> Content]
    BY <1>2 DEF DataDirInv, TypeOK
  <2>4. TypeOK'
    BY <1>1, <1>2, <2>2, <2>3 DEF DataDirInv, TypeOK
  <2>5. FilesInv'
    BY <1>1, <1>2 DEF DataDirInv, FilesInv, Whole
  <2>6. MemoryInv'
    BY <1>1, <1>2, <2>1 DEF MemoryInv, ContentOf, Fit
  <2>7. ServedInv'
    BY <1>1, <1>2, <2>1 DEF DataDirInv, ServedInv, ContentOf
  <2> QED BY <2>4, <2>5, <2>6, <2>7 DEF DataDirInv
<1>3. CASE Exit /\ UNCHANGED served
  BY <1>1, <1>3, ExitSameDisk
<1> QED BY <1>2, <1>3 DEF Open

\* A power loss cuts a file somewhere after its durable part.
LEMMA RemainsWithin ==
  ASSUME NEW d \in [val: Value, len: -1..Size, durable: -1..Size], d.durable <= d.len,
         NEW e \in Remains(d)
  PROVE  /\ e \in [val: Value, len: -1..Size, durable: -1..Size]
         /\ e.durable <= e.len
         /\ d.durable = Size /\ d.len = Size => e = d
<1>1. PICK n \in d.durable..d.len :
        e = IF n = -1 THEN Absent ELSE [val |-> d.val, len |-> n, durable |-> n]
  BY DEF Remains
<1>2. d.durable \in -1..Size /\ d.len \in -1..Size /\ n \in -1..Size
  BY DataDirAssumption
<1>3. CASE n = -1
  BY <1>1, <1>2, <1>3, DataDirAssumption DEF Absent, Value
<1>4. CASE n # -1
  BY <1>1, <1>2, <1>4, DataDirAssumption
<1> QED BY <1>3, <1>4

LEMMA StopStep ==
  ASSUME DataDirInv, Stop
  PROVE  DataDirInv'
<1>1. faults' \in 0..MaxFaults
  BY DEF Stop, DataDirInv, TypeOK
<1> QED BY <1>1, ExitSameDisk DEF Stop

LEMMA CrashStep ==
  ASSUME DataDirInv, Crash
  PROVE  DataDirInv'
<1>1. Exit /\ UNCHANGED <<used, synced, served>> /\ faults' \in 0..MaxFaults
  BY FaultsBounded DEF Crash
<1>2. CASE UNCHANGED disk
  BY <1>1, <1>2, ExitSameDisk
<1>3. CASE \E k \in Remains(disk["hmac-key"]), u \in Remains(disk["uri"]) :
             disk' = [f \in File |-> IF f = "uri" THEN u ELSE k]
  <2>1. PICK k \in Remains(disk["hmac-key"]), u \in Remains(disk["uri"]) :
          disk' = [f \in File |-> IF f = "uri" THEN u ELSE k]
    BY <1>3
  <2>2. /\ \A f \in File : disk[f] \in [val: Value, len: -1..Size, durable: -1..Size]
        /\ \A f \in File : disk[f].durable <= disk[f].len
    BY DEF DataDirInv, TypeOK
  <2>3. \A f \in File : disk'[f] \in Remains(disk[f])
    BY <2>1 DEF File
  <2>4. ASSUME NEW f \in File
        PROVE  /\ disk'[f] \in [val: Value, len: -1..Size, durable: -1..Size]
               /\ disk'[f].durable <= disk'[f].len
               /\ Whole(f) => disk'[f] = disk[f]
    BY <2>2, <2>3, RemainsWithin DEF Whole
  <2>5. DiskOK'
    <3>1. disk' \in [File -> [val: Value, len: -1..Size, durable: -1..Size]]
      BY <2>1, <2>4
    <3> QED BY <2>4, <3>1 DEF DiskOK
  <2>6. \A f \in synced : disk'[f] = disk[f]
    BY <2>4 DEF DataDirInv, TypeOK, FilesInv
  <2> QED BY <1>1, <2>5, <2>6, ExitStep
<1> QED BY <1>2, <1>3 DEF Crash

-----------------------------------------------------------------------------
LEMMA DataDirStep ==
  ASSUME DataDirInv, [Next]_vars
  PROVE  DataDirInv'
<1>1. CASE Next
  BY <1>1, BootStep, LoadStep, CreateStep, WriteStep, SyncStep, OpenStep, StopStep,
     CrashStep DEF Next
<1>2. CASE UNCHANGED vars
  BY <1>2 DEF vars, DataDirInv, TypeOK, FilesInv, Whole, MemoryInv, Known, ContentOf,
              Fit, ServedInv
<1> QED BY <1>1, <1>2

(***************************************************************************)
(* Files, memory and past agree: a file whose Sync returned stays whole    *)
(* whatever happens, a boot knows what the disk has, and what was ever     *)
(* served is what the disk has still.                                      *)
(***************************************************************************)
THEOREM DataDirInvariant == Spec => []DataDirInv
<1>1. Init => DataDirInv
  BY DataDirInit
<1>2. DataDirInv /\ [Next]_vars => DataDirInv'
  BY DataDirStep
<1> QED BY <1>1, <1>2, PTL DEF Spec

(***************************************************************************)
(* The variables keep their types; in particular OpenDataDir never lets    *)
(* the service start with a key of the wrong length or an empty URI.       *)
(***************************************************************************)
THEOREM ServesWholeKey == Spec => []TypeOK
<1>1. DataDirInv => TypeOK
  BY DEF DataDirInv
<1> QED BY <1>1, DataDirInvariant, PTL

(***************************************************************************)
(* OpenDataDir's promise that the persisted value wins: once an identity   *)
(* was served from synced files, every later boot serves the same one.     *)
(***************************************************************************)
THEOREM OneIdentity == Spec => []IdentityStable
<1>1. ASSUME DataDirInv, NEW i \in served, pc = "serving" PROVE loaded = i
  <2>1. \A f \in File : loaded[f] = i[f]
    BY <1>1 DEF DataDirInv, MemoryInv, Known, ServedInv
  <2>2. loaded \in [File -> Content] /\ i \in [File -> Content]
    BY <1>1 DEF DataDirInv, TypeOK
  <2> QED BY <2>1, <2>2
<1>2. DataDirInv => IdentityStable
  BY <1>1 DEF IdentityStable
<1> QED BY <1>2, DataDirInvariant, PTL

(***************************************************************************)
(* After the first service no boot is refused for a short or empty file:   *)
(* writeFileSync's Sync is enough against any number of power losses.      *)
(***************************************************************************)
THEOREM AlwaysStartsAgain == Spec => []StartsAgain
<1>1. DataDirInv => StartsAgain
  BY DEF DataDirInv, ServedInv, StartsAgain
<1> QED BY <1>1, DataDirInvariant, PTL
=============================================================================
