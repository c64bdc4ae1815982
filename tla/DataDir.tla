------------------------------ MODULE DataDir ------------------------------
(***************************************************************************)
(* internal/calendar/datadir.go: a calendar's identity, its HMAC key and   *)
(* its public URI, kept in two small files that the first boot creates.    *)
(* OpenDataDir runs at every boot; between any two of its system calls the *)
(* process can be killed, which leaves the files in the kernel's hands, or *)
(* the machine can lose power.                                             *)
(*                                                                         *)
(* A file is whole at Size parts, empty at 0 and absent at -1.  What was   *)
(* not fsync'd may be cut short by a power loss, down to the absence of a  *)
(* new file; fsync of a file is taken to make its directory entry durable, *)
(* too, as the usual file systems do.                                      *)
(***************************************************************************)
EXTENDS Integers, FiniteSets

CONSTANTS
  URI,         \* values of --calendar-uri
  Key,         \* keys rand.Read can return
  None,        \* no value: --calendar-uri not given, or nothing loaded
  Size,        \* length of a whole file, in parts
  FaultKinds,  \* which of "kill", "power", "io" may happen
  MaxFaults    \* bound: faults in one behaviour

ASSUME DataDirAssumption ==
  /\ None \notin URI \cup Key
  /\ Size \in Nat \ {0}
  /\ MaxFaults \in Nat

VARIABLES
  disk,        \* the two files: whose value, how long, how much of it durable
  pc,          \* where the process is
  file,        \* the file OpenDataDir is at
  flag,        \* --calendar-uri of this boot
  loaded,      \* the identity in memory: value and length of each file
  used,        \* history: keys drawn so far
  synced,      \* history: the files whose creation, with its Sync, succeeded
  served,      \* history: identities served with both files in synced
  faults       \* faults so far

vars == <<disk, pc, file, flag, loaded, used, synced, served, faults>>

File == {"hmac-key", "uri"}

Value == URI \cup Key \cup {None}

Absent == [val |-> None, len |-> -1, durable |-> -1]

NotLoaded == [val |-> None, len |-> 0]

Content == [val: Value, len: 0..Size]

TypeOK ==
  /\ disk \in [File -> [val: Value, len: -1..Size, durable: -1..Size]]
  /\ \A f \in File : disk[f].durable <= disk[f].len
  /\ pc \in {"down", "load", "write", "sync", "open", "serving", "refused"}
  /\ file \in File
  /\ flag \in URI \cup {None}
  /\ loaded \in [File -> Content]
  /\ used \subseteq Key
  /\ synced \subseteq File
  /\ served \subseteq [File -> Content]
  /\ faults \in 0..MaxFaults
  /\ pc = "serving" => /\ loaded["hmac-key"].len = Size
                       /\ loaded["uri"].len > 0

Init ==
  /\ disk = [f \in File |-> Absent]
  /\ pc = "down"
  /\ file = "hmac-key"
  /\ flag = None
  /\ loaded = [f \in File |-> NotLoaded]
  /\ used = {}
  /\ synced = {}
  /\ served = {}
  /\ faults = 0

Fault(kind) ==
  /\ kind \in FaultKinds
  /\ faults < MaxFaults
  /\ faults' = faults + 1

NoFault == UNCHANGED faults

-----------------------------------------------------------------------------
\* main calls OpenDataDir with the flag it was given this time.
Boot ==
  /\ pc = "down"
  /\ flag' \in URI \cup {None}
  /\ pc' = "load"
  /\ file' = "hmac-key"
  /\ UNCHANGED <<disk, loaded, used, synced, served, faults>>

\* OpenDataDir returns an error and main exits.
Exit ==
  /\ pc' = "down"
  /\ file' = "hmac-key"
  /\ flag' = None
  /\ loaded' = [f \in File |-> NotLoaded]

\* The value of this file is known: on to the next one.
Loaded(content) ==
  /\ loaded' = [loaded EXCEPT ![file] = content]
  /\ IF file = "hmac-key" THEN pc' = "load" /\ file' = "uri"
                          ELSE pc' = "open" /\ UNCHANGED file
  /\ UNCHANGED flag

OnDisk == [val |-> disk[file].val, len |-> disk[file].len]

\* Mutant: the key's length is not checked.
NotEmpty == disk[file].len > 0

\* A key must have its full length, a URI must not be empty.
Acceptable == IF file = "hmac-key" THEN disk[file].len = Size ELSE disk[file].len > 0

\* Mutant: a URI given at this boot wins over the file.
LoadGiven ==
  /\ disk[file].len >= 0
  /\ Acceptable
  /\ IF file = "uri" /\ flag # None
     THEN Loaded([val |-> flag, len |-> Size])
     ELSE Loaded(OnDisk)

\* The file exists and has what it should.
LoadFile ==
  /\ disk[file].len >= 0
  /\ Acceptable
  /\ Loaded(OnDisk)

\* The file exists and is short or empty.
RefuseFile ==
  /\ disk[file].len >= 0
  /\ ~Acceptable
  /\ pc' = "refused"
  /\ UNCHANGED <<file, flag, loaded>>

Load ==
  /\ pc = "load"
  /\ \/ NoFault /\ (LoadFile \/ RefuseFile)
     \/ Fault("io") /\ Exit
  /\ UNCHANGED <<disk, used, synced, served>>

\* The file does not exist: writeFileSync opens it with O_CREATE|O_EXCL, for
\* a new random key or for the URI given, if there is one.
Create ==
  /\ pc = "load"
  /\ disk[file].len = -1
  /\ \/ /\ file = "hmac-key"
        /\ \E k \in Key \ used :
             /\ used' = used \cup {k}
             /\ disk' = [disk EXCEPT ![file] = [val |-> k, len |-> 0, durable |-> -1]]
        /\ pc' = "write"
        /\ UNCHANGED <<file, flag, loaded>>
     \/ /\ file = "uri" /\ flag # None
        /\ disk' = [disk EXCEPT ![file] = [val |-> flag, len |-> 0, durable |-> -1]]
        /\ pc' = "write"
        /\ UNCHANGED <<file, flag, loaded, used>>
     \/ /\ file = "uri" /\ flag = None
        /\ Exit
        /\ UNCHANGED <<disk, used>>
  /\ UNCHANGED <<synced, served, faults>>

\* A write that fails leaves what it wrote.
Write ==
  /\ pc = "write"
  /\ \/ /\ NoFault
        /\ disk' = [disk EXCEPT ![file].len = Size]
        /\ pc' = "sync"
        /\ UNCHANGED <<file, flag, loaded>>
     \/ /\ Fault("io")
        /\ \E n \in 0..(Size - 1) : disk' = [disk EXCEPT ![file].len = n]
        /\ Exit
  /\ UNCHANGED <<used, synced, served>>

\* Mutant: Close alone is relied on.
OnlyClosed(f) == disk[f].durable

\* What f.Sync makes durable.
DurableAfterSync(f) == disk[f].len

Sync ==
  /\ pc = "sync"
  /\ \/ /\ NoFault
        /\ disk' = [disk EXCEPT ![file].durable = DurableAfterSync(file)]
        /\ synced' = synced \cup {file}
        /\ Loaded(OnDisk)
     \/ /\ Fault("io")
        /\ Exit
        /\ UNCHANGED <<disk, synced>>
  /\ UNCHANGED <<used, served>>

\* The journal and the store are opened, and the service starts.
Open ==
  /\ pc = "open"
  /\ \/ /\ NoFault
        /\ pc' = "serving"
        /\ served' = IF synced = File THEN served \cup {loaded} ELSE served
        /\ UNCHANGED <<file, flag, loaded>>
     \/ /\ Fault("io")
        /\ Exit
        /\ UNCHANGED served
  /\ UNCHANGED <<disk, used, synced>>

\* The process ends: an ordinary stop, or after a refusal.
Stop ==
  /\ pc \in {"serving", "refused"}
  /\ Exit
  /\ UNCHANGED <<disk, used, synced, served, faults>>

\* What a power loss leaves of a file; its rest is on disk then.
Remains(d) ==
  {IF n = -1 THEN Absent ELSE [val |-> d.val, len |-> n, durable |-> n] :
     n \in d.durable..d.len}

Crash ==
  /\ \/ pc # "down" /\ Fault("kill") /\ UNCHANGED disk
     \/ /\ Fault("power")
        /\ \E k \in Remains(disk["hmac-key"]), u \in Remains(disk["uri"]) :
             disk' = [f \in File |-> IF f = "uri" THEN u ELSE k]
  /\ Exit
  /\ UNCHANGED <<used, synced, served>>

Next ==
  \/ Boot
  \/ Load
  \/ Create
  \/ Write
  \/ Sync
  \/ Open
  \/ Stop
  \/ Crash

Spec == Init /\ [][Next]_vars

-----------------------------------------------------------------------------
(***************************************************************************)
(* OpenDataDir: "afterwards the persisted value wins so already-issued     *)
(* pending attestations stay resolvable".  Once an identity has been       *)
(* served whose files were created to the end, no boot ever serves another *)
(* one, whatever --calendar-uri it is given and whatever happened since.   *)
(***************************************************************************)
IdentityStable == \A i \in served : pc = "serving" => loaded = i

(***************************************************************************)
(* Nor is any boot ever refused then because of a short or empty file:     *)
(* kills, power losses and I/O errors after the first service need no      *)
(* repair (writeFileSync syncs before OpenDataDir goes on).                *)
(***************************************************************************)
StartsAgain == served # {} => pc # "refused"
=============================================================================
