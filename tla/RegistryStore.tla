--------------------------- MODULE RegistryStore ----------------------------
(***************************************************************************)
(* FeatureStateStore::mutate over atomic_fs: the lock on the state         *)
(* directory, the read-modify-write under it, the write through a          *)
(* temporary file, the lock-free readers, and what a crash, an I/O error   *)
(* or a power loss does to each step.  Documents and changes are           *)
(* parameters: credentials and config keep their files the same way.       *)
(***************************************************************************)
EXTENDS Naturals

CONSTANTS
    Procs,        \* processes (or threads) that change the registry
    Readers,      \* processes that only read it
    Docs,         \* documents the file can hold
    EmptyDoc,     \* FeatureRegistry::default()
    Changes,      \* the changes a caller may ask for
    Apply(_, _),  \* Apply(c, d): the document c makes of d, or Rejected
    Rejected,     \* the outcome of a change that returns an error
    NoDoc,        \* a file that is not there
    Torn,         \* the bytes of a file whose data never reached the disk
    LegacyDoc,    \* what feature.json holds at the start, or NoDoc
    NoProc,       \* nobody holds the lock
    NoChange,     \* no change under way
    PollLimit,    \* attempts that fit in LOCK_TIMEOUT
    LockSupported \* whether the file system has advisory locks

ASSUME RegistryStoreAssumption ==
    /\ EmptyDoc \in Docs
    /\ \A c \in Changes, d \in Docs : Apply(c, d) \in Docs \cup {Rejected}
    /\ Rejected \notin Docs
    /\ NoDoc \notin Docs
    /\ Torn \notin Docs \cup {NoDoc}
    /\ LegacyDoc \in Docs \cup {NoDoc}
    /\ NoProc \notin Procs
    /\ NoChange \notin Changes
    /\ PollLimit \in Nat \ {0}
    /\ LockSupported \in BOOLEAN

(* A file: its document, and whether its data has been fsynced. *)
Contents == [doc : Docs, flushed : BOOLEAN]
NoFile == [doc |-> NoDoc, flushed |-> TRUE]
TornFile == [doc |-> Torn, flushed |-> TRUE]

(* Where a writer stands; each name is the step it is about to take. *)
CriticalSection == {"load", "create", "fsync", "rename", "sync", "sweep", "legacy", "unlock"}
Writing == {"create", "fsync", "rename"}
Landed == {"sync", "sweep", "legacy", "unlock"}

VARIABLES
    file,      \* registry.json, as every process sees it
    disk,      \* registry.json, as a power loss would leave it
    legacy,    \* feature.json, the registry of old versions
    temp,      \* [Procs -> the writer's temporary file, or NoFile]
    leftover,  \* whether a crashed writer's temporary file lies around
    lock,      \* the process holding the flock
    pc,        \* [Procs -> "idle", "lock" or a step of the critical section]
    change,    \* [Procs -> the change asked for]
    loaded,    \* [Procs -> the document read under the lock, then the changed one]
    polls,     \* [Procs -> failed attempts to lock]
    answer,    \* [Procs -> what the last call answered]
    rpc,       \* [Readers -> where a lock-free load_registry stands]
    got        \* [Readers -> what the load returned]

writerVars == <<pc, change, loaded, polls, answer>>
readerVars == <<rpc, got>>
vars == <<file, disk, legacy, temp, leftover, lock, writerVars, readerVars>>

Present(contents) == contents.doc # NoDoc

(* The document load_registry finds when nothing moves. *)
Current ==
    IF Present(file) THEN file.doc ELSE IF legacy # NoDoc THEN legacy ELSE EmptyDoc

Init ==
    /\ file = NoFile
    /\ disk = NoFile
    /\ legacy = LegacyDoc
    /\ temp = [p \in Procs |-> NoFile]
    /\ leftover = FALSE
    /\ lock = NoProc
    /\ pc = [p \in Procs |-> "idle"]
    /\ change = [p \in Procs |-> NoChange]
    /\ loaded = [p \in Procs |-> NoDoc]
    /\ polls = [p \in Procs |-> 0]
    /\ answer = [p \in Procs |-> "none"]
    /\ rpc = [r \in Readers |-> "idle"]
    /\ got = [r \in Readers |-> NoDoc]

(***************************************************************************)
(* Writers.                                                                *)
(***************************************************************************)
Goto(p, step) == pc' = [pc EXCEPT ![p] = step]

(* The guard goes out of scope: the temporary file, if there still is one, *)
(* is deleted with it, and the caller has its answer.                      *)
Return(p, result) ==
    /\ temp' = [temp EXCEPT ![p] = NoFile]
    /\ lock' = IF lock = p THEN NoProc ELSE lock
    /\ Goto(p, "idle")
    /\ change' = [change EXCEPT ![p] = NoChange]
    /\ loaded' = [loaded EXCEPT ![p] = NoDoc]
    /\ polls' = [polls EXCEPT ![p] = 0]
    /\ answer' = [answer EXCEPT ![p] = result]
    /\ UNCHANGED <<file, disk, legacy, leftover, readerVars>>

Begin(p, c) ==
    /\ pc[p] = "idle"
    /\ Goto(p, "lock")
    /\ change' = [change EXCEPT ![p] = c]
    /\ answer' = [answer EXCEPT ![p] = "none"]
    /\ UNCHANGED <<file, disk, legacy, temp, leftover, lock, loaded, polls, readerVars>>

(* Slip: the lock is not exclusive. *)
LockShared == TRUE

(* Where locks are not supported the writer goes on without one. *)
LockAvailable == ~ LockSupported \/ lock = NoProc

Acquire(p) ==
    /\ pc[p] = "lock"
    /\ LockAvailable
    /\ lock' = IF LockSupported THEN p ELSE NoProc
    /\ Goto(p, "load")
    /\ UNCHANGED <<file, disk, legacy, temp, leftover, change, loaded, polls, answer, readerVars>>

(* Slip: the time spent waiting is not counted. *)
PollUncounted(p) ==
    /\ pc[p] = "lock"
    /\ ~ LockAvailable
    /\ UNCHANGED vars

Poll(p) ==
    /\ pc[p] = "lock"
    /\ ~ LockAvailable
    /\ polls[p] < PollLimit
    /\ polls' = [polls EXCEPT ![p] = @ + 1]
    /\ UNCHANGED <<file, disk, legacy, temp, leftover, lock, pc, change, loaded, answer, readerVars>>

(* Error::RegistryLocked. *)
GiveUp(p) ==
    /\ pc[p] = "lock"
    /\ ~ LockAvailable
    /\ polls[p] = PollLimit
    /\ Return(p, "locked")

(* Nobody else writes while p holds the lock, so its load is one step.     *)
(* (Without locks that takes LegacyDoc = NoDoc.)                           *)
Load(p) ==
    /\ pc[p] = "load"
    /\ Apply(change[p], Current) # Rejected
    /\ loaded' = [loaded EXCEPT ![p] = Apply(change[p], Current)]
    /\ Goto(p, "create")
    /\ UNCHANGED <<file, disk, legacy, temp, leftover, lock, change, polls, answer, readerVars>>

(* The change failed: nothing is written. *)
LoadRejected(p) ==
    /\ pc[p] = "load"
    /\ Apply(change[p], Current) = Rejected
    /\ Return(p, "rejected")

CreateTemp(p) ==
    /\ pc[p] = "create"
    /\ temp' = [temp EXCEPT ![p] = [doc |-> loaded[p], flushed |-> FALSE]]
    /\ Goto(p, "fsync")
    /\ UNCHANGED <<file, disk, legacy, leftover, lock, change, loaded, polls, answer, readerVars>>

(* Slip: the file is renamed without an fsync of its data. *)
FsyncNothing(p) ==
    /\ pc[p] = "fsync"
    /\ Goto(p, "rename")
    /\ UNCHANGED <<file, disk, legacy, temp, leftover, lock, change, loaded, polls, answer, readerVars>>

FsyncTemp(p) ==
    /\ pc[p] = "fsync"
    /\ temp' = [temp EXCEPT ![p] = [doc |-> @.doc, flushed |-> TRUE]]
    /\ Goto(p, "rename")
    /\ UNCHANGED <<file, disk, legacy, leftover, lock, change, loaded, polls, answer, readerVars>>

Rename(p) ==
    /\ pc[p] = "rename"
    /\ Present(temp[p])
    /\ file' = temp[p]
    /\ temp' = [temp EXCEPT ![p] = NoFile]
    /\ Goto(p, "sync")
    /\ UNCHANGED <<disk, legacy, leftover, lock, change, loaded, polls, answer, readerVars>>

(* Slip: the directory is not synced after the rename. *)
SyncNothing(p) ==
    /\ pc[p] = "sync"
    /\ Goto(p, "sweep")
    /\ UNCHANGED <<file, disk, legacy, temp, leftover, lock, change, loaded, polls, answer, readerVars>>

SyncDir(p) ==
    /\ pc[p] = "sync"
    /\ disk' = file
    /\ Goto(p, "sweep")
    /\ UNCHANGED <<file, legacy, temp, leftover, lock, change, loaded, polls, answer, readerVars>>

(* Temporary files older than an hour go.  Any of them may be that old: a  *)
(* writer can have been suspended in the middle of its write.              *)
Sweep(p) ==
    /\ pc[p] = "sweep"
    /\ \E old \in SUBSET {q \in Procs : Present(temp[q])} :
        temp' = [q \in Procs |-> IF q \in old THEN NoFile ELSE temp[q]]
    /\ leftover' \in {leftover, FALSE}
    /\ Goto(p, "legacy")
    /\ UNCHANGED <<file, disk, legacy, lock, change, loaded, polls, answer, readerVars>>

(* Best effort: a removal that fails is ignored. *)
RemoveLegacy(p) ==
    /\ pc[p] = "legacy"
    /\ legacy' \in {legacy, NoDoc}
    /\ Goto(p, "unlock")
    /\ UNCHANGED <<file, disk, temp, leftover, lock, change, loaded, polls, answer, readerVars>>

Finish(p) ==
    /\ pc[p] = "unlock"
    /\ Return(p, "ok")

(* An I/O error in opening the lock, the load, the write or the sync. *)
IoError(p) ==
    /\ pc[p] \in {"lock", "load", "create", "fsync", "rename", "sync"}
    /\ Return(p, "error")

(* The process dies; the kernel releases its flock, its file stays.        *)
Crash(p) ==
    /\ pc[p] # "idle"
    /\ temp' = [temp EXCEPT ![p] = NoFile]
    /\ leftover' = (leftover \/ Present(temp[p]))
    /\ lock' = IF lock = p THEN NoProc ELSE lock
    /\ Goto(p, "idle")
    /\ change' = [change EXCEPT ![p] = NoChange]
    /\ loaded' = [loaded EXCEPT ![p] = NoDoc]
    /\ polls' = [polls EXCEPT ![p] = 0]
    /\ answer' = [answer EXCEPT ![p] = "none"]
    /\ UNCHANGED <<file, disk, legacy, readerVars>>

(***************************************************************************)
(* Readers: load_registry without the lock, one file operation per step.   *)
(***************************************************************************)
(* Slip: the old file is looked for first. *)
FindLegacyFirst(r) ==
    /\ rpc[r] = "idle"
    /\ rpc' = [rpc EXCEPT ![r] = "findLegacy"]
    /\ got' = [got EXCEPT ![r] = NoDoc]

FindRegistry(r) ==
    /\ rpc[r] = "idle"
    /\ rpc' = [rpc EXCEPT ![r] = IF Present(file) THEN "registry" ELSE "findLegacy"]
    /\ got' = [got EXCEPT ![r] = NoDoc]

ReadRegistry(r) ==
    /\ rpc[r] = "registry"
    /\ rpc' = [rpc EXCEPT ![r] = "done"]
    /\ got' = [got EXCEPT ![r] = file.doc]

FindLegacy(r) ==
    /\ rpc[r] = "findLegacy"
    /\ IF legacy = NoDoc
       THEN /\ rpc' = [rpc EXCEPT ![r] = "done"]
            /\ got' = [got EXCEPT ![r] = EmptyDoc]
       ELSE /\ rpc' = [rpc EXCEPT ![r] = "legacy"]
            /\ UNCHANGED got

(* NoDoc is the error of reading a file that has gone meanwhile. *)
ReadLegacy(r) ==
    /\ rpc[r] = "legacy"
    /\ rpc' = [rpc EXCEPT ![r] = "done"]
    /\ got' = [got EXCEPT ![r] = legacy]

ReadReturn(r) ==
    /\ rpc[r] = "done"
    /\ rpc' = [rpc EXCEPT ![r] = "idle"]
    /\ got' = [got EXCEPT ![r] = NoDoc]

Read(r) ==
    /\ \/ FindRegistry(r)
       \/ ReadRegistry(r)
       \/ FindLegacy(r)
       \/ ReadLegacy(r)
       \/ ReadReturn(r)
    /\ UNCHANGED <<file, disk, legacy, temp, leftover, lock, writerVars>>

(***************************************************************************)
(* The machine.                                                            *)
(***************************************************************************)
(* The file system writes the directory back on its own. *)
WriteBack ==
    /\ disk' = file
    /\ UNCHANGED <<file, legacy, temp, leftover, lock, writerVars, readerVars>>

(* Data that was never fsynced is gone, and the removal of feature.json,   *)
(* which nothing syncs, may be undone.                                     *)
PowerLoss ==
    /\ file' = IF disk.flushed THEN disk ELSE TornFile
    /\ disk' = file'
    /\ legacy' \in {legacy, LegacyDoc}
    /\ temp' = [p \in Procs |-> NoFile]
    /\ leftover' \in {leftover, leftover \/ \E p \in Procs : Present(temp[p])}
    /\ lock' = NoProc
    /\ pc' = [p \in Procs |-> "idle"]
    /\ change' = [p \in Procs |-> NoChange]
    /\ loaded' = [p \in Procs |-> NoDoc]
    /\ polls' = [p \in Procs |-> 0]
    /\ answer' = [p \in Procs |-> "none"]
    /\ rpc' = [r \in Readers |-> "idle"]
    /\ got' = [r \in Readers |-> NoDoc]

Step(p) ==
    \/ Acquire(p)
    \/ Poll(p)
    \/ GiveUp(p)
    \/ Load(p)
    \/ LoadRejected(p)
    \/ CreateTemp(p)
    \/ FsyncTemp(p)
    \/ Rename(p)
    \/ SyncDir(p)
    \/ Sweep(p)
    \/ RemoveLegacy(p)
    \/ Finish(p)

Next ==
    \/ \E p \in Procs :
        \/ \E c \in Changes : Begin(p, c)
        \/ Step(p)
        \/ IoError(p)
        \/ Crash(p)
    \/ \E r \in Readers : Read(r)
    \/ WriteBack
    \/ PowerLoss

Spec == Init /\ [][Next]_vars

(* A running process goes on; nothing else is assumed, no error in         *)
(* particular.  The poll loop needs no fairness of the lock: its time is   *)
(* bounded.                                                                *)
FairSpec == Spec /\ \A p \in Procs : WF_vars(Step(p))

(***************************************************************************)
(* What it implements.                                                     *)
(***************************************************************************)
Durable ==
    IF Present(disk) THEN disk.doc ELSE IF legacy # NoDoc THEN legacy ELSE EmptyDoc

Atomic == INSTANCE AtomicRegistry WITH
    FirstDoc <- IF LegacyDoc # NoDoc THEN LegacyDoc ELSE EmptyDoc,
    registry <- Current,
    durable <- Durable,
    call <- [p \in Procs |->
        IF pc[p] = "idle" THEN [phase |-> "none"]
        ELSE IF pc[p] \in Landed THEN [phase |-> "committed", change |-> change[p]]
        ELSE [phase |-> "pending", change |-> change[p]]]

(* The locked read-modify-write through a temporary file is an atomic and  *)
(* durable change of the registry: no update is lost to another process, a *)
(* failed or interrupted call leaves the old or the new document, and "ok" *)
(* survives a power loss (feature.rs, FeatureStateStore's promise).        *)
ImplementsAtomicRegistry == Atomic!Spec

(***************************************************************************)
(* Properties.                                                             *)
(***************************************************************************)
(* The types of the variables. *)
TypeOK ==
    /\ file \in Contents \cup {NoFile}
    /\ disk \in Contents \cup {NoFile}
    /\ legacy \in {LegacyDoc, NoDoc}
    /\ temp \in [Procs -> Contents \cup {NoFile}]
    /\ leftover \in BOOLEAN
    /\ lock \in Procs \cup {NoProc}
    /\ pc \in [Procs -> CriticalSection \cup {"idle", "lock"}]
    /\ change \in [Procs -> Changes \cup {NoChange}]
    /\ loaded \in [Procs -> Docs \cup {NoDoc}]
    /\ polls \in [Procs -> 0..PollLimit]
    /\ answer \in [Procs -> {"none", "ok", "rejected", "locked", "error"}]
    /\ rpc \in [Readers -> {"idle", "registry", "findLegacy", "legacy", "done"}]
    /\ got \in [Readers -> Docs \cup {NoDoc}]

(* No power loss, at whatever step of a write, leaves a file whose data is *)
(* incomplete, lock or no lock: the rename follows the fsync of the data   *)
(* (write_atomic: "never a torn write").                                   *)
NeverTorn == file # TornFile

(* The sweep of old temporary files, which goes by age alone, never takes  *)
(* the file a suspended writer is about to rename: the sweeper and the     *)
(* writer would have to hold the lock together.                            *)
LiveTempKept == \A p \in Procs : pc[p] \in {"fsync", "rename"} => Present(temp[p])

(* A writer renames over exactly the document its change was computed from *)
(* : no other write, crash or power loss comes between its load and its    *)
(* rename.                                                                 *)
NoLostUpdate ==
    [][\A p \in Procs : Rename(p) => Current' = Apply(change[p], Current)]_vars

(* A call to mutate returns within the lock timeout, whatever the other    *)
(* processes do, and even if they never let the lock rest.                 *)
EveryCallReturns == \A p \in Procs : pc[p] # "idle" ~> pc[p] = "idle"
=============================================================================
