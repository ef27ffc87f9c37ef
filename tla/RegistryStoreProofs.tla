------------------------- MODULE RegistryStoreProofs -------------------------
(***************************************************************************)
(* What the registry's locking and writing protocol guarantees for any     *)
(* number of processes and readers, any documents and any changes: with    *)
(* advisory locks, and what is left of it on a file system without them.   *)
(***************************************************************************)
EXTENDS RegistryReaders, TLAPS

(***************************************************************************)
(* With advisory locks.                                                    *)
(***************************************************************************)
(* The lock is what keeps writers apart: whoever is between its load and   *)
(* its return holds it.                                                    *)
LockInv == \A p \in Procs : pc[p] \in CriticalSection <=> lock = p

CallInv == \A p \in Procs : pc[p] # "idle" => change[p] \in Changes

(* A writer's document is its change of the document that is still there.  *)
LoadedInv ==
    \A p \in Procs : pc[p] \in Writing =>
        /\ loaded[p] = Apply(change[p], Current)
        /\ loaded[p] \in Docs

TempInv ==
    \A p \in Procs :
        /\ pc[p] = "fsync" => temp[p] = [doc |-> loaded[p], flushed |-> FALSE]
        /\ pc[p] = "rename" => temp[p] = [doc |-> loaded[p], flushed |-> TRUE]
        /\ pc[p] \notin {"fsync", "rename"} => temp[p] = NoFile

(* What a power loss falls back to is a whole document, and feature.json   *)
(* is gone only once registry.json would survive.                          *)
FileInv ==
    /\ file.flushed
    /\ disk.flushed
    /\ Present(disk) => Present(file)
    /\ legacy # LegacyDoc => Present(disk)

LandedInv ==
    \A p \in Procs :
        /\ pc[p] \in Landed => Present(file)
        /\ pc[p] \in {"sweep", "legacy", "unlock"} => disk = file

IInv ==
    /\ TypeOK
    /\ LockInv
    /\ CallInv
    /\ LoadedInv
    /\ TempInv
    /\ FileInv
    /\ LandedInv

LEMMA NoPolls == 0 \in 0..PollLimit
BY RegistryStoreAssumption

LEMMA InitInv == ASSUME Init PROVE IInv
<1> USE RegistryStoreAssumption
<1>1. TypeOK
  BY NoPolls DEF Init, TypeOK
<1>2. LockInv /\ CallInv /\ LoadedInv /\ TempInv /\ LandedInv
  BY DEF Init, LockInv, CallInv, LoadedInv, TempInv, LandedInv, CriticalSection, Writing, Landed
<1>3. FileInv
  BY DEF Init, FileInv, NoFile, Present
<1> QED  BY <1>1, <1>2, <1>3 DEF IInv

LEMMA AcceptedIsDoc ==
  ASSUME NEW c \in Changes, NEW d \in Docs, Apply(c, d) # Rejected
  PROVE  Apply(c, d) \in Docs
BY RegistryStoreAssumption

(* Everything but the lock's holder is outside the critical section.       *)
LEMMA OneHolder ==
  ASSUME LockInv, NEW p \in Procs, NEW q \in Procs,
         pc[p] \in CriticalSection, pc[q] \in CriticalSection
  PROVE  p = q
BY DEF LockInv

LEMMA TempDoc ==
  ASSUME TempInv, NEW p \in Procs, pc[p] \in {"fsync", "rename"}
  PROVE  temp[p].doc = loaded[p]
<1>1. \E b \in BOOLEAN : temp[p] = [doc |-> loaded[p], flushed |-> b]
  BY DEF TempInv
<1> QED  BY <1>1

LEMMA ReturnInv ==
  ASSUME IInv, NEW p \in Procs, pc[p] # "idle",
         NEW result \in {"none", "ok", "rejected", "locked", "error"}, Return(p, result)
  PROVE  IInv'
<1> USE RegistryStoreAssumption DEF Return, Goto, IInv
<1>1. TypeOK'
  BY DEF TypeOK, writerVars, readerVars
<1>2. LockInv'
  BY DEF TypeOK, LockInv, CriticalSection
<1>3. Current' = Current
  BY DEF Current, Present
<1>4. CallInv' /\ TempInv'
  BY DEF TypeOK, CallInv, TempInv
<1>5. LoadedInv'
  BY <1>3 DEF TypeOK, LoadedInv, Writing
<1>6. FileInv' /\ LandedInv'
  BY DEF TypeOK, FileInv, LandedInv, Present, Landed
<1> QED  BY <1>1, <1>2, <1>4, <1>5, <1>6

LEMMA StepInv == ASSUME LockSupported, IInv, [Next]_vars PROVE IInv'
<1> USE RegistryStoreAssumption
<1>1. CASE UNCHANGED vars
  BY <1>1 DEF vars, writerVars, readerVars, IInv, TypeOK, LockInv, CallInv, LoadedInv,
              TempInv, FileInv, LandedInv, Current, Present
<1>2. ASSUME NEW p \in Procs, NEW c \in Changes, Begin(p, c) PROVE IInv'
  <2> USE <1>2 DEF Begin, Goto, IInv, readerVars
  <2>1. TypeOK'
    BY DEF TypeOK
  <2>2. LockInv' /\ CallInv' /\ TempInv'
    BY DEF TypeOK, LockInv, CallInv, TempInv, CriticalSection
  <2>3. LoadedInv' /\ FileInv' /\ LandedInv'
    BY DEF TypeOK, LoadedInv, FileInv, LandedInv, Writing, Landed, Current, Present
  <2> QED  BY <2>1, <2>2, <2>3
<1>3. ASSUME NEW p \in Procs, Acquire(p) PROVE IInv'
  <2> USE <1>3 DEF Acquire, Goto, IInv, readerVars
  <2>1. TypeOK'
    BY DEF TypeOK, CriticalSection
  <2>2. LockInv' /\ CallInv' /\ TempInv'
    BY DEF TypeOK, LockInv, CallInv, TempInv, CriticalSection, LockAvailable
  <2>3. LoadedInv' /\ FileInv' /\ LandedInv'
    BY DEF TypeOK, LoadedInv, FileInv, LandedInv, Writing, Landed, Current, Present
  <2> QED  BY <2>1, <2>2, <2>3
<1>4. ASSUME NEW p \in Procs, Poll(p) PROVE IInv'
  <2> USE <1>4 DEF Poll, IInv, readerVars
  <2>1. TypeOK'
    BY DEF TypeOK
  <2>2. LockInv' /\ CallInv' /\ TempInv' /\ LoadedInv' /\ FileInv' /\ LandedInv'
    BY DEF LockInv, CallInv, TempInv, LoadedInv, FileInv, LandedInv, Current, Present
  <2> QED  BY <2>1, <2>2
<1>5. ASSUME NEW p \in Procs, GiveUp(p) PROVE IInv'
  BY <1>5, ReturnInv DEF GiveUp
<1>6. ASSUME NEW p \in Procs, Load(p) PROVE IInv'
  <2> USE <1>6 DEF Load, Goto, IInv, readerVars
  <2>1. Current \in Docs /\ change[p] \in Changes
    BY DEF TypeOK, CallInv, Current, Present, Contents, NoFile
  <2>2. Apply(change[p], Current) \in Docs
    BY <2>1, AcceptedIsDoc
  <2>3. Current' = Current
    BY DEF Current, Present
  <2>4. TypeOK'
    BY <2>2 DEF TypeOK, CriticalSection
  <2>5. LockInv' /\ CallInv' /\ TempInv'
    BY DEF TypeOK, LockInv, CallInv, TempInv, CriticalSection
  <2>6. LoadedInv'
    BY <2>2, <2>3 DEF TypeOK, LoadedInv, Writing
  <2>7. FileInv' /\ LandedInv'
    BY DEF TypeOK, FileInv, LandedInv, Landed, Present
  <2> QED  BY <2>4, <2>5, <2>6, <2>7
<1>7. ASSUME NEW p \in Procs, LoadRejected(p) PROVE IInv'
  BY <1>7, ReturnInv DEF LoadRejected
<1>8. ASSUME NEW p \in Procs, CreateTemp(p) PROVE IInv'
  <2> USE <1>8 DEF CreateTemp, Goto, IInv, readerVars
  <2>1. loaded[p] \in Docs
    BY DEF LoadedInv, Writing
  <2>2. TypeOK'
    BY <2>1 DEF TypeOK, CriticalSection, Contents
  <2>3. LockInv' /\ CallInv' /\ TempInv'
    BY DEF TypeOK, LockInv, CallInv, TempInv, CriticalSection
  <2>4. LoadedInv' /\ FileInv' /\ LandedInv'
    BY DEF TypeOK, LoadedInv, FileInv, LandedInv, Writing, Landed, Current, Present
  <2> QED  BY <2>2, <2>3, <2>4
<1>9. ASSUME NEW p \in Procs, FsyncTemp(p) PROVE IInv'
  <2> USE <1>9 DEF FsyncTemp, Goto, IInv, readerVars
  <2>1. loaded[p] \in Docs /\ temp[p] = [doc |-> loaded[p], flushed |-> FALSE]
    BY DEF LoadedInv, TempInv, Writing
  <2>2. temp' = [temp EXCEPT ![p] = [doc |-> loaded[p], flushed |-> TRUE]]
    BY <2>1
  <2>3. TypeOK'
    <3>1. [doc |-> loaded[p], flushed |-> TRUE] \in Contents
      BY <2>1 DEF Contents
    <3> QED  BY <2>2, <3>1 DEF TypeOK, CriticalSection
  <2>4. LockInv' /\ CallInv'
    BY DEF TypeOK, LockInv, CallInv, CriticalSection
  <2>5. TempInv'
    BY <2>2 DEF TypeOK, TempInv
  <2>6. LoadedInv' /\ FileInv' /\ LandedInv'
    BY DEF TypeOK, LoadedInv, FileInv, LandedInv, Writing, Landed, Current, Present
  <2> QED  BY <2>3, <2>4, <2>5, <2>6
<1>10. ASSUME NEW p \in Procs, Rename(p) PROVE IInv'
  <2> USE <1>10 DEF Rename, Goto, IInv, readerVars
  <2>1. temp[p] = [doc |-> loaded[p], flushed |-> TRUE] /\ loaded[p] \in Docs
    BY DEF LoadedInv, TempInv, Writing
  <2>2. \A q \in Procs : pc[q] \in CriticalSection => q = p
    BY OneHolder DEF CriticalSection
  <2>3. TypeOK'
    BY <2>1 DEF TypeOK, CriticalSection, Contents
  <2>4. LockInv' /\ CallInv' /\ TempInv'
    BY DEF TypeOK, LockInv, CallInv, TempInv, CriticalSection
  <2>5. LoadedInv'
    BY <2>2 DEF TypeOK, LoadedInv, Writing, CriticalSection
  <2>6. FileInv'
    BY <2>1 DEF FileInv, Present
  <2>7. LandedInv'
    BY <2>1, <2>2 DEF TypeOK, LandedInv, Landed, CriticalSection, Present
  <2> QED  BY <2>3, <2>4, <2>5, <2>6, <2>7
<1>11. ASSUME NEW p \in Procs, SyncDir(p) PROVE IInv'
  <2> USE <1>11 DEF SyncDir, Goto, IInv, readerVars
  <2>1. TypeOK'
    BY DEF TypeOK, CriticalSection
  <2>2. LockInv' /\ CallInv' /\ TempInv'
    BY DEF TypeOK, LockInv, CallInv, TempInv, CriticalSection
  <2>3. LoadedInv' /\ FileInv' /\ LandedInv'
    BY DEF TypeOK, LoadedInv, FileInv, LandedInv, Writing, Landed, Current, Present
  <2> QED  BY <2>1, <2>2, <2>3
<1>12. ASSUME NEW p \in Procs, Sweep(p) PROVE IInv'
  <2> USE <1>12 DEF Sweep, Goto, IInv, readerVars
  <2>1. \A q \in Procs : pc[q] \notin {"fsync", "rename"}
    BY OneHolder DEF CriticalSection
  <2>2. \A q \in Procs : temp[q] = NoFile
    BY <2>1 DEF TempInv
  <2>3. temp' = temp
    BY <2>2 DEF TypeOK, Present, NoFile
  <2>4. TypeOK'
    BY <2>3 DEF TypeOK, CriticalSection
  <2>5. LockInv' /\ CallInv' /\ TempInv'
    BY <2>3 DEF TypeOK, LockInv, CallInv, TempInv, CriticalSection
  <2>6. LoadedInv' /\ FileInv' /\ LandedInv'
    BY DEF TypeOK, LoadedInv, FileInv, LandedInv, Writing, Landed, Current, Present
  <2> QED  BY <2>4, <2>5, <2>6
<1>13. ASSUME NEW p \in Procs, RemoveLegacy(p) PROVE IInv'
  <2> USE <1>13 DEF RemoveLegacy, Goto, IInv, readerVars
  <2>1. Present(file) /\ disk = file
    BY DEF LandedInv, Landed
  <2>2. TypeOK'
    BY DEF TypeOK, CriticalSection
  <2>3. LockInv' /\ CallInv' /\ TempInv'
    BY DEF TypeOK, LockInv, CallInv, TempInv, CriticalSection
  <2>4. LoadedInv' /\ FileInv' /\ LandedInv'
    BY <2>1 DEF TypeOK, LoadedInv, FileInv, LandedInv, Writing, Landed, Current, Present
  <2> QED  BY <2>2, <2>3, <2>4
<1>14. ASSUME NEW p \in Procs, Finish(p) PROVE IInv'
  BY <1>14, ReturnInv DEF Finish
<1>15. ASSUME NEW p \in Procs, IoError(p) PROVE IInv'
  BY <1>15, ReturnInv DEF IoError
<1>16. ASSUME NEW p \in Procs, Crash(p) PROVE IInv'
  <2> USE <1>16 DEF Crash, Goto, IInv, readerVars
  <2>1. TypeOK'
    BY DEF TypeOK, Present
  <2>2. LockInv' /\ CallInv' /\ TempInv'
    BY DEF TypeOK, LockInv, CallInv, TempInv, CriticalSection
  <2>3. LoadedInv' /\ FileInv' /\ LandedInv'
    BY DEF TypeOK, LoadedInv, FileInv, LandedInv, Writing, Landed, Current, Present
  <2> QED  BY <2>1, <2>2, <2>3
<1>17. ASSUME NEW r \in Readers, Read(r) PROVE IInv'
  <2> USE <1>17 DEF Read, writerVars, IInv
  <2>1. file.doc \in Docs \cup {NoDoc} /\ legacy \in Docs \cup {NoDoc}
    BY DEF TypeOK, Contents, NoFile
  <2>2. TypeOK'
    BY <2>1 DEF TypeOK, FindRegistry, ReadRegistry, FindLegacy, ReadLegacy, ReadReturn
  <2>3. LockInv' /\ CallInv' /\ TempInv' /\ LoadedInv' /\ FileInv' /\ LandedInv'
    BY DEF LockInv, CallInv, TempInv, LoadedInv, FileInv, LandedInv, Current, Present
  <2> QED  BY <2>2, <2>3
<1>18. CASE WriteBack
  <2> USE <1>18 DEF WriteBack, writerVars, readerVars, IInv
  <2>1. TypeOK'
    BY DEF TypeOK
  <2>2. LockInv' /\ CallInv' /\ TempInv' /\ LoadedInv' /\ FileInv' /\ LandedInv'
    BY DEF LockInv, CallInv, TempInv, LoadedInv, FileInv, LandedInv, Current, Present
  <2> QED  BY <2>1, <2>2
<1>19. CASE PowerLoss
  <2> USE <1>19 DEF PowerLoss, IInv
  <2>1. file' = disk /\ disk' = disk
    BY DEF FileInv
  <2>2. TypeOK'
    BY <2>1, NoPolls DEF TypeOK
  <2>3. LockInv' /\ CallInv' /\ TempInv' /\ LoadedInv' /\ LandedInv'
    BY DEF LockInv, CallInv, TempInv, LoadedInv, LandedInv, CriticalSection, Writing, Landed
  <2>4. FileInv'
    BY <2>1 DEF FileInv, Present
  <2> QED  BY <2>2, <2>3, <2>4
<1> QED
  BY <1>1, <1>2, <1>3, <1>4, <1>5, <1>6, <1>7, <1>8, <1>9, <1>10, <1>11, <1>12, <1>13,
     <1>14, <1>15, <1>16, <1>17, <1>18, <1>19 DEF Next, Step

(* The invariant holds throughout every behaviour on a file system that    *)
(* has locks.                                                              *)
LEMMA Invariance == ASSUME LockSupported PROVE Spec => []IInv
<1>1. Init => IInv
  BY InitInv
<1>2. IInv /\ [Next]_vars => IInv'
  BY StepInv
<1> QED  BY <1>1, <1>2, PTL DEF Spec

(* The sweep of a lock holder never deletes the temporary file that        *)
(* another writer is about to rename.                                      *)
THEOREM SweepSparesLiveTemp == ASSUME LockSupported PROVE Spec => []LiveTempKept
<1>1. IInv => LiveTempKept
  <2>1. SUFFICES ASSUME IInv, NEW p \in Procs, pc[p] \in {"fsync", "rename"}
                 PROVE  Present(temp[p])
    BY DEF LiveTempKept
  <2>2. loaded[p] \in Docs
    BY <2>1 DEF IInv, LoadedInv, Writing
  <2>3. temp[p].doc = loaded[p]
    BY <2>1, TempDoc DEF IInv
  <2> QED  BY <2>2, <2>3, RegistryStoreAssumption DEF Present
<1> QED  BY <1>1, Invariance, PTL

(* Two writers are never between lock and unlock together, and the write   *)
(* of each lands on the document it read: no update is lost.               *)
THEOREM UpdatesNeverLost == ASSUME LockSupported PROVE Spec => NoLostUpdate
<1>1. ASSUME IInv, [Next]_vars
      PROVE  [\A p \in Procs : Rename(p) => Current' = Apply(change[p], Current)]_vars
  <2>1. SUFFICES ASSUME NEW p \in Procs, Rename(p)
                 PROVE  Current' = Apply(change[p], Current)
    OBVIOUS
  <2>2. loaded[p] = Apply(change[p], Current) /\ loaded[p] \in Docs /\ temp[p].doc = loaded[p]
    BY <1>1, <2>1, TempDoc DEF IInv, LoadedInv, Writing, Rename
  <2>3. Present(file') /\ file'.doc = loaded[p]
    BY <2>1, <2>2, RegistryStoreAssumption DEF Rename, Present
  <2> QED  BY <2>2, <2>3 DEF Current, Present
<1> QED  BY <1>1, Invariance, PTL DEF NoLostUpdate, Spec

(***************************************************************************)
(* The protocol implements AtomicRegistry.                                 *)
(***************************************************************************)
AbstractCall ==
    [p \in Procs |->
        IF pc[p] = "idle" THEN [phase |-> "none"]
        ELSE IF pc[p] \in Landed THEN [phase |-> "committed", change |-> change[p]]
        ELSE [phase |-> "pending", change |-> change[p]]]

LEMMA AbstractInit == ASSUME Init PROVE Atomic!Init
<1> USE RegistryStoreAssumption
<1>1. ~ Present(file) /\ ~ Present(disk) /\ legacy = LegacyDoc
  BY DEF Init, NoFile, Present
<1>2. AbstractCall = [p \in Procs |-> [phase |-> "none"]]
  BY DEF Init, AbstractCall
<1> QED
  BY <1>1, <1>2 DEF Init, Atomic!Init, Atomic!NoCall, AbstractCall, Current, Durable

(* A call that ends, however it ends, leaves the documents alone. *)
LEMMA AbstractReturn ==
  ASSUME IInv, NEW p \in Procs, NEW result, Return(p, result)
  PROVE  /\ Current' = Current
         /\ Durable' = Durable
         /\ AbstractCall' = [AbstractCall EXCEPT ![p] = [phase |-> "none"]]
         /\ answer' = [answer EXCEPT ![p] = result]
<1>1. Current' = Current /\ Durable' = Durable
  BY DEF Return, Current, Durable, Present
<1>2. AbstractCall' = [AbstractCall EXCEPT ![p] = [phase |-> "none"]]
  BY DEF Return, Goto, IInv, TypeOK, AbstractCall
<1> QED  BY <1>1, <1>2 DEF Return

LEMMA AbstractStep == ASSUME LockSupported, IInv, [Next]_vars PROVE [Atomic!Next]_(Atomic!vars)
<1> USE RegistryStoreAssumption
<1> DEFINE Stutter == UNCHANGED <<Current, Durable, AbstractCall, answer>>
<1>0. ASSUME Stutter PROVE UNCHANGED Atomic!vars
  BY <1>0 DEF Atomic!vars, AbstractCall
<1>1. CASE UNCHANGED vars
  BY <1>0, <1>1 DEF vars, writerVars, readerVars, Current, Durable, Present, AbstractCall
<1>2. ASSUME NEW p \in Procs, NEW c \in Changes, Begin(p, c) PROVE Atomic!Call(p, c)
  <2>1. AbstractCall' = [AbstractCall EXCEPT ![p] = [phase |-> "pending", change |-> c]]
    BY <1>2 DEF Begin, Goto, IInv, TypeOK, AbstractCall, Landed
  <2>2. AbstractCall[p] = [phase |-> "none"]
    BY <1>2 DEF Begin, AbstractCall
  <2>3. UNCHANGED <<Current, Durable>>
    BY <1>2 DEF Begin, Current, Durable, Present
  <2> QED
    BY <1>2, <2>1, <2>2, <2>3 DEF Begin, AbstractCall, Atomic!Call, Atomic!NoCall, Atomic!Pending
<1>3. ASSUME NEW p \in Procs,
             Acquire(p) \/ Poll(p) \/ Load(p) \/ CreateTemp(p) \/ FsyncTemp(p)
      PROVE  Stutter
  <2>1. UNCHANGED <<file, disk, legacy, change, answer>>
    BY <1>3 DEF Acquire, Poll, Load, CreateTemp, FsyncTemp
  <2>2. UNCHANGED <<Current, Durable>>
    BY <2>1 DEF Current, Durable, Present
  <2>3. UNCHANGED AbstractCall
    BY <1>3, <2>1 DEF Acquire, Poll, Load, CreateTemp, FsyncTemp, Goto, IInv, TypeOK,
                      AbstractCall, Landed
  <2> QED  BY <2>1, <2>2, <2>3
<1>4. ASSUME NEW p \in Procs, GiveUp(p) PROVE Atomic!TimeOut(p)
  <2>1. AbstractCall[p].phase = "pending"
    BY <1>4 DEF GiveUp, AbstractCall, Landed
  <2>2. Return(p, "locked")
    BY <1>4 DEF GiveUp
  <2> QED  BY <2>1, <2>2, AbstractReturn DEF Atomic!TimeOut, Atomic!NoCall, AbstractCall
<1>5. ASSUME NEW p \in Procs, LoadRejected(p) PROVE Atomic!Reject(p)
  <2>1. AbstractCall[p] = [phase |-> "pending", change |-> change[p]]
    BY <1>5 DEF LoadRejected, AbstractCall, Landed
  <2>2. Return(p, "rejected") /\ Apply(change[p], Current) = Rejected
    BY <1>5 DEF LoadRejected
  <2>3. AbstractCall[p].phase = "pending" /\ AbstractCall[p].change = change[p]
    BY <2>1
  <2> QED  BY <2>2, <2>3, AbstractReturn DEF Atomic!Reject, Atomic!NoCall, AbstractCall
<1>6. ASSUME NEW p \in Procs, Rename(p) PROVE Atomic!Commit(p)
  <2>1. /\ loaded[p] = Apply(change[p], Current) /\ loaded[p] \in Docs
        /\ temp[p].doc = loaded[p]
    BY <1>6, TempDoc DEF Rename, IInv, LoadedInv, Writing
  <2>2. Current' = Apply(change[p], Current) /\ Apply(change[p], Current) # Rejected
    BY <1>6, <2>1 DEF Rename, Current, Present
  <2>3. UNCHANGED <<Durable, answer>>
    BY <1>6 DEF Rename, Durable, Present
  <2>4. AbstractCall[p] = [phase |-> "pending", change |-> change[p]]
    BY <1>6 DEF Rename, AbstractCall, Landed
  <2>5. AbstractCall[p].phase = "pending" /\ AbstractCall[p].change = change[p]
    BY <2>4
  <2>6. AbstractCall' = [AbstractCall EXCEPT ![p] = [phase |-> "committed", change |-> change[p]]]
    BY <1>6 DEF Rename, Goto, IInv, TypeOK, AbstractCall, Landed
  <2>7. AbstractCall' = [AbstractCall EXCEPT
                            ![p] = [phase |-> "committed", change |-> AbstractCall[p].change]]
    BY <2>5, <2>6
  <2> QED  BY <2>2, <2>3, <2>5, <2>7 DEF Atomic!Commit, Atomic!Committed, AbstractCall
<1>7. ASSUME NEW p \in Procs, SyncDir(p) PROVE Atomic!Flush
  <2>1. Present(file)
    BY <1>7 DEF SyncDir, IInv, LandedInv, Landed
  <2>2. UNCHANGED <<Current, answer>> /\ Durable' = Current
    BY <1>7, <2>1 DEF SyncDir, Current, Durable, Present
  <2>3. UNCHANGED AbstractCall
    BY <1>7 DEF SyncDir, Goto, IInv, TypeOK, AbstractCall, Landed
  <2> QED  BY <2>2, <2>3 DEF Atomic!Flush, AbstractCall
<1>8. ASSUME NEW p \in Procs, Sweep(p) \/ RemoveLegacy(p) PROVE Stutter
  <2>1. Present(file) /\ disk = file /\ UNCHANGED <<file, disk, change, answer>>
    BY <1>8 DEF Sweep, RemoveLegacy, IInv, LandedInv, Landed
  <2>2. UNCHANGED <<Current, Durable>>
    BY <2>1 DEF Current, Durable, Present
  <2>3. UNCHANGED AbstractCall
    BY <1>8, <2>1 DEF Sweep, RemoveLegacy, Goto, IInv, TypeOK, AbstractCall, Landed
  <2> QED  BY <2>1, <2>2, <2>3
<1>9. ASSUME NEW p \in Procs, Finish(p) PROVE Atomic!Acknowledge(p)
  <2>1. Present(file) /\ disk = file
    BY <1>9 DEF Finish, IInv, LandedInv, Landed
  <2>2. Durable = Current
    BY <2>1 DEF Durable, Current, Present
  <2>3. AbstractCall[p].phase = "committed"
    BY <1>9 DEF Finish, AbstractCall, Landed
  <2>4. Return(p, "ok")
    BY <1>9 DEF Finish
  <2> QED
    BY <2>2, <2>3, <2>4, AbstractReturn DEF Atomic!Acknowledge, Atomic!NoCall, AbstractCall
<1>10. ASSUME NEW p \in Procs, IoError(p) PROVE Atomic!Fail(p)
  <2>1. AbstractCall[p].phase # "none"
    BY <1>10 DEF IoError, AbstractCall, Landed
  <2>2. AbstractCall[p] # [phase |-> "none"]
    BY <2>1
  <2>3. Return(p, "error")
    BY <1>10 DEF IoError
  <2> QED  BY <2>2, <2>3, AbstractReturn DEF Atomic!Fail, Atomic!NoCall, AbstractCall
<1>11. ASSUME NEW p \in Procs, Crash(p) PROVE Atomic!Crash(p)
  <2>1. AbstractCall' = [AbstractCall EXCEPT ![p] = [phase |-> "none"]]
    BY <1>11 DEF Crash, Goto, IInv, TypeOK, AbstractCall
  <2>2. UNCHANGED <<Current, Durable>>
    BY <1>11 DEF Crash, Current, Durable, Present
  <2> QED  BY <1>11, <2>1, <2>2 DEF Crash, Atomic!Crash, Atomic!NoCall, AbstractCall
<1>12. ASSUME NEW r \in Readers, Read(r) PROVE Stutter
  BY <1>12 DEF Read, writerVars, Current, Durable, Present, AbstractCall
<1>13. CASE WriteBack
  <2>1. Durable' = Current
    BY <1>13 DEF WriteBack, IInv, FileInv, Durable, Current, Present
  <2>2. UNCHANGED <<Current, AbstractCall, answer>>
    BY <1>13 DEF WriteBack, writerVars, Current, Present, AbstractCall
  <2>3. Atomic!Flush
    BY <2>1, <2>2 DEF Atomic!Flush, AbstractCall
  <2> QED  BY <2>3 DEF Atomic!Next
<1>14. CASE PowerLoss
  <2>1. file' = disk /\ disk' = disk
    BY <1>14 DEF PowerLoss, IInv, FileInv
  <2>2. ~ Present(disk) => legacy' = legacy
    BY <1>14 DEF PowerLoss, IInv, FileInv
  <2>3. Current' = Durable /\ Durable' = Durable
    BY <2>1, <2>2 DEF Current, Durable, Present
  <2>4. AbstractCall' = [p \in Procs |-> [phase |-> "none"]]
    BY <1>14 DEF PowerLoss, AbstractCall
  <2>5. answer' = [p \in Procs |-> "none"]
    BY <1>14 DEF PowerLoss
  <2>6. Atomic!PowerLoss
    BY <2>3, <2>4, <2>5 DEF Atomic!PowerLoss, Atomic!NoCall, AbstractCall
  <2> QED  BY <2>6 DEF Atomic!Next
<1>15. ASSUME NEW p \in Procs, Step(p) PROVE [Atomic!Next]_(Atomic!vars)
  BY <1>15, <1>0, <1>3, <1>4, <1>5, <1>6, <1>7, <1>8, <1>9 DEF Step, Atomic!Next
<1> QED
  BY <1>0, <1>1, <1>2, <1>10, <1>11, <1>12, <1>13, <1>14, <1>15 DEF Next, Atomic!Next

(* Every behaviour of the protocol is one of the abstract registry, whose  *)
(* changes are atomic and whose "ok" survives a power loss.                *)
THEOREM Refinement == ASSUME LockSupported PROVE Spec => ImplementsAtomicRegistry
<1>1. Init => Atomic!Init
  BY AbstractInit
<1>2. IInv /\ [Next]_vars => [Atomic!Next]_(Atomic!vars)
  BY AbstractStep
<1> QED  BY <1>1, <1>2, Invariance, PTL DEF ImplementsAtomicRegistry, Atomic!Spec, Spec

(***************************************************************************)
(* With or without them.  Where there are none, several writers may be     *)
(* between load and return together, and the sweep of one may take the     *)
(* temporary file of another; but what is renamed has been fsynced.        *)
(***************************************************************************)
FreeInv ==
    /\ TypeOK
    /\ CallInv
    /\ \A p \in Procs :
        /\ pc[p] \in Writing => loaded[p] \in Docs
        /\ pc[p] = "rename" => temp[p].flushed
    /\ file.flushed
    /\ disk.flushed

LEMMA FreeInitInv == ASSUME Init PROVE FreeInv
<1>1. TypeOK
  BY InitInv DEF IInv
<1> QED  BY <1>1 DEF Init, FreeInv, CallInv, Writing, NoFile

(* Whatever the file system has, it is a document. *)
LEMMA CurrentIsDoc == ASSUME TypeOK PROVE Current \in Docs
BY RegistryStoreAssumption DEF TypeOK, Current, Present, Contents, NoFile

LEMMA FreeReturn ==
  ASSUME FreeInv, NEW p \in Procs, NEW result \in {"none", "ok", "rejected", "locked", "error"},
         Return(p, result)
  PROVE  FreeInv'
<1> USE RegistryStoreAssumption DEF Return, Goto, FreeInv
<1>1. TypeOK'
  BY NoPolls DEF TypeOK, writerVars, readerVars
<1>2. CallInv'
  BY DEF TypeOK, CallInv
<1>3. \A q \in Procs : (pc[q] \in Writing => loaded[q] \in Docs)'
  BY DEF TypeOK, Writing
<1>4. \A q \in Procs : (pc[q] = "rename" => temp[q].flushed)'
  BY DEF TypeOK
<1> QED  BY <1>1, <1>2, <1>3, <1>4

LEMMA FreeStep == ASSUME FreeInv, [Next]_vars PROVE FreeInv'
<1> USE RegistryStoreAssumption
<1>1. CASE UNCHANGED vars
  BY <1>1 DEF vars, writerVars, readerVars, FreeInv, TypeOK, CallInv
<1>2. ASSUME NEW p \in Procs, NEW c \in Changes, Begin(p, c) PROVE FreeInv'
  BY <1>2 DEF Begin, Goto, FreeInv, TypeOK, CallInv, Writing, readerVars
<1>3. ASSUME NEW p \in Procs, Acquire(p) PROVE FreeInv'
  BY <1>3 DEF Acquire, Goto, FreeInv, TypeOK, CallInv, Writing, CriticalSection, readerVars
<1>4. ASSUME NEW p \in Procs, Poll(p) PROVE FreeInv'
  BY <1>4 DEF Poll, FreeInv, TypeOK, CallInv, readerVars
<1>5. ASSUME NEW p \in Procs, GiveUp(p) \/ LoadRejected(p) \/ Finish(p) \/ IoError(p) PROVE FreeInv'
  BY <1>5, FreeReturn DEF GiveUp, LoadRejected, Finish, IoError
<1>6. ASSUME NEW p \in Procs, Load(p) PROVE FreeInv'
  <2>1. Apply(change[p], Current) \in Docs
    BY <1>6, CurrentIsDoc, AcceptedIsDoc DEF Load, FreeInv, CallInv
  <2> QED
    BY <1>6, <2>1 DEF Load, Goto, FreeInv, TypeOK, CallInv, Writing, CriticalSection, readerVars
<1>7. ASSUME NEW p \in Procs, CreateTemp(p) PROVE FreeInv'
  <2>1. [doc |-> loaded[p], flushed |-> FALSE] \in Contents
    BY <1>7 DEF CreateTemp, FreeInv, Writing, Contents
  <2> QED
    BY <1>7, <2>1 DEF CreateTemp, Goto, FreeInv, TypeOK, CallInv, Writing, CriticalSection, readerVars
<1>8. ASSUME NEW p \in Procs, FsyncTemp(p) PROVE FreeInv'
  <2> DEFINE synced == [doc |-> temp[p].doc, flushed |-> TRUE]
  <2>1. synced \in Contents \cup {NoFile} /\ synced.flushed
    <3>1. temp[p] \in Contents \/ temp[p] = NoFile
      BY DEF FreeInv, TypeOK
    <3>2. temp[p].doc \in Docs \/ temp[p].doc = NoDoc
      BY <3>1 DEF Contents, NoFile
    <3> QED  BY <3>2 DEF Contents, NoFile
  <2>2. /\ temp' = [temp EXCEPT ![p] = synced]
        /\ pc' = [pc EXCEPT ![p] = "rename"]
        /\ pc[p] = "fsync"
        /\ UNCHANGED <<file, disk, legacy, leftover, lock, change, loaded, polls, answer, rpc, got>>
    BY <1>8 DEF FsyncTemp, Goto, readerVars
  <2> HIDE DEF synced
  <2>3. temp' \in [Procs -> Contents \cup {NoFile}]
    BY <2>1, <2>2 DEF FreeInv, TypeOK
  <2>4. TypeOK'
    BY <2>2, <2>3 DEF FreeInv, TypeOK, CriticalSection
  <2>5. \A q \in Procs : (pc[q] = "rename" => temp[q].flushed)'
    BY <2>1, <2>2 DEF FreeInv, TypeOK
  <2> QED
    BY <2>2, <2>4, <2>5 DEF FreeInv, TypeOK, CallInv, Writing
<1>9. ASSUME NEW p \in Procs, Rename(p) PROVE FreeInv'
  BY <1>9 DEF Rename, Goto, FreeInv, TypeOK, CallInv, Writing, CriticalSection, readerVars
<1>10. ASSUME NEW p \in Procs, SyncDir(p) \/ RemoveLegacy(p) PROVE FreeInv'
  BY <1>10 DEF SyncDir, RemoveLegacy, Goto, FreeInv, TypeOK, CallInv, Writing, CriticalSection, readerVars
<1>11. ASSUME NEW p \in Procs, Sweep(p) PROVE FreeInv'
  <2>1. /\ temp' \in [Procs -> Contents \cup {NoFile}]
        /\ \A q \in Procs : temp'[q] \in {temp[q], NoFile}
    BY <1>11 DEF Sweep, FreeInv, TypeOK
  <2>2. NoFile.flushed /\ pc'[p] = "legacy" /\ \A q \in Procs : q # p => pc'[q] = pc[q]
    BY <1>11 DEF NoFile, Sweep, Goto, FreeInv, TypeOK
  <2>3. TypeOK'
    BY <1>11, <2>1 DEF Sweep, Goto, FreeInv, TypeOK, CriticalSection, readerVars
  <2>4. \A q \in Procs : (pc[q] = "rename" => temp[q].flushed)'
    BY <2>1, <2>2 DEF FreeInv
  <2> QED
    BY <1>11, <2>2, <2>3, <2>4 DEF Sweep, FreeInv, CallInv, Writing
<1>12. ASSUME NEW p \in Procs, Crash(p) PROVE FreeInv'
  BY <1>12, NoPolls DEF Crash, Goto, FreeInv, TypeOK, CallInv, Writing, Present, readerVars
<1>13. ASSUME NEW r \in Readers, Read(r) PROVE FreeInv'
  <2>1. file.doc \in Docs \cup {NoDoc} /\ legacy \in Docs \cup {NoDoc}
    BY DEF FreeInv, TypeOK, Contents, NoFile
  <2>2. TypeOK'
    BY <1>13, <2>1 DEF Read, writerVars, FreeInv, TypeOK, FindRegistry, ReadRegistry, FindLegacy,
                       ReadLegacy, ReadReturn
  <2> QED  BY <1>13, <2>2 DEF Read, writerVars, FreeInv, CallInv
<1>14. CASE WriteBack
  BY <1>14 DEF WriteBack, writerVars, readerVars, FreeInv, TypeOK, CallInv
<1>15. CASE PowerLoss
  <2>1. file' = disk /\ disk' = disk
    BY <1>15 DEF PowerLoss, FreeInv
  <2> QED  BY <1>15, <2>1, NoPolls DEF PowerLoss, FreeInv, TypeOK, CallInv, Writing, NoFile
<1> QED
  BY <1>1, <1>2, <1>3, <1>4, <1>5, <1>6, <1>7, <1>8, <1>9, <1>10, <1>11, <1>12, <1>13, <1>14,
     <1>15 DEF Next, Step

LEMMA FreeInvariance == Spec => []FreeInv
<1>1. Init => FreeInv
  BY FreeInitInv
<1>2. FreeInv /\ [Next]_vars => FreeInv'
  BY FreeStep
<1> QED  BY <1>1, <1>2, PTL DEF Spec

(* The variables keep their types; in particular no step, and no power     *)
(* loss, leaves registry.json with anything but a whole document.          *)
THEOREM TypeCorrectness == Spec => []TypeOK
<1>1. FreeInv => TypeOK
  BY DEF FreeInv
<1> QED  BY <1>1, FreeInvariance, PTL

(* write_atomic fsyncs before it renames, so the registry is never torn,   *)
(* whether or not the writers are kept apart by a lock.                    *)
THEOREM TornNever == Spec => []NeverTorn
<1>1. FreeInv => NeverTorn
  <2>1. SUFFICES ASSUME file \in Contents \cup {NoFile} PROVE file # TornFile
    BY DEF FreeInv, TypeOK, NeverTorn
  <2>2. file.doc # Torn
    BY <2>1, RegistryStoreAssumption DEF NoFile, Contents
  <2>3. TornFile.doc = Torn
    BY DEF TornFile
  <2> QED  BY <2>2, <2>3
<1> QED  BY <1>1, FreeInvariance, PTL

(***************************************************************************)
(* The readers, which take no lock.                                        *)
(***************************************************************************)
(* A load under way: the file it has found stays, and what it will or did  *)
(* return was current since it began.                                      *)
LoadInv ==
    \A r \in Readers :
        /\ rpc[r] = "registry" => Present(file)
        /\ rpc[r] = "findLegacy" => EmptyDoc \in seen[r]
        /\ rpc[r] # "legacy"
        /\ rpc[r] = "done" => got[r] \in seen[r]

SeenType == legacy = NoDoc /\ seen \in [Readers -> SUBSET Docs]

ReaderInv == FreeInv /\ SeenType /\ LoadInv

(* What a load has seen it goes on having seen. *)
LEMMA SeenGrows ==
  ASSUME FreeInv, FreeInv', SeenType, NextReaders, NEW r \in Readers, rpc'[r] # "idle"
  PROVE  /\ seen[r] \subseteq seen'[r]
         /\ Current \in seen'[r]
BY DEF NextReaders, SeenType

LEMMA ReaderStep ==
  ASSUME LegacyDoc = NoDoc, ReaderInv, [NextReaders]_readerHistory
  PROVE  ReaderInv'
<1>1. FreeInv'
  BY FreeStep DEF ReaderInv, NextReaders, readerHistory
<1>2. legacy' = NoDoc
  BY <1>1 DEF FreeInv, TypeOK, ReaderInv
<1>3. seen' \in [Readers -> SUBSET Docs]
  <2>1. Current \in Docs /\ Current' \in Docs
    BY <1>1, RegistryStoreAssumption
    DEF ReaderInv, FreeInv, TypeOK, Current, Present, Contents, NoFile
  <2> QED  BY <2>1 DEF ReaderInv, SeenType, NextReaders, readerHistory
<1>4. LoadInv'
  <2>1. CASE UNCHANGED readerHistory
    BY <2>1 DEF readerHistory, vars, readerVars, ReaderInv, LoadInv, Present
  <2>2. CASE NextReaders
    <3> SUFFICES ASSUME NEW r \in Readers
                 PROVE  /\ rpc'[r] = "registry" => Present(file')
                        /\ rpc'[r] = "findLegacy" => EmptyDoc \in seen'[r]
                        /\ rpc'[r] # "legacy"
                        /\ rpc'[r] = "done" => got'[r] \in seen'[r]
      BY DEF LoadInv, Present
    <3>1. rpc'[r] # "idle" => seen[r] \subseteq seen'[r] /\ Current \in seen'[r]
      BY <1>1, <2>2, SeenGrows DEF ReaderInv
    <3>2. CASE UNCHANGED readerVars /\ (Present(file) => Present(file'))
      BY <3>1, <3>2 DEF readerVars, ReaderInv, LoadInv
    <3>3. CASE PowerLoss
      BY <3>3 DEF PowerLoss
    <3>4. ASSUME NEW q \in Readers, Read(q),
                 \/ FindRegistry(q) \/ ReadRegistry(q) \/ FindLegacy(q) \/ ReadLegacy(q) \/ ReadReturn(q)
          PROVE  /\ rpc'[r] = "registry" => Present(file')
                 /\ rpc'[r] = "findLegacy" => EmptyDoc \in seen'[r]
                 /\ rpc'[r] # "legacy"
                 /\ rpc'[r] = "done" => got'[r] \in seen'[r]
      <4>1. file' = file /\ legacy = NoDoc /\ DOMAIN rpc = Readers /\ DOMAIN got = Readers
        BY <3>4 DEF Read, ReaderInv, SeenType, FreeInv, TypeOK
      <4>2. CASE q # r
        <5>1. rpc'[r] = rpc[r] /\ got'[r] = got[r]
          BY <3>4, <4>1, <4>2 DEF FindRegistry, ReadRegistry, FindLegacy, ReadLegacy, ReadReturn
        <5> QED  BY <3>1, <4>1, <5>1 DEF ReaderInv, LoadInv
      <4>3. CASE q = r
        <5>1. CASE FindRegistry(r)
          BY <3>1, <4>1, <5>1 DEF FindRegistry, Current
        <5>2. CASE ReadRegistry(r)
          BY <3>1, <4>1, <5>2 DEF ReadRegistry, Current, ReaderInv, LoadInv
        <5>3. CASE FindLegacy(r)
          BY <3>1, <4>1, <5>3 DEF FindLegacy, ReaderInv, LoadInv
        <5>4. CASE ReadLegacy(r) \/ ReadReturn(r)
          BY <4>1, <5>4 DEF ReadLegacy, ReadReturn, ReaderInv, LoadInv
        <5> QED  BY <3>4, <4>3, <5>1, <5>2, <5>3, <5>4
      <4> QED  BY <4>2, <4>3
    <3>5. ASSUME NEW p \in Procs, Rename(p) PROVE Present(file')
      BY <3>5 DEF Rename, Present
    <3>6. ASSUME NEW p \in Procs, (\E c \in Changes : Begin(p, c)) \/ Step(p) \/ IoError(p) \/ Crash(p)
          PROVE  UNCHANGED readerVars /\ (Present(file) => Present(file'))
      BY <3>5, <3>6 DEF Begin, Step, Acquire, Poll, GiveUp, Load, LoadRejected, CreateTemp, FsyncTemp,
                        Rename, SyncDir, Sweep, RemoveLegacy, Finish, IoError, Crash, Return, Present
    <3>7. CASE WriteBack
      BY <3>2, <3>7 DEF WriteBack
    <3> QED  BY <2>2, <3>2, <3>3, <3>4, <3>6, <3>7 DEF NextReaders, Next, Read
  <2> QED  BY <2>1, <2>2
<1> QED  BY <1>1, <1>2, <1>3, <1>4 DEF ReaderInv, SeenType

(* A lock-free reader is answered with a document that was the registry at *)
(* some moment of its load, for any number of writers, with locks or       *)
(* without, and whatever crashes, unless there is a feature.json of an old *)
(* version to move over.                                                   *)
THEOREM ReadersAnswered == ASSUME LegacyDoc = NoDoc PROVE SpecReaders => []ReadersSeeCommitted
<1>1. InitReaders => ReaderInv
  BY FreeInitInv DEF InitReaders, Init, ReaderInv, SeenType, LoadInv
<1>2. ReaderInv /\ [NextReaders]_readerHistory => ReaderInv'
  BY ReaderStep
<1>3. ReaderInv => ReadersSeeCommitted
  BY DEF ReaderInv, LoadInv, ReadersSeeCommitted
<1> QED  BY <1>1, <1>2, <1>3, PTL DEF SpecReaders
=============================================================================
