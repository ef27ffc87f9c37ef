--------------------------- MODULE ToolReplayProofs ---------------------------
(* What the dispatch of a tool request guarantees for any number of           *)
(* dispatchers, requests, answers, deaths, losses and power losses.           *)
EXTENDS ToolReplay, FiniteSetTheorems, TLAPS

(* A dispatcher works on the request just while it holds the attempt lock.    *)
Works(d) == pc[d] \notin {"idle", "lock"}
HolderInv == \A d \in Dispatchers : Works(d) <=> holder = d

-----------------------------------------------------------------------------
(* Pure facts.                                                                *)

LEMMA StepNames ==
    /\ "idle" \in Steps /\ "lock" \in Steps /\ "read" \in Steps /\ "load" \in Steps
    /\ "claim" \in Steps /\ "unlinkclaim" \in Steps /\ "syncclaim" \in Steps
    /\ "unstage" \in Steps /\ "relay" \in Steps /\ "done" \in Steps /\ "unlinkdone" \in Steps
    /\ "syncdone" \in Steps /\ "dropclaim" \in Steps /\ "syncdrop" \in Steps
    /\ "write" \in Steps /\ "stream" \in Steps /\ "clean" \in Steps
BY DEF Steps

LEMMA RecordFields ==
  ASSUME NEW r \in Records
  PROVE  /\ r.request \in Payloads /\ r.response \in Answers \cup {None} /\ r # None
         /\ \A a \in Answers : /\ [r EXCEPT !.response = a] \in Records
                               /\ [r EXCEPT !.response = a].response = a
                               /\ [r EXCEPT !.response = a].request = r.request
BY NoRecord DEF Records

LEMMA RecordMakes ==
  ASSUME NEW p \in Payloads
  PROVE  [request |-> p, response |-> None] \in Records
BY DEF Records

(* A function of the dispatchers that changes at one of them.                 *)
LEMMA Changed ==
  ASSUME NEW S, NEW f \in [Dispatchers -> S], NEW d \in Dispatchers, NEW x
  PROVE  /\ [f EXCEPT ![d] = x][d] = x
         /\ \A e \in Dispatchers : e # d => [f EXCEPT ![d] = x][e] = f[e]
         /\ x \in S => [f EXCEPT ![d] = x] \in [Dispatchers -> S]
OBVIOUS

-----------------------------------------------------------------------------
(* The steps of a dispatcher.                                                 *)

Locals == <<holder, pc, pending, replay>>

(* d goes on to a step, alone. *)
LEMMA Goes ==
  ASSUME TypeOK, NEW d \in Dispatchers, NEW step \in Steps, Goto(d, step)
  PROVE  /\ pc' \in [Dispatchers -> Steps]
         /\ pc'[d] = step
         /\ \A e \in Dispatchers : e # d => pc'[e] = pc[e]
BY Changed DEF TypeOK, Goto

(* d is at its end. *)
LEMMA Ends ==
  ASSUME TypeOK, NEW d \in Dispatchers, End(d)
  PROVE  /\ pc' \in [Dispatchers -> Steps]
         /\ pending' \in [Dispatchers -> Payloads \cup {None}]
         /\ replay' \in [Dispatchers -> Records \cup {None}]
         /\ holder' \in Dispatchers \cup {None}
         /\ pc'[d] = "idle" /\ pending'[d] = None /\ replay'[d] = None /\ holder' # d
         /\ \A e \in Dispatchers : e # d => pc'[e] = pc[e] /\ pending'[e] = pending[e] /\ replay'[e] = replay[e]
         /\ \A e \in Dispatchers : e # d => (holder' = e <=> holder = e)
<1>1. /\ pc' \in [Dispatchers -> Steps] /\ pc'[d] = "idle"
      /\ \A e \in Dispatchers : e # d => pc'[e] = pc[e]
  BY Goes, StepNames DEF End
<1>2. /\ pending' \in [Dispatchers -> Payloads \cup {None}] /\ pending'[d] = None
      /\ \A e \in Dispatchers : e # d => pending'[e] = pending[e]
  BY Changed DEF End, TypeOK
<1>3. /\ replay' \in [Dispatchers -> Records \cup {None}] /\ replay'[d] = None
      /\ \A e \in Dispatchers : e # d => replay'[e] = replay[e]
  BY Changed DEF End, TypeOK
<1>4. /\ holder' \in Dispatchers \cup {None} /\ holder' # d
      /\ \A e \in Dispatchers : e # d => (holder' = e <=> holder = e)
  BY NoneDistinct DEF End, TypeOK
<1> QED  BY <1>1, <1>2, <1>3, <1>4

LEMMA Alone ==
  ASSUME HolderInv, NEW d \in Dispatchers, Works(d), NEW e \in Dispatchers, e # d
  PROVE  ~Works(e)
BY DEF HolderInv

LEMMA ExistingTypes ==
  ASSUME TypeOK
  PROVE  /\ Existing \in Records \cup {None}
         /\ Existing # None <=> (claim # None \/ done # None)
         /\ done # None => Existing = done
         /\ done = None /\ claim # None => Existing.request = claim /\ Existing.response = None
BY RecordMakes, RecordFields DEF TypeOK, Existing

LEMMA InitTypes == ASSUME Init PROVE TypeOK /\ HolderInv
<1> USE DEF Init
<1>1. executed \in [Payloads -> 0..(MaxLosses + 2)]
  BY MaxLossesIsNat
<1>2. HolderInv
  BY NoneDistinct DEF HolderInv, Works
<1>3. pc \in [Dispatchers -> Steps]
  BY StepNames
<1> QED  BY <1>1, <1>2, <1>3 DEF TypeOK

-----------------------------------------------------------------------------
(* Types.                                                                     *)

Files ==
    /\ request \in Payloads \cup {None} /\ staged \in Payloads \cup {None}
    /\ temporary \in Answers \cup {None, Torn} /\ response \in Answers \cup {None, Torn}
    /\ claim \in Payloads \cup {None} /\ done \in Records \cup {None}
    /\ synced \in [claim : Payloads \cup {None}, done : Records \cup {None}]
    /\ links \subseteq {"claim", "done"}

LocalTypes ==
    /\ holder \in Dispatchers \cup {None}
    /\ pc \in [Dispatchers -> Steps]
    /\ pending \in [Dispatchers -> Payloads \cup {None}]
    /\ replay \in [Dispatchers -> Records \cup {None}]

EndpointTypes ==
    /\ executed \in [Payloads -> 0..(MaxLosses + 2)] /\ memory \in [Payloads -> Answers \cup {None}]
    /\ orphan \in BOOLEAN /\ returned \subseteq Answers
    /\ policy \in Policies /\ outages \in Nat

(* Where a record is at hand, and where it has its response.                  *)
Recorded == {"unlinkclaim", "syncclaim", "unstage", "relay", "done", "unlinkdone", "syncdone",
             "dropclaim", "syncdrop", "write", "stream", "clean"}
Answering == {"done", "unlinkdone", "syncdone", "dropclaim", "syncdrop", "write", "stream", "clean"}

ReplayInv ==
    \A d \in Dispatchers :
        /\ At(d, "claim") => pending[d] # None
        /\ pc[d] \in Recorded => replay[d] # None
        /\ pc[d] \in Answering => replay[d].response # None

LEMMA TypeParts ==
    /\ TypeOK => Files /\ LocalTypes /\ EndpointTypes
    /\ Files' /\ LocalTypes' /\ EndpointTypes' => TypeOK'
BY DEF TypeOK, Files, LocalTypes, EndpointTypes

LEMMA GoesTypes ==
  ASSUME TypeOK, NEW d \in Dispatchers, NEW step \in Steps, Goto(d, step),
         UNCHANGED <<holder, pending, replay>>
  PROVE  LocalTypes'
BY Goes DEF LocalTypes, TypeOK

LEMMA EndsTypes == ASSUME TypeOK, NEW d \in Dispatchers, End(d) PROVE LocalTypes'
BY Ends DEF LocalTypes

LEMMA DiskTypes ==
  ASSUME claim' \in Payloads \cup {None}, done' \in Records \cup {None}
  PROVE  OnDisk \in [claim : Payloads \cup {None}, done : Records \cup {None}]
BY DEF OnDisk

LEMMA EntryTypes ==
  ASSUME TypeOK, NEW d \in Dispatchers
  PROVE  replay[d] # None => replay[d] \in Records
BY DEF TypeOK

LEMMA ReadTypes == ASSUME TypeOK, NEW d \in Dispatchers, ReadSpooled(d) PROVE TypeOK'
<1> USE TypeParts
<1>1. request' \in Payloads \cup {None} /\ staged' \in Payloads \cup {None}
  BY DEF ReadSpooled, Files
<1>2. Files'
  BY <1>1 DEF ReadSpooled, Files, ledger
<1>3. EndpointTypes'
  BY DEF ReadSpooled, EndpointTypes, endpoint
<1>4. LocalTypes'
  <2>1. CASE End(d)
    BY <2>1, EndsTypes
  <2>2. CASE /\ Goto(d, "load") /\ UNCHANGED <<holder, replay>>
             /\ \E taken \in Payloads \cup {None} : pending' = [pending EXCEPT ![d] = taken]
    BY <2>2, Goes, StepNames, Changed DEF LocalTypes
  <2>3. request \in Payloads \cup {None} /\ staged \in Payloads \cup {None}
    BY DEF Files
  <2> QED  BY <2>1, <2>2, <2>3 DEF ReadSpooled
<1> QED  BY <1>2, <1>3, <1>4

LEMMA LoadTypes == ASSUME TypeOK, NEW d \in Dispatchers, LoadOrClaim(d) PROVE TypeOK'
<1> USE TypeParts
<1>1. EndpointTypes'
  BY DEF LoadOrClaim, EndpointTypes, endpoint
<1>2. synced' \in [claim : Payloads \cup {None}, done : Records \cup {None}]
  <2>1. claim' = claim /\ done' = done /\ (synced' = OnDisk \/ synced' = synced)
    BY DEF LoadOrClaim, Repair
  <2> QED  BY <2>1, DiskTypes DEF Files
<1>3. Files'
  BY <1>2 DEF LoadOrClaim, Repair, Files, spool
<1>4. LocalTypes'
  <2>1. CASE End(d)
    BY <2>1, EndsTypes
  <2>2. CASE Goto(d, "claim") /\ UNCHANGED <<holder, pending, replay>>
    BY <2>2, GoesTypes, StepNames
  <2>3. CASE /\ Existing # None
             /\ replay' = [replay EXCEPT ![d] = Existing]
             /\ Goto(d, IF pending[d] # None THEN "unstage" ELSE AfterClaim(Existing))
             /\ UNCHANGED <<holder, pending>>
    <3>1. (IF pending[d] # None THEN "unstage" ELSE AfterClaim(Existing)) \in Steps
      BY StepNames DEF AfterClaim
    <3>2. pc' \in [Dispatchers -> Steps]
      BY <2>3, <3>1, Goes
    <3>3. replay' \in [Dispatchers -> Records \cup {None}]
      BY <2>3, ExistingTypes, Changed DEF LocalTypes
    <3> QED  BY <2>3, <3>2, <3>3 DEF LocalTypes
  <2> QED  BY <2>1, <2>2, <2>3 DEF LoadOrClaim
<1> QED  BY <1>1, <1>3, <1>4

LEMMA LinkTypes ==
  ASSUME TypeOK, ReplayInv, NEW d \in Dispatchers, LinkClaim(d) \/ LinkDone(d)
  PROVE  TypeOK'
<1> USE TypeParts
<1>1. CASE LinkClaim(d)
  <2>1. pending[d] \in Payloads /\ [request |-> pending[d], response |-> None] \in Records
    BY <1>1, RecordMakes DEF ReplayInv, LinkClaim, LocalTypes
  <2>2. Files'
    BY <1>1, <2>1 DEF LinkClaim, Files, spool
  <2>3. LocalTypes'
    BY <1>1, <2>1, Goes, StepNames, Changed DEF LinkClaim, LocalTypes
  <2>4. EndpointTypes'
    BY <1>1 DEF LinkClaim, EndpointTypes, endpoint
  <2> QED  BY <2>2, <2>3, <2>4
<1>2. CASE LinkDone(d)
  <2>1. replay[d] \in Records
    BY <1>2, EntryTypes DEF ReplayInv, LinkDone, At, Recorded
  <2>2. Files'
    BY <1>2, <2>1 DEF LinkDone, Files, spool
  <2>3. LocalTypes'
    BY <1>2, GoesTypes, StepNames DEF LinkDone
  <2>4. EndpointTypes'
    BY <1>2 DEF LinkDone, EndpointTypes, endpoint
  <2> QED  BY <2>2, <2>3, <2>4
<1> QED  BY <1>1, <1>2

LEMMA SyncTypes ==
  ASSUME TypeOK, NEW d \in Dispatchers, NEW step, NEW next \in Steps, SyncDirectory(d, step, next)
  PROVE  TypeOK'
<1> USE TypeParts
<1>1. synced' \in [claim : Payloads \cup {None}, done : Records \cup {None}]
  BY DiskTypes DEF SyncDirectory, Files
<1>2. Files'
  BY <1>1 DEF SyncDirectory, Files, spool
<1>3. LocalTypes'
  BY GoesTypes DEF SyncDirectory
<1>4. EndpointTypes'
  BY DEF SyncDirectory, EndpointTypes, endpoint
<1> QED  BY <1>2, <1>3, <1>4

LEMMA UnlinkTypes ==
  ASSUME TypeOK, NEW d \in Dispatchers, NEW step, NEW file, NEW next \in Steps, Unlink(d, step, file, next)
  PROVE  TypeOK'
<1> USE TypeParts
<1>1. Files'
  BY DEF Unlink, Files, spool
<1>2. LocalTypes'
  BY GoesTypes DEF Unlink
<1>3. EndpointTypes'
  BY DEF Unlink, EndpointTypes, endpoint
<1> QED  BY <1>1, <1>2, <1>3

(* What the endpoint does. *)
LEMMA ExecuteTypes ==
  ASSUME TypeOK, NEW p \in Payloads, NEW a \in AnswersTo(p), Execute(p, a)
  PROVE  /\ executed' \in [Payloads -> 0..(MaxLosses + 2)]
         /\ memory' \in [Payloads -> Answers \cup {None}]
         /\ a \in Answers
<1>1. a \in Answers
  BY DEF AnswersTo, TypeOK
<1>2. (IF executed[p] < MaxLosses + 2 THEN executed[p] + 1 ELSE executed[p]) \in 0..(MaxLosses + 2)
  BY MaxLossesIsNat DEF TypeOK
<1> QED  BY <1>1, <1>2 DEF Execute, TypeOK

LEMMA RelayTypes ==
  ASSUME TypeOK, ReplayInv, NEW d \in Dispatchers, Relay(d) \/ RelayLost(d)
  PROVE  TypeOK'
<1> USE TypeParts
<1>1. replay[d] \in Records /\ replay[d].request \in Payloads
  BY EntryTypes, RecordFields DEF ReplayInv, Relay, RelayLost, At, Recorded
<1>2. Files'
  BY DEF Relay, RelayLost, Files, spool, ledger
<1>3. EndpointTypes'
  BY <1>1, ExecuteTypes DEF Relay, RelayLost, EndpointTypes
<1>4. LocalTypes'
  <2>1. CASE RelayLost(d)
    BY <2>1, EndsTypes DEF RelayLost
  <2>2. CASE Relay(d)
    <3>1. PICK a \in AnswersTo(replay[d].request) :
              /\ Execute(replay[d].request, a)
              /\ replay' = [replay EXCEPT ![d].response = a]
      BY <2>2 DEF Relay
    <3>2. a \in Answers
      BY <1>1, <3>1, ExecuteTypes
    <3>3. [replay[d] EXCEPT !.response = a] \in Records
      BY <1>1, <3>2, RecordFields
    <3>4. replay' \in [Dispatchers -> Records \cup {None}]
      BY <3>1, <3>3 DEF LocalTypes
    <3> QED  BY <2>2, <3>4, Goes, StepNames DEF Relay, LocalTypes
  <2> QED  BY <2>1, <2>2
<1> QED  BY <1>2, <1>3, <1>4

LEMMA DropTypes == ASSUME TypeOK, NEW d \in Dispatchers, Unstage(d) \/ DropClaim(d) PROVE TypeOK'
<1> USE TypeParts
<1>1. Files'
  BY DEF Unstage, DropClaim, Files, spool, ledger
<1>2. LocalTypes'
  <2>1. AfterClaim(replay[d]) \in Steps
    BY StepNames DEF AfterClaim
  <2> QED  BY <2>1, GoesTypes, StepNames DEF Unstage, DropClaim
<1>3. EndpointTypes'
  BY DEF Unstage, DropClaim, EndpointTypes, endpoint
<1> QED  BY <1>1, <1>2, <1>3

LEMMA WriteTypes ==
  ASSUME TypeOK, ReplayInv, NEW d \in Dispatchers, WriteBegins(d) \/ WriteEnds(d) \/ Clean(d)
  PROVE  TypeOK'
<1> USE TypeParts
<1>1. replay[d].response \in Answers
  BY EntryTypes, RecordFields
  DEF ReplayInv, WriteBegins, WriteEnds, Clean, At, Recorded, Answering
<1>2. Files'
  BY <1>1 DEF WriteBegins, WriteEnds, Commit, Clean, Files, ledger
<1>3. LocalTypes'
  BY GoesTypes, EndsTypes, StepNames DEF WriteBegins, WriteEnds, Clean
<1>4. EndpointTypes'
  BY <1>1 DEF WriteBegins, WriteEnds, Clean, EndpointTypes, endpoint
<1> QED  BY <1>2, <1>3, <1>4

LEMMA OrphanTypes == ASSUME TypeOK, OrphanWrites \/ OrphanKilled PROVE TypeOK'
<1> USE TypeParts
<1>1. Files'
  BY DEF OrphanWrites, OrphanKilled, Commit, Files, ledger, spool
<1>2. LocalTypes'
  BY DEF OrphanWrites, OrphanKilled, LocalTypes
<1>3. EndpointTypes'
  BY DEF OrphanWrites, OrphanKilled, EndpointTypes, endpoint
<1> QED  BY <1>1, <1>2, <1>3

LEMMA PowerTypes == ASSUME TypeOK, PowerLoss PROVE TypeOK'
<1> USE TypeParts
<1>1. claim' \in Payloads \cup {None} /\ done' \in Records \cup {None}
  BY DEF PowerLoss, Files
<1>2. Files'
  BY <1>1, DiskTypes DEF PowerLoss, Files, spool
<1>3. LocalTypes'
  BY StepNames DEF PowerLoss, LocalTypes
<1>4. EndpointTypes'
  <2>1. outages' \in Nat
    BY SMT DEF PowerLoss, EndpointTypes
  <2> QED  BY <2>1 DEF PowerLoss, EndpointTypes, endpoint
<1> QED  BY <1>2, <1>3, <1>4

LEMMA TypeStep == ASSUME TypeOK, ReplayInv, [Next]_vars PROVE TypeOK'
<1> USE TypeParts
<1>1. ASSUME NEW p \in Payloads, Submit(p) PROVE TypeOK'
  <2>1. Files' /\ LocalTypes' /\ EndpointTypes'
    BY <1>1 DEF Submit, Files, ledger, LocalTypes, EndpointTypes, endpoint
  <2> QED  BY <2>1
<1>2. ASSUME NEW d \in Dispatchers, Begin(d) \/ AcquireAttempt(d) PROVE TypeOK'
  <2>1. Files' /\ EndpointTypes'
    BY <1>2 DEF Begin, AcquireAttempt, Files, spool, ledger, EndpointTypes, endpoint
  <2>2. LocalTypes'
    BY <1>2, Goes, StepNames DEF Begin, AcquireAttempt, LocalTypes
  <2> QED  BY <2>1, <2>2
<1>3. ASSUME NEW d \in Dispatchers, Stop(d) PROVE TypeOK'
  <2>1. Files' /\ EndpointTypes'
    BY <1>3 DEF Stop, Files, spool, ledger, EndpointTypes, endpoint, At
  <2> QED  BY <1>3, <2>1, EndsTypes DEF Stop
<1>4. ASSUME NEW d \in Dispatchers, PersistClaim(d) \/ PersistDone(d) \/ SyncDrop(d) PROVE TypeOK'
  BY <1>4, UnlinkTypes, SyncTypes, StepNames DEF PersistClaim, PersistDone, SyncDrop
<1>5. ASSUME NEW d \in Dispatchers, Step(d) PROVE TypeOK'
  BY <1>2, <1>4, <1>5, ReadTypes, LoadTypes, LinkTypes, DropTypes, RelayTypes, WriteTypes DEF Step
<1>6. CASE UNCHANGED vars
  <2>1. Files' /\ LocalTypes' /\ EndpointTypes'
    BY <1>6 DEF vars, Files, spool, ledger, LocalTypes, EndpointTypes, endpoint
  <2> QED  BY <2>1
<1> QED
  BY <1>1, <1>3, <1>5, <1>6, RelayTypes, OrphanTypes, PowerTypes DEF Next

-----------------------------------------------------------------------------
(* One dispatcher at a time.                                                  *)
LEMMA HolderGoes ==
  ASSUME TypeOK, HolderInv, NEW d \in Dispatchers, Works(d),
         pc' \in [Dispatchers -> Steps], pc'[d] \notin {"idle", "lock"},
         \A e \in Dispatchers : e # d => pc'[e] = pc[e], holder' = holder
  PROVE  HolderInv'
BY DEF HolderInv, Works

LEMMA HolderEnds == ASSUME TypeOK, HolderInv, NEW d \in Dispatchers, End(d) PROVE HolderInv'
BY Ends DEF HolderInv, Works

LEMMA HolderStep == ASSUME TypeOK, HolderInv, [Next]_vars PROVE HolderInv'
<1>1. ASSUME UNCHANGED <<holder, pc>> PROVE HolderInv'
  BY <1>1 DEF HolderInv, Works
<1>2. ASSUME NEW d \in Dispatchers, NEW step \in Steps \ {"idle", "lock"}, Goto(d, step), Works(d),
             holder' = holder
      PROVE  HolderInv'
  BY <1>2, Goes, HolderGoes
<1>3. ASSUME NEW p \in Payloads, Submit(p) PROVE HolderInv'
  BY <1>1, <1>3 DEF Submit
<1>4. ASSUME NEW d \in Dispatchers, Begin(d) PROVE HolderInv'
  BY <1>4, Goes, StepNames DEF Begin, At, HolderInv, Works
<1>5. ASSUME NEW d \in Dispatchers, AcquireAttempt(d) PROVE HolderInv'
  <2>1. pc'[d] = "read" /\ \A e \in Dispatchers : e # d => pc'[e] = pc[e]
    BY <1>5, Goes, StepNames DEF AcquireAttempt
  <2> QED  BY <1>5, <2>1, NoneDistinct DEF AcquireAttempt, At, HolderInv, Works
<1>6. ASSUME NEW d \in Dispatchers, ReadSpooled(d) PROVE HolderInv'
  BY <1>2, <1>6, HolderEnds, StepNames DEF ReadSpooled, At, Works
<1>7. ASSUME NEW d \in Dispatchers, LoadOrClaim(d) PROVE HolderInv'
  <2>1. ASSUME NEW step \in {"unstage", "relay", "write", "claim"}
        PROVE  step \in Steps \ {"idle", "lock"}
    BY StepNames
  <2> QED  BY <1>2, <1>7, <2>1, HolderEnds DEF LoadOrClaim, At, Works, AfterClaim
<1>8. ASSUME NEW d \in Dispatchers, LinkClaim(d) \/ PersistClaim(d) PROVE HolderInv'
  BY <1>2, <1>8, StepNames DEF LinkClaim, PersistClaim, Unlink, SyncDirectory, At, Works
<1>9. ASSUME NEW d \in Dispatchers, Unstage(d) \/ Relay(d) PROVE HolderInv'
  BY <1>2, <1>9, StepNames DEF Unstage, Relay, AfterClaim, At, Works
<1>10. ASSUME NEW d \in Dispatchers, LinkDone(d) \/ PersistDone(d) PROVE HolderInv'
  BY <1>2, <1>10, StepNames DEF LinkDone, PersistDone, Unlink, SyncDirectory, At, Works
<1>11. ASSUME NEW d \in Dispatchers, DropClaim(d) \/ SyncDrop(d) PROVE HolderInv'
  BY <1>2, <1>11, StepNames DEF DropClaim, SyncDrop, SyncDirectory, At, Works
<1>12. ASSUME NEW d \in Dispatchers, WriteBegins(d) \/ WriteEnds(d) PROVE HolderInv'
  BY <1>2, <1>12, HolderEnds, StepNames DEF WriteBegins, WriteEnds, At, Works
<1>13. ASSUME NEW d \in Dispatchers, Clean(d) \/ RelayLost(d) \/ Stop(d) PROVE HolderInv'
  BY <1>13, HolderEnds DEF Clean, RelayLost, Stop
<1>14. CASE OrphanWrites \/ OrphanKilled \/ UNCHANGED vars
  BY <1>1, <1>14 DEF OrphanWrites, OrphanKilled, vars
<1>15. CASE PowerLoss
  BY <1>15, NoneDistinct DEF PowerLoss, HolderInv, Works
<1> QED
  BY <1>3, <1>4, <1>5, <1>6, <1>7, <1>8, <1>9, <1>10, <1>11, <1>12, <1>13, <1>14, <1>15 DEF Next, Step

-----------------------------------------------------------------------------
(* What a dispatcher knows at its steps: the ledger has nothing when it       *)
(* claims, its claim until the request was relayed, its answer after.         *)
Claiming == {"unlinkclaim", "syncclaim"}
Closing == {"unlinkdone", "syncdone", "dropclaim", "syncdrop"}

StepInv ==
    \A d \in Dispatchers :
        /\ At(d, "claim") => claim = None /\ done = None
        /\ pc[d] \in Claiming \cup {"done"} => claim # None /\ done = None
        /\ pc[d] \in Claiming \cup {"relay"} => replay[d].response = None
        /\ pc[d] \in {"unstage", "relay"} /\ replay[d].response = None => claim # None /\ done = None
        /\ pc[d] \in Closing => done # None

DoneInv ==
    /\ done # None => done.response # None
    /\ synced.done # None => synced.done.response # None

LocalInv == TypeOK /\ HolderInv /\ ReplayInv /\ StepInv /\ DoneInv

(* The part of ReplayInv and StepInv about one dispatcher, as facts. *)
Knows(d) ==
    /\ At(d, "claim") => pending[d] # None
    /\ pc[d] \in Recorded => replay[d] # None
    /\ pc[d] \in Answering => replay[d].response # None
    /\ At(d, "claim") => claim = None /\ done = None
    /\ pc[d] \in Claiming \cup {"done"} => claim # None /\ done = None
    /\ pc[d] \in Claiming \cup {"relay"} => replay[d].response = None
    /\ pc[d] \in {"unstage", "relay"} /\ replay[d].response = None => claim # None /\ done = None
    /\ pc[d] \in Closing => done # None

LEMMA KnowsAll == ReplayInv /\ StepInv <=> \A d \in Dispatchers : Knows(d)
BY DEF ReplayInv, StepInv, Knows

LEMMA KnowsNext == (\A d \in Dispatchers : Knows(d)') => ReplayInv' /\ StepInv'
BY DEF ReplayInv, StepInv, Knows

LEMMA IdleKnows ==
  ASSUME NEW d \in Dispatchers, pc'[d] \in {"idle", "lock", "read", "load"} PROVE Knows(d)'
BY DEF Knows, At, Recorded, Answering, Claiming, Closing

(* A step of d says nothing of the others, which wait. *)
LEMMA OthersKnow ==
  ASSUME HolderInv, NEW d \in Dispatchers, Works(d), Knows(d)',
         \A e \in Dispatchers : e # d => pc'[e] = pc[e]
  PROVE  \A e \in Dispatchers : Knows(e)'
<1>1. ASSUME NEW e \in Dispatchers, e # d PROVE Knows(e)'
  BY <1>1, Alone, IdleKnows DEF Works
<1> QED  BY <1>1

LEMMA EndKnows ==
  ASSUME TypeOK, HolderInv, NEW d \in Dispatchers, Works(d), End(d)
  PROVE  \A e \in Dispatchers : Knows(e)'
BY Ends, IdleKnows, OthersKnow

(* Where one dispatcher stands may be the only thing that changes. *)
LEMMA SameKnow ==
  ASSUME \A d \in Dispatchers : Knows(d), UNCHANGED <<claim, done, pc, pending, replay>>
  PROVE  \A d \in Dispatchers : Knows(d)'
BY DEF Knows, At

LEMMA ReadKnows ==
  ASSUME LocalInv, NEW d \in Dispatchers, ReadSpooled(d)
  PROVE  \A e \in Dispatchers : Knows(e)'
<1>1. TypeOK /\ HolderInv /\ Works(d)
  BY DEF LocalInv, ReadSpooled, At, Works
<1>2. CASE End(d)
  BY <1>1, <1>2, EndKnows
<1>3. CASE Goto(d, "load")
  BY <1>1, <1>3, Goes, StepNames, IdleKnows, OthersKnow
<1> QED  BY <1>2, <1>3 DEF ReadSpooled

LEMMA LoadKnows ==
  ASSUME LocalInv, NEW d \in Dispatchers, LoadOrClaim(d)
  PROVE  \A e \in Dispatchers : Knows(e)'
<1>1. TypeOK /\ HolderInv /\ Works(d) /\ DoneInv
  BY DEF LocalInv, LoadOrClaim, At, Works
<1>2. claim' = claim /\ done' = done
  BY DEF LoadOrClaim, Repair
<1>3. CASE End(d)
  BY <1>1, <1>3, EndKnows
<1>4. CASE /\ Existing = None /\ pending[d] # None
           /\ Goto(d, "claim")
           /\ UNCHANGED <<holder, pending, replay>>
  <2>1. pc'[d] = "claim" /\ \A e \in Dispatchers : e # d => pc'[e] = pc[e]
    BY <1>1, <1>4, Goes, StepNames
  <2>2. claim = None /\ done = None
    BY <1>1, <1>4, ExistingTypes
  <2>3. Knows(d)'
    BY <1>2, <1>4, <2>1, <2>2 DEF Knows, At, Recorded, Answering, Claiming, Closing
  <2> QED  BY <1>1, <2>1, <2>3, OthersKnow
<1>5. CASE /\ Existing # None
           /\ replay' = [replay EXCEPT ![d] = Existing]
           /\ Goto(d, IF pending[d] # None THEN "unstage" ELSE AfterClaim(Existing))
           /\ UNCHANGED <<holder, pending>>
  <2>1. /\ pc'[d] = IF pending[d] # None THEN "unstage" ELSE AfterClaim(Existing)
        /\ \A e \in Dispatchers : e # d => pc'[e] = pc[e]
    BY <1>1, <1>5, Goes, StepNames DEF AfterClaim
  <2>2. replay'[d] = Existing
    BY <1>1, <1>5, Changed DEF TypeOK
  <2>3. Existing.response = None => claim # None /\ done = None
    BY <1>1, <1>5, ExistingTypes DEF DoneInv
  <2>4. Knows(d)'
    BY <1>2, <1>5, <2>1, <2>2, <2>3 DEF Knows, At, AfterClaim, Recorded, Answering, Claiming, Closing
  <2> QED  BY <1>1, <2>1, <2>4, OthersKnow
<1> QED  BY <1>3, <1>4, <1>5 DEF LoadOrClaim

LEMMA LinkKnows ==
  ASSUME LocalInv, NEW d \in Dispatchers, LinkClaim(d) \/ LinkDone(d)
  PROVE  \A e \in Dispatchers : Knows(e)'
<1>1. TypeOK /\ HolderInv /\ Works(d) /\ Knows(d)
  BY KnowsAll DEF LocalInv, LinkClaim, LinkDone, At, Works
<1>2. CASE LinkClaim(d)
  <2>1. pc'[d] = "unlinkclaim" /\ \A e \in Dispatchers : e # d => pc'[e] = pc[e]
    BY <1>1, <1>2, Goes, StepNames DEF LinkClaim
  <2>2. pending[d] \in Payloads /\ claim' = pending[d] /\ done' = None
    BY <1>1, <1>2 DEF LinkClaim, Knows, TypeOK
  <2>3. replay'[d] = [request |-> pending[d], response |-> None] /\ replay'[d] # None
    BY <1>1, <1>2, <2>2, Changed, RecordMakes, NoRecord DEF LinkClaim, TypeOK
  <2>4. Knows(d)'
    BY <2>1, <2>2, <2>3, NoneDistinct DEF Knows, At, Recorded, Answering, Claiming, Closing
  <2> QED  BY <1>1, <2>1, <2>4, OthersKnow
<1>3. CASE LinkDone(d)
  <2>1. pc'[d] = "unlinkdone" /\ \A e \in Dispatchers : e # d => pc'[e] = pc[e]
    BY <1>1, <1>3, Goes, StepNames DEF LinkDone
  <2>2. replay[d] # None /\ replay[d].response # None /\ done' = replay[d] /\ replay' = replay
    BY <1>1, <1>3 DEF LinkDone, Knows, At, Recorded, Answering
  <2>3. Knows(d)'
    BY <2>1, <2>2 DEF Knows, At, Recorded, Answering, Claiming, Closing
  <2> QED  BY <1>1, <2>1, <2>3, OthersKnow
<1> QED  BY <1>2, <1>3

(* Steps that leave the names in the ledger and the records as they are. *)
LEMMA PersistKnows ==
  ASSUME LocalInv, NEW d \in Dispatchers,
         PersistClaim(d) \/ PersistDone(d) \/ SyncDrop(d) \/ Unstage(d)
  PROVE  \A e \in Dispatchers : Knows(e)'
<1>1. TypeOK /\ HolderInv /\ Knows(d)
  BY KnowsAll DEF LocalInv
<1>2. UNCHANGED <<claim, done, replay, pending>>
  BY DEF PersistClaim, PersistDone, SyncDrop, Unlink, SyncDirectory, Unstage, ledger
<1>3. \E step \in Steps : Goto(d, step)
  BY StepNames DEF PersistClaim, PersistDone, SyncDrop, Unlink, SyncDirectory, Unstage, AfterClaim
<1>4. pc' \in [Dispatchers -> Steps] /\ \A e \in Dispatchers : e # d => pc'[e] = pc[e]
  BY <1>1, <1>3, Goes
<1>5. \/ pc[d] \in Claiming /\ pc'[d] \in {"syncclaim", "unstage"}
      \/ pc[d] \in Closing /\ pc'[d] \in {"syncdone", "dropclaim", "write"}
      \/ pc[d] = "unstage" /\ pc'[d] = AfterClaim(replay[d])
  BY <1>1, Goes, StepNames
  DEF PersistClaim, PersistDone, SyncDrop, Unlink, SyncDirectory, Unstage, AfterClaim, At, Claiming, Closing
<1>6. Works(d)
  BY <1>5 DEF Works, Claiming, Closing
<1>7. Knows(d)'
  BY <1>1, <1>2, <1>5 DEF Knows, At, AfterClaim, Recorded, Answering, Claiming, Closing
<1> QED  BY <1>1, <1>4, <1>6, <1>7, OthersKnow

LEMMA RelayRecord ==
  ASSUME TypeOK, NEW d \in Dispatchers, Knows(d), Relay(d)
  PROVE  \E a \in AnswersTo(replay[d].request) :
            /\ Execute(replay[d].request, a)
            /\ a \in Answers /\ a # None
            /\ replay[d] \in Records /\ replay[d].request \in Payloads
            /\ replay'[d] # None /\ replay'[d].response = a
            /\ replay'[d].request = replay[d].request
            /\ \A e \in Dispatchers : e # d => replay'[e] = replay[e]
<1>1. replay[d] \in Records /\ replay[d].request \in Payloads
  BY EntryTypes, RecordFields DEF Knows, Relay, At, Recorded
<1>2. PICK a \in AnswersTo(replay[d].request) :
          Execute(replay[d].request, a) /\ replay' = [replay EXCEPT ![d].response = a]
  BY DEF Relay
<1>3. a \in Answers /\ a # None
  BY <1>1, <1>2, ExecuteTypes, NoneDistinct
<1>4. replay'[d] = [replay[d] EXCEPT !.response = a] /\ \A e \in Dispatchers : e # d => replay'[e] = replay[e]
  BY <1>2 DEF TypeOK
<1>5. replay'[d] # None /\ replay'[d].response = a /\ replay'[d].request = replay[d].request
  BY <1>1, <1>3, <1>4, RecordFields
<1> QED  BY <1>1, <1>2, <1>3, <1>4, <1>5

LEMMA RelayKnows ==
  ASSUME LocalInv, NEW d \in Dispatchers, Relay(d)
  PROVE  \A e \in Dispatchers : Knows(e)'
<1>1. TypeOK /\ HolderInv /\ Knows(d) /\ Works(d)
  BY KnowsAll DEF LocalInv, Relay, At, Works
<1>2. pc'[d] = "done" /\ \A e \in Dispatchers : e # d => pc'[e] = pc[e]
  BY <1>1, Goes, StepNames DEF Relay
<1>3. replay'[d] # None /\ replay'[d].response # None
  BY <1>1, RelayRecord
<1>4. claim' = claim /\ done' = done /\ claim # None /\ done = None
  BY <1>1 DEF Relay, Knows, At, ledger
<1>5. Knows(d)'
  BY <1>2, <1>3, <1>4 DEF Knows, At, Recorded, Answering, Claiming, Closing
<1> QED  BY <1>1, <1>2, <1>5, OthersKnow

LEMMA CloseKnows ==
  ASSUME LocalInv, NEW d \in Dispatchers, DropClaim(d) \/ WriteBegins(d) \/ WriteEnds(d)
  PROVE  \A e \in Dispatchers : Knows(e)'
<1>1. TypeOK /\ HolderInv /\ Knows(d) /\ Works(d)
  BY KnowsAll DEF LocalInv, DropClaim, WriteBegins, WriteEnds, At, Works
<1>2. CASE End(d)
  BY <1>1, <1>2, EndKnows
<1>3. CASE DropClaim(d)
  <2>1. pc'[d] = "syncdrop" /\ \A e \in Dispatchers : e # d => pc'[e] = pc[e]
    BY <1>1, <1>3, Goes, StepNames DEF DropClaim
  <2>2. UNCHANGED <<done, replay>> /\ pc[d] = "dropclaim"
    BY <1>3 DEF DropClaim, At
  <2>3. Knows(d)'
    BY <1>1, <2>1, <2>2 DEF Knows, At, Recorded, Answering, Claiming, Closing
  <2> QED  BY <1>1, <2>1, <2>3, OthersKnow
<1>4. CASE ~ End(d) /\ (WriteBegins(d) \/ WriteEnds(d))
  <2>1. /\ pc[d] \in {"write", "stream"} /\ replay' = replay
        /\ Goto(d, "stream") \/ Goto(d, "clean")
    BY <1>4 DEF WriteBegins, WriteEnds, At
  <2>2. pc'[d] \in {"stream", "clean"} /\ \A e \in Dispatchers : e # d => pc'[e] = pc[e]
    BY <1>1, <2>1, Goes, StepNames
  <2>3. Knows(d)'
    BY <1>1, <2>1, <2>2 DEF Knows, At, Recorded, Answering, Claiming, Closing
  <2> QED  BY <1>1, <2>2, <2>3, OthersKnow
<1> QED  BY <1>2, <1>3, <1>4

LEMMA KnowsStep == ASSUME LocalInv, [Next]_vars PROVE ReplayInv' /\ StepInv'
<1>1. TypeOK /\ HolderInv /\ \A d \in Dispatchers : Knows(d)
  BY KnowsAll DEF LocalInv
<1> SUFFICES \A d \in Dispatchers : Knows(d)'
  BY KnowsNext
<1>2. ASSUME NEW p \in Payloads, Submit(p) PROVE \A d \in Dispatchers : Knows(d)'
  BY <1>1, <1>2, SameKnow DEF Submit, ledger
<1>3. CASE OrphanWrites \/ OrphanKilled \/ UNCHANGED vars
  BY <1>1, <1>3, SameKnow DEF OrphanWrites, OrphanKilled, vars, ledger
<1>4. ASSUME NEW d \in Dispatchers, Begin(d) \/ AcquireAttempt(d) PROVE \A e \in Dispatchers : Knows(e)'
  <2>1. pc'[d] \in {"lock", "read"} /\ \A e \in Dispatchers : e # d => pc'[e] = pc[e]
    BY <1>1, <1>4, Goes, StepNames DEF Begin, AcquireAttempt
  <2>2. UNCHANGED <<claim, done, pending, replay>>
    BY <1>4 DEF Begin, AcquireAttempt, ledger
  <2>3. ASSUME NEW e \in Dispatchers, e # d PROVE Knows(e)'
    BY <1>1, <2>1, <2>2, <2>3 DEF Knows, At
  <2>4. Knows(d)'
    BY <2>1, IdleKnows
  <2> QED  BY <2>3, <2>4
<1>5. ASSUME NEW d \in Dispatchers, Clean(d) \/ RelayLost(d) \/ Stop(d) PROVE \A e \in Dispatchers : Knows(e)'
  BY <1>1, <1>5, EndKnows DEF Clean, RelayLost, Stop, At, Works
<1>6. CASE PowerLoss
  BY <1>6, IdleKnows DEF PowerLoss
<1>7. ASSUME NEW d \in Dispatchers, Step(d) PROVE \A e \in Dispatchers : Knows(e)'
  BY <1>4, <1>5, <1>7, ReadKnows, LoadKnows, LinkKnows, PersistKnows, RelayKnows, CloseKnows DEF Step
<1> QED  BY <1>2, <1>3, <1>5, <1>6, <1>7 DEF Next

LEMMA DoneStep == ASSUME LocalInv, [Next]_vars PROVE DoneInv'
<1>1. DoneInv
  BY DEF LocalInv
<1> USE <1>1 DEF DoneInv
<1>2. ASSUME done' = done, synced' = synced \/ synced' = OnDisk PROVE DoneInv'
  BY <1>2 DEF OnDisk
<1>3. ASSUME UNCHANGED ledger PROVE DoneInv'
  BY <1>2, <1>3 DEF ledger
<1>4. ASSUME NEW d \in Dispatchers, LinkDone(d) PROVE DoneInv'
  <2>1. replay[d].response # None
    BY <1>4, KnowsAll DEF LocalInv, LinkDone, Knows, At, Answering
  <2> QED  BY <1>4, <2>1 DEF LinkDone
<1>5. CASE PowerLoss
  BY <1>5 DEF PowerLoss, OnDisk
<1>6. ASSUME NEW d \in Dispatchers, LoadOrClaim(d) \/ LinkClaim(d) \/ DropClaim(d) PROVE DoneInv'
  BY <1>2, <1>6 DEF LoadOrClaim, Repair, LinkClaim, DropClaim
<1>7. ASSUME NEW d \in Dispatchers, PersistClaim(d) \/ PersistDone(d) \/ SyncDrop(d) PROVE DoneInv'
  BY <1>2, <1>7 DEF PersistClaim, PersistDone, SyncDrop, Unlink, SyncDirectory
<1>8. ASSUME NEW d \in Dispatchers, Begin(d) \/ AcquireAttempt(d) \/ ReadSpooled(d) \/ Unstage(d) \/ Relay(d)
      PROVE  DoneInv'
  BY <1>3, <1>8 DEF Begin, AcquireAttempt, ReadSpooled, Unstage, Relay
<1>9. ASSUME NEW d \in Dispatchers, WriteBegins(d) \/ WriteEnds(d) \/ Clean(d) \/ RelayLost(d) \/ Stop(d)
      PROVE  DoneInv'
  BY <1>3, <1>9 DEF WriteBegins, WriteEnds, Clean, RelayLost, Stop
<1>10. ASSUME NEW p \in Payloads, Submit(p) PROVE DoneInv'
  BY <1>3, <1>10 DEF Submit
<1>11. CASE OrphanWrites \/ OrphanKilled \/ UNCHANGED vars
  BY <1>3, <1>11 DEF OrphanWrites, OrphanKilled, vars
<1> QED
  BY <1>4, <1>5, <1>6, <1>7, <1>8, <1>9, <1>10, <1>11 DEF Next, Step

LEMMA LocalStep == ASSUME LocalInv, [Next]_vars PROVE LocalInv'
BY TypeStep, HolderStep, KnowsStep, DoneStep DEF LocalInv

-----------------------------------------------------------------------------
(* Without exact replay: a request is executed under a claim that no power    *)
(* loss takes away, and while there is a record no other is executed.         *)
Never == \A p \in Payloads : executed[p] = 0

ClaimKept == claim # None /\ synced.claim # None
DoneKept == done # None /\ synced.done # None

OnceAt(d) ==
    /\ pc[d] \in Claiming \cup {"claim", "unstage", "relay"} => Never
    /\ pc[d] \in {"unstage", "relay", "done", "unlinkdone", "syncdone"} => ClaimKept
    /\ pc[d] \in {"dropclaim", "syncdrop"} => DoneKept

OnceInv ==
    ~Exact => /\ ~Never => ClaimKept \/ DoneKept
              /\ \A d \in Dispatchers : OnceAt(d)

LEMMA IdleOnce ==
  ASSUME NEW d \in Dispatchers, pc'[d] \in {"idle", "lock", "read", "load", "write", "stream"} PROVE OnceAt(d)'
BY DEF OnceAt, Claiming

LEMMA OthersOnce ==
  ASSUME HolderInv, NEW d \in Dispatchers, Works(d), OnceAt(d)',
         \A e \in Dispatchers : e # d => pc'[e] = pc[e],
         ~Never' => (ClaimKept \/ DoneKept)'
  PROVE  OnceInv'
<1>1. ASSUME NEW e \in Dispatchers, e # d PROVE OnceAt(e)'
  BY <1>1, Alone, IdleOnce DEF Works
<1> QED  BY <1>1 DEF OnceInv

LEMMA EndOnce ==
  ASSUME TypeOK, HolderInv, NEW d \in Dispatchers, Works(d), End(d),
         ~Never' => (ClaimKept \/ DoneKept)'
  PROVE  OnceInv'
BY Ends, IdleOnce, OthersOnce

(* A record that was on disk is there, whatever is synced. *)
LEMMA SyncKeeps ==
  ASSUME UNCHANGED <<claim, done>>, synced' = synced \/ synced' = OnDisk
  PROVE  (ClaimKept => ClaimKept') /\ (DoneKept => DoneKept')
BY DEF OnDisk, ClaimKept, DoneKept

LEMMA SameOnce ==
  ASSUME LocalInv, OnceInv, UNCHANGED <<policy, claim, done, synced, executed>>,
         \A d \in Dispatchers : pc'[d] = pc[d] \/ pc'[d] \in {"idle", "lock", "read", "load", "write", "stream", "clean"}
  PROVE  OnceInv'
BY DEF OnceInv, OnceAt, Exact, Never, ClaimKept, DoneKept, Claiming

LEMMA LoadOnce ==
  ASSUME LocalInv, OnceInv, NEW d \in Dispatchers, LoadOrClaim(d), ~Exact
  PROVE  OnceInv'
<1>1. TypeOK /\ HolderInv /\ Works(d)
  BY DEF LocalInv, LoadOrClaim, At, Works
<1>2. UNCHANGED <<claim, done, executed>> /\ (synced' = synced \/ synced' = OnDisk)
  BY DEF LoadOrClaim, Repair, endpoint
<1>3. ~Never' => (ClaimKept \/ DoneKept)'
  BY <1>2, SyncKeeps DEF OnceInv, Never
<1>4. CASE End(d)
  BY <1>1, <1>3, <1>4, EndOnce
<1>5. CASE Existing = None /\ Goto(d, "claim")
  <2>1. pc'[d] = "claim" /\ \A e \in Dispatchers : e # d => pc'[e] = pc[e]
    BY <1>1, <1>5, Goes, StepNames
  <2>2. Never'
    BY <1>1, <1>2, <1>5, ExistingTypes DEF OnceInv, Never, ClaimKept, DoneKept
  <2>3. OnceAt(d)'
    BY <2>1, <2>2 DEF OnceAt, Claiming
  <2> QED  BY <1>1, <1>3, <2>1, <2>3, OthersOnce
<1> QED  BY <1>4, <1>5 DEF LoadOrClaim, Replayable

LEMMA LinkOnce ==
  ASSUME LocalInv, OnceInv, NEW d \in Dispatchers, LinkClaim(d) \/ LinkDone(d), ~Exact
  PROVE  OnceInv'
<1>1. TypeOK /\ HolderInv /\ Works(d) /\ Knows(d) /\ OnceAt(d) /\ executed' = executed
  BY KnowsAll DEF LocalInv, LinkClaim, LinkDone, At, Works, OnceInv, endpoint
<1>2. CASE LinkClaim(d)
  <2>1. pc'[d] = "unlinkclaim" /\ \A e \in Dispatchers : e # d => pc'[e] = pc[e]
    BY <1>1, <1>2, Goes, StepNames DEF LinkClaim
  <2>2. Never'
    BY <1>1, <1>2 DEF LinkClaim, At, OnceAt, Never
  <2>3. OnceAt(d)'
    BY <2>1, <2>2 DEF OnceAt, Claiming
  <2> QED  BY <1>1, <2>1, <2>2, <2>3, OthersOnce
<1>3. CASE LinkDone(d)
  <2>1. pc'[d] = "unlinkdone" /\ \A e \in Dispatchers : e # d => pc'[e] = pc[e]
    BY <1>1, <1>3, Goes, StepNames DEF LinkDone
  <2>2. ClaimKept'
    BY <1>1, <1>3 DEF LinkDone, At, OnceAt, ClaimKept
  <2>3. OnceAt(d)'
    BY <2>1, <2>2 DEF OnceAt, Claiming
  <2> QED  BY <1>1, <2>1, <2>2, <2>3, OthersOnce
<1> QED  BY <1>2, <1>3

LEMMA PersistOnce ==
  ASSUME LocalInv, OnceInv, ~Exact, NEW d \in Dispatchers,
         PersistClaim(d) \/ PersistDone(d) \/ SyncDrop(d) \/ Unstage(d)
  PROVE  OnceInv'
<1>1. TypeOK /\ HolderInv /\ Knows(d) /\ OnceAt(d)
  BY KnowsAll DEF LocalInv, OnceInv
<1>2. UNCHANGED <<claim, done, executed>> /\ (synced' = synced \/ synced' = OnDisk)
  BY DEF PersistClaim, PersistDone, SyncDrop, Unlink, SyncDirectory, Unstage, ledger, endpoint
<1>3. \E step \in Steps : Goto(d, step)
  BY StepNames DEF PersistClaim, PersistDone, SyncDrop, Unlink, SyncDirectory, Unstage, AfterClaim
<1>4. pc' \in [Dispatchers -> Steps] /\ \A e \in Dispatchers : e # d => pc'[e] = pc[e]
  BY <1>1, <1>3, Goes
<1>5. \/ pc[d] = "unlinkclaim" /\ pc'[d] = "syncclaim"
      \/ pc[d] = "syncclaim" /\ pc'[d] = "unstage" /\ synced' = OnDisk
      \/ pc[d] = "unlinkdone" /\ pc'[d] = "syncdone"
      \/ pc[d] = "syncdone" /\ pc'[d] = "dropclaim" /\ synced' = OnDisk
      \/ pc[d] = "syncdrop" /\ pc'[d] = "write"
      \/ pc[d] = "unstage" /\ pc'[d] \in {"relay", "write"}
  BY <1>1, Goes, StepNames
  DEF PersistClaim, PersistDone, SyncDrop, Unlink, SyncDirectory, Unstage, AfterClaim, At
<1>6. Works(d)
  BY <1>5 DEF Works
<1>7. (ClaimKept => ClaimKept') /\ (DoneKept => DoneKept') /\ (Never => Never')
  BY <1>2, SyncKeeps DEF Never
<1>8. synced' = OnDisk /\ claim # None => ClaimKept'
  BY <1>2 DEF OnDisk, ClaimKept
<1>9. synced' = OnDisk /\ done # None => DoneKept'
  BY <1>2 DEF OnDisk, DoneKept
<1>10. OnceAt(d)'
  BY <1>1, <1>5, <1>7, <1>8, <1>9 DEF OnceAt, Knows, Claiming, Closing
<1>11. ~Never' => (ClaimKept \/ DoneKept)'
  BY <1>2, <1>7 DEF OnceInv, Never
<1> QED  BY <1>1, <1>4, <1>6, <1>10, <1>11, OthersOnce

LEMMA CloseOnce ==
  ASSUME LocalInv, OnceInv, ~Exact, NEW d \in Dispatchers, DropClaim(d)
  PROVE  OnceInv'
<1>1. TypeOK /\ HolderInv /\ OnceAt(d) /\ Works(d)
  BY DEF LocalInv, OnceInv, DropClaim, At, Works
<1>2. pc'[d] = "syncdrop" /\ \A e \in Dispatchers : e # d => pc'[e] = pc[e]
  BY <1>1, Goes, StepNames DEF DropClaim
<1>3. DoneKept'
  BY <1>1 DEF DropClaim, At, OnceAt, DoneKept
<1>4. OnceAt(d)'
  BY <1>2, <1>3 DEF OnceAt, Claiming
<1> QED  BY <1>1, <1>2, <1>3, <1>4, OthersOnce

(* The one execution. *)
LEMMA ExecuteOnce ==
  ASSUME TypeOK, Never, NEW p \in Payloads, NEW a, Execute(p, a)
  PROVE  executed'[p] = 1 /\ \A q \in Payloads : q # p => executed'[q] = 0
BY MaxLossesIsNat DEF TypeOK, Never, Execute

LEMMA OnceNow ==
  ASSUME TypeOK, Never, NEW p \in Payloads, NEW a, Execute(p, a) \/ UNCHANGED executed
  PROVE  AtMostOnce'
<1>1. CASE Execute(p, a)
  BY <1>1, ExecuteOnce DEF AtMostOnce
<1>2. CASE UNCHANGED executed
  BY <1>2 DEF AtMostOnce, Never
<1> QED  BY <1>1, <1>2

LEMMA RelayOnce ==
  ASSUME LocalInv, OnceInv, ~Exact, NEW d \in Dispatchers, Relay(d) \/ RelayLost(d)
  PROVE  OnceInv' /\ AtMostOnce'
<1>1. TypeOK /\ HolderInv /\ Works(d) /\ Knows(d) /\ Never /\ ClaimKept
  BY KnowsAll DEF LocalInv, OnceInv, OnceAt, Relay, RelayLost, At, Works
<1>2. replay[d].request \in Payloads
  BY <1>1, EntryTypes, RecordFields DEF Knows, Relay, RelayLost, At, Recorded
<1>3. ClaimKept'
  BY <1>1 DEF Relay, RelayLost, ledger, ClaimKept
<1>4. CASE Relay(d)
  <2>1. pc'[d] = "done" /\ \A e \in Dispatchers : e # d => pc'[e] = pc[e]
    BY <1>1, <1>4, Goes, StepNames DEF Relay
  <2>2. OnceAt(d)'
    BY <1>3, <2>1 DEF OnceAt, Claiming
  <2>3. AtMostOnce'
    BY <1>1, <1>2, <1>4, OnceNow DEF Relay
  <2> QED  BY <1>1, <1>3, <2>1, <2>2, <2>3, OthersOnce
<1>5. CASE RelayLost(d)
  <2>1. OnceInv'
    BY <1>1, <1>3, <1>5, EndOnce DEF RelayLost
  <2>2. AtMostOnce'
    BY <1>1, <1>2, <1>5, OnceNow DEF RelayLost
  <2> QED  BY <2>1, <2>2
<1> QED  BY <1>4, <1>5

LEMMA PowerOnce == ASSUME OnceInv, ~Exact, PowerLoss PROVE OnceInv'
<1>1. executed' = executed /\ synced' = OnDisk /\ \A d \in Dispatchers : pc'[d] = "idle"
  BY DEF PowerLoss, endpoint
<1>2. (ClaimKept => ClaimKept') /\ (DoneKept => DoneKept')
  BY DEF PowerLoss, OnDisk, ClaimKept, DoneKept
<1>3. \A d \in Dispatchers : OnceAt(d)'
  BY <1>1, IdleOnce
<1> QED  BY <1>1, <1>2, <1>3 DEF OnceInv, Never

LEMMA OnceStep == ASSUME LocalInv, OnceInv, AtMostOnce, [Next]_vars PROVE OnceInv' /\ AtMostOnce'
<1>1. TypeOK
  BY DEF LocalInv
<1>2. policy' = policy
  <2>1. ASSUME NEW d \in Dispatchers, Step(d) PROVE policy' = policy
    BY <2>1 DEF Step, Begin, AcquireAttempt, ReadSpooled, LoadOrClaim, LinkClaim, PersistClaim, Unstage,
                Relay, LinkDone, PersistDone, DropClaim, SyncDrop, WriteBegins, WriteEnds, Clean, Unlink,
                SyncDirectory
  <2> QED
    BY <2>1 DEF Next, Submit, RelayLost, Stop, OrphanWrites, OrphanKilled, PowerLoss, vars
<1>3. CASE Exact
  BY <1>2, <1>3 DEF OnceInv, AtMostOnce, Exact
<1>4. CASE ~Exact
  <2>1. ASSUME executed' = executed PROVE AtMostOnce'
    BY <1>2, <2>1 DEF AtMostOnce, Exact
  <2>2. ASSUME UNCHANGED <<ledger, endpoint>>,
               \A d \in Dispatchers : pc'[d] = pc[d] \/ pc'[d] \in {"idle", "lock", "read", "load", "write", "stream", "clean"}
        PROVE  OnceInv' /\ AtMostOnce'
    BY <1>2, <2>1, <2>2, SameOnce DEF ledger, endpoint
  <2>3. ASSUME NEW p \in Payloads, Submit(p) PROVE OnceInv' /\ AtMostOnce'
    BY <2>2, <2>3 DEF Submit
  <2>4. CASE OrphanWrites \/ OrphanKilled \/ UNCHANGED vars
    BY <2>2, <2>4 DEF OrphanWrites, OrphanKilled, vars
  <2>5. ASSUME NEW d \in Dispatchers, End(d), UNCHANGED <<ledger, endpoint>> PROVE OnceInv' /\ AtMostOnce'
    BY <1>1, <2>2, <2>5, Ends
  <2>6. ASSUME NEW d \in Dispatchers, NEW step \in {"lock", "read", "load", "write", "stream", "clean"},
               Goto(d, step), UNCHANGED <<ledger, endpoint>>
        PROVE  OnceInv' /\ AtMostOnce'
    BY <1>1, <2>2, <2>6, Goes, StepNames
  <2>7. ASSUME NEW d \in Dispatchers, Begin(d) \/ AcquireAttempt(d) \/ ReadSpooled(d) PROVE OnceInv' /\ AtMostOnce'
    BY <2>5, <2>6, <2>7 DEF Begin, AcquireAttempt, ReadSpooled
  <2>8. ASSUME NEW d \in Dispatchers, WriteBegins(d) \/ WriteEnds(d) \/ Clean(d) \/ Stop(d)
        PROVE  OnceInv' /\ AtMostOnce'
    BY <2>5, <2>6, <2>8 DEF WriteBegins, WriteEnds, Clean, Stop
  <2>9. ASSUME NEW d \in Dispatchers, LoadOrClaim(d) \/ LinkClaim(d) \/ LinkDone(d)
        PROVE  OnceInv' /\ AtMostOnce'
    BY <1>4, <2>1, <2>9, LoadOnce, LinkOnce DEF LoadOrClaim, LinkClaim, LinkDone, endpoint
  <2>10. ASSUME NEW d \in Dispatchers, PersistClaim(d) \/ PersistDone(d) \/ SyncDrop(d) \/ Unstage(d)
         PROVE  OnceInv' /\ AtMostOnce'
    BY <1>4, <2>1, <2>10, PersistOnce
    DEF PersistClaim, PersistDone, SyncDrop, Unlink, SyncDirectory, Unstage, endpoint
  <2>11. ASSUME NEW d \in Dispatchers, DropClaim(d) PROVE OnceInv' /\ AtMostOnce'
    BY <1>4, <2>1, <2>11, CloseOnce DEF DropClaim, endpoint
  <2>12. CASE PowerLoss
    BY <1>4, <2>1, <2>12, PowerOnce DEF PowerLoss, endpoint
  <2> QED
    BY <1>4, <2>3, <2>4, <2>7, <2>8, <2>9, <2>10, <2>11, <2>12, RelayOnce DEF Next, Step
<1> QED  BY <1>3, <1>4

-----------------------------------------------------------------------------
(* Everything under the request id is about one payload.                      *)
About(p) ==
    /\ claim \in {None, p}
    /\ done = None \/ done.request = p
    /\ synced.claim \in {None, p}
    /\ synced.done = None \/ synced.done.request = p
    /\ \A d \in Dispatchers : replay[d] = None \/ replay[d].request = p
    /\ RecordsLast => \A q \in Payloads : q # p => executed[q] = 0

SubjectInv == \E p \in Payloads \cup {None} : About(p)

(* Without a record there has been none, except under exact replay one that   *)
(* a power loss took back.                                                    *)
FreshInv ==
    claim = None /\ done = None
        => /\ synced.claim = None /\ synced.done = None
           /\ \A d \in Dispatchers : replay[d] = None
           /\ RecordsLast => Never

LEMMA EndAbout ==
  ASSUME TypeOK, NEW d \in Dispatchers, End(d), UNCHANGED <<policy, outages, ledger, executed>>,
         SubjectInv, FreshInv
  PROVE  SubjectInv' /\ FreshInv'
<1>1. \A e \in Dispatchers : replay'[e] = replay[e] \/ replay'[e] = None
  BY Ends
<1>2. FreshInv'
  BY <1>1 DEF FreshInv, RecordsLast, Exact, Never, ledger
<1>3. PICK p \in Payloads \cup {None} : About(p)
  BY DEF SubjectInv
<1>4. About(p)'
  BY <1>1, <1>3 DEF About, RecordsLast, Exact, ledger
<1> QED  BY <1>2, <1>4 DEF SubjectInv

LEMMA SameAbout ==
  ASSUME UNCHANGED <<policy, outages, claim, done, replay, executed>>, synced' = synced \/ synced' = OnDisk,
         SubjectInv, FreshInv
  PROVE  SubjectInv' /\ FreshInv'
<1>1. FreshInv'
  BY DEF FreshInv, RecordsLast, Exact, Never, OnDisk
<1>2. PICK p \in Payloads \cup {None} : About(p)
  BY DEF SubjectInv
<1>3. About(p)'
  BY <1>2 DEF About, RecordsLast, Exact, OnDisk
<1> QED  BY <1>1, <1>3 DEF SubjectInv

LEMMA LoadAbout ==
  ASSUME TypeOK, NEW d \in Dispatchers, LoadOrClaim(d), SubjectInv, FreshInv
  PROVE  SubjectInv' /\ FreshInv'
<1>1. UNCHANGED <<policy, outages, claim, done, executed>> /\ (synced' = synced \/ synced' = OnDisk)
  BY DEF LoadOrClaim, Repair, endpoint
<1>2. \A e \in Dispatchers : replay'[e] \in {replay[e], None} \/ (Existing # None /\ replay'[e] = Existing)
  <2>1. CASE End(d)
    BY <2>1, Ends
  <2>2. CASE Existing # None /\ replay' = [replay EXCEPT ![d] = Existing]
    BY <2>2, Changed DEF TypeOK
  <2>3. CASE replay' = replay
    BY <2>3
  <2> QED  BY <2>1, <2>2, <2>3 DEF LoadOrClaim
<1>3. FreshInv'
  BY <1>1, <1>2, ExistingTypes DEF FreshInv, RecordsLast, Exact, Never, OnDisk
<1>4. PICK p \in Payloads \cup {None} : About(p)
  BY DEF SubjectInv
<1>5. Existing # None => Existing.request = p
  BY <1>4, ExistingTypes DEF About
<1>6. About(p)'
  BY <1>1, <1>2, <1>4, <1>5 DEF About, RecordsLast, Exact, OnDisk
<1> QED  BY <1>3, <1>6 DEF SubjectInv

LEMMA LinkAbout ==
  ASSUME TypeOK, NEW d \in Dispatchers, Knows(d), LinkClaim(d) \/ LinkDone(d), SubjectInv, FreshInv
  PROVE  SubjectInv' /\ FreshInv'
<1>1. UNCHANGED <<policy, outages, synced, executed>>
  BY DEF LinkClaim, LinkDone, endpoint
<1>2. CASE LinkClaim(d)
  <2>1. PICK p \in Payloads : p = pending[d] /\ claim = None /\ done = None /\ claim' = p /\ done' = None
    BY <1>2 DEF LinkClaim, Knows, TypeOK
  <2>2. replay'[d].request = p /\ \A e \in Dispatchers : e # d => replay'[e] = None
    BY <1>2, <2>1, Changed, RecordMakes DEF LinkClaim, TypeOK, FreshInv
  <2>3. About(p)'
    BY <1>1, <2>1, <2>2 DEF About, FreshInv, RecordsLast, Exact, Never
  <2>4. FreshInv'
    BY <2>1, NoneDistinct DEF FreshInv
  <2> QED  BY <2>3, <2>4 DEF SubjectInv
<1>3. CASE LinkDone(d)
  <2>1. done' = replay[d] /\ replay[d] # None /\ UNCHANGED <<claim, replay>>
    BY <1>3 DEF LinkDone, Knows, At, Recorded
  <2>2. PICK p \in Payloads \cup {None} : About(p)
    BY DEF SubjectInv
  <2>3. About(p)'
    BY <1>1, <2>1, <2>2 DEF About, RecordsLast, Exact
  <2>4. FreshInv'
    BY <2>1 DEF FreshInv
  <2> QED  BY <2>3, <2>4 DEF SubjectInv
<1> QED  BY <1>2, <1>3

LEMMA RelayAbout ==
  ASSUME TypeOK, NEW d \in Dispatchers, Knows(d), Relay(d) \/ RelayLost(d), SubjectInv, FreshInv
  PROVE  SubjectInv' /\ FreshInv'
<1>1. /\ UNCHANGED <<policy, outages, claim, done, synced>>
      /\ replay[d] # None /\ replay[d].request \in Payloads
  BY EntryTypes, RecordFields DEF Relay, RelayLost, ledger, Knows, At, Recorded
<1>2. claim # None
  BY DEF Knows, Relay, RelayLost, At
<1>3. FreshInv'
  BY <1>1, <1>2 DEF FreshInv
<1>4. PICK p \in Payloads \cup {None} : About(p)
  BY DEF SubjectInv
<1>5. replay[d].request = p
  BY <1>1, <1>4 DEF About
<1>6. \A q \in Payloads : q # p => executed'[q] = executed[q]
  BY <1>1, <1>5 DEF Relay, RelayLost, Execute, TypeOK
<1>7. \A e \in Dispatchers : \/ replay'[e] \in {None, replay[e]}
                             \/ replay[e] # None /\ replay'[e].request = replay[e].request
  BY <1>1, RelayRecord, Ends DEF RelayLost
<1>8. About(p)'
  BY <1>1, <1>4, <1>6, <1>7 DEF About, RecordsLast, Exact
<1> QED  BY <1>3, <1>8 DEF SubjectInv

LEMMA PowerAbout == ASSUME TypeOK, OnceInv, PowerLoss, SubjectInv, FreshInv PROVE SubjectInv' /\ FreshInv'
<1>1. /\ claim' \in {claim, synced.claim} /\ done' \in {done, synced.done} /\ synced' = OnDisk
      /\ \A d \in Dispatchers : replay'[d] = None
      /\ UNCHANGED <<policy, executed>>
  BY DEF PowerLoss, endpoint
<1>2. RecordsLast' => ~Exact
  <2>1. outages' \in Nat /\ outages' # 0
    BY SMT DEF PowerLoss, TypeOK
  <2> QED  BY <1>1, <2>1 DEF RecordsLast, Exact
<1>3. synced'.claim = claim' /\ synced'.done = done'
  BY <1>1 DEF OnDisk
<1>4. FreshInv'
  BY <1>1, <1>2, <1>3 DEF FreshInv, OnceInv, ClaimKept, DoneKept, Never
<1>5. PICK p \in Payloads \cup {None} : About(p)
  BY DEF SubjectInv
<1>6. About(p)'
  BY <1>1, <1>2, <1>3, <1>5 DEF About, RecordsLast
<1> QED  BY <1>4, <1>6 DEF SubjectInv

LEMMA AboutStep == ASSUME LocalInv, OnceInv, SubjectInv, FreshInv, [Next]_vars PROVE SubjectInv' /\ FreshInv'
<1>1. TypeOK /\ \A d \in Dispatchers : Knows(d)
  BY KnowsAll DEF LocalInv
<1>2. ASSUME NEW p \in Payloads, Submit(p) PROVE SubjectInv' /\ FreshInv'
  BY <1>2, SameAbout DEF Submit, ledger, endpoint
<1>3. CASE OrphanWrites \/ OrphanKilled \/ UNCHANGED vars
  BY <1>3, SameAbout DEF OrphanWrites, OrphanKilled, vars, ledger, endpoint
<1>4. ASSUME NEW d \in Dispatchers, Begin(d) \/ AcquireAttempt(d) \/ Unstage(d) PROVE SubjectInv' /\ FreshInv'
  BY <1>4, SameAbout DEF Begin, AcquireAttempt, Unstage, ledger, endpoint
<1>5. ASSUME NEW d \in Dispatchers, PersistClaim(d) \/ PersistDone(d) \/ SyncDrop(d)
      PROVE  SubjectInv' /\ FreshInv'
  BY <1>5, SameAbout DEF PersistClaim, PersistDone, SyncDrop, Unlink, SyncDirectory, endpoint
<1>6. ASSUME NEW d \in Dispatchers, ReadSpooled(d) \/ WriteBegins(d) \/ WriteEnds(d) \/ Clean(d) \/ Stop(d)
      PROVE  SubjectInv' /\ FreshInv'
  BY <1>1, <1>6, SameAbout, EndAbout
  DEF ReadSpooled, WriteBegins, WriteEnds, Clean, Stop, ledger, endpoint
<1>7. ASSUME NEW d \in Dispatchers, DropClaim(d) PROVE SubjectInv' /\ FreshInv'
  <2>1. UNCHANGED <<policy, outages, done, synced, replay, executed>> /\ claim' = None /\ done # None
    BY <1>1, <1>7 DEF DropClaim, Knows, At, Closing, endpoint
  <2>2. PICK p \in Payloads \cup {None} : About(p)
    BY DEF SubjectInv
  <2>3. About(p)'
    BY <2>1, <2>2 DEF About, RecordsLast, Exact
  <2>4. FreshInv'
    BY <2>1 DEF FreshInv
  <2> QED  BY <2>3, <2>4 DEF SubjectInv
<1> QED
  BY <1>1, <1>2, <1>3, <1>4, <1>5, <1>6, <1>7, LoadAbout, LinkAbout, RelayAbout, PowerAbout DEF Next, Step

-----------------------------------------------------------------------------
(* And there is one answer.                                                   *)
Answered(a) ==
    /\ returned \subseteq {a} \ {None}
    /\ response \in {None, Torn, a} /\ temporary \in {None, Torn, a}
    /\ done = None \/ done.response = a
    /\ synced.done = None \/ synced.done.response = a
    /\ \A d \in Dispatchers : replay[d] = None \/ replay[d].response \in {None, a}
    /\ Exact => \A p \in Payloads : memory[p] \in {None, a}

AnswerInv == RecordsLast => \E a \in Answers \cup {None} : Answered(a)

(* Nothing is answered before it is executed, and an endpoint under exact     *)
(* replay remembers what it has executed.                                     *)
SilentInv ==
    /\ Never => Answered(None)
    /\ Exact => \A p \in Payloads : executed[p] # 0 => memory[p] # None

(* What keeps an answer, whichever it is. *)
LEMMA AnswerKept ==
  ASSUME UNCHANGED <<policy, executed, memory>>, RecordsLast' => RecordsLast,
         \A a \in Answers \cup {None} : Answered(a) => Answered(a)',
         AnswerInv, SilentInv
  PROVE  AnswerInv' /\ SilentInv'
<1>1. ASSUME Never' PROVE Never
  BY <1>1 DEF Never
<1>2. SilentInv'
  BY <1>1 DEF SilentInv, Exact, Never
<1> QED  BY <1>2 DEF AnswerInv

LEMMA SameAnswer ==
  ASSUME UNCHANGED <<policy, outages, returned, response, temporary, done, executed, memory>>,
         synced' = synced \/ synced' = OnDisk,
         \A d \in Dispatchers : replay'[d] \in {None, replay[d]},
         AnswerInv, SilentInv
  PROVE  AnswerInv' /\ SilentInv'
<1>1. ASSUME NEW a \in Answers \cup {None}, Answered(a) PROVE Answered(a)'
  BY <1>1 DEF Answered, Exact, OnDisk
<1> QED  BY <1>1, AnswerKept DEF RecordsLast, Exact

LEMMA LoadAnswer ==
  ASSUME TypeOK, NEW d \in Dispatchers, LoadOrClaim(d) \/ LinkClaim(d), Knows(d), AnswerInv, SilentInv
  PROVE  AnswerInv' /\ SilentInv'
<1>1. /\ UNCHANGED <<policy, outages, returned, response, temporary, done, endpoint>>
      /\ synced' = synced \/ synced' = OnDisk
  BY DEF LoadOrClaim, Repair, LinkClaim, spool
<1>2. \A e \in Dispatchers : \/ replay'[e] \in {None, replay[e]}
                             \/ replay'[e].response = None
                             \/ done # None /\ replay'[e] = done
  <2>1. CASE End(d)
    BY <2>1, Ends
  <2>2. CASE Existing # None /\ replay' = [replay EXCEPT ![d] = Existing]
    BY <2>2, Changed, ExistingTypes DEF TypeOK
  <2>3. CASE LinkClaim(d)
    BY <2>3, Changed, RecordMakes DEF LinkClaim, TypeOK, Knows
  <2>4. CASE replay' = replay
    BY <2>4
  <2> QED  BY <2>1, <2>2, <2>3, <2>4 DEF LoadOrClaim
<1>3. ASSUME NEW a \in Answers \cup {None}, Answered(a) PROVE Answered(a)'
  BY <1>1, <1>2, <1>3 DEF Answered, Exact, OnDisk, endpoint
<1> QED  BY <1>1, <1>3, AnswerKept DEF RecordsLast, Exact, endpoint

LEMMA DoneAnswer ==
  ASSUME TypeOK, NEW d \in Dispatchers, LinkDone(d), Knows(d), AnswerInv, SilentInv
  PROVE  AnswerInv' /\ SilentInv'
<1>1. /\ UNCHANGED <<policy, outages, returned, response, temporary, synced, replay, endpoint>>
      /\ done' = replay[d] /\ replay[d] # None /\ replay[d].response # None
  BY DEF LinkDone, spool, Knows, At, Recorded, Answering
<1>2. ASSUME NEW a \in Answers \cup {None}, Answered(a) PROVE Answered(a)'
  BY <1>1, <1>2 DEF Answered, Exact, endpoint
<1> QED  BY <1>1, <1>2, AnswerKept DEF RecordsLast, Exact, endpoint

LEMMA WriteAnswer ==
  ASSUME TypeOK, NEW d \in Dispatchers, WriteBegins(d) \/ WriteEnds(d) \/ Clean(d), Knows(d),
         AnswerInv, SilentInv
  PROVE  AnswerInv' /\ SilentInv'
<1>1. /\ UNCHANGED <<policy, outages, done, synced, endpoint>>
      /\ replay[d] # None /\ replay[d].response # None
      /\ \A e \in Dispatchers : replay'[e] \in {None, replay[e]}
  BY Ends DEF WriteBegins, WriteEnds, Clean, ledger, Knows, At, Recorded, Answering
<1>2. ASSUME NEW a \in Answers \cup {None}, Answered(a) PROVE Answered(a)'
  <2>1. replay[d].response = a
    BY <1>1, <1>2 DEF Answered
  <2>2. /\ returned' \subseteq {a} \ {None}
        /\ response' \in {None, Torn, a} /\ temporary' \in {None, Torn, a}
    <3>1. CASE WriteBegins(d)
      BY <1>2, <3>1 DEF Answered, WriteBegins
    <3>2. CASE WriteEnds(d)
      BY <1>2, <2>1, <3>2 DEF Answered, WriteEnds, Commit
    <3>3. CASE Clean(d)
      BY <1>1, <1>2, <2>1, <3>3 DEF Answered, Clean
    <3> QED  BY <3>1, <3>2, <3>3
  <2> QED  BY <1>1, <1>2, <2>2 DEF Answered, Exact, endpoint
<1> QED  BY <1>1, <1>2, AnswerKept DEF RecordsLast, Exact, endpoint

LEMMA OrphanAnswer ==
  ASSUME OrphanWrites, AnswerInv, SilentInv
  PROVE  AnswerInv' /\ SilentInv'
<1>1. ASSUME NEW a \in Answers \cup {None}, Answered(a) PROVE Answered(a)'
  <2>1. response' \in {None, Torn, a} /\ temporary' \in {None, Torn, a}
    BY <1>1 DEF Answered, OrphanWrites, Commit
  <2> QED  BY <1>1, <2>1 DEF Answered, OrphanWrites, Exact, ledger, endpoint
<1> QED  BY <1>1, AnswerKept DEF OrphanWrites, RecordsLast, Exact, endpoint

LEMMA PowerAnswer == ASSUME TypeOK, PowerLoss, AnswerInv, SilentInv PROVE AnswerInv' /\ SilentInv'
<1>1. /\ UNCHANGED <<policy, response, temporary, returned, endpoint>>
      /\ done' \in {done, synced.done} /\ synced' = OnDisk
      /\ \A d \in Dispatchers : replay'[d] = None
  BY DEF PowerLoss, spool
<1>2. RecordsLast' => RecordsLast
  <2>1. outages' \in Nat /\ outages' # 0
    BY SMT DEF PowerLoss, TypeOK
  <2> QED  BY <1>1, <2>1 DEF RecordsLast, Exact
<1>3. ASSUME NEW a \in Answers \cup {None}, Answered(a) PROVE Answered(a)'
  BY <1>1, <1>3 DEF Answered, Exact, OnDisk, endpoint
<1> QED  BY <1>1, <1>2, <1>3, AnswerKept DEF endpoint

(* The endpoint executes a request that nobody has an answer to, or answers   *)
(* as before.                                                                 *)
LEMMA ExecuteAnswer ==
  ASSUME TypeOK, OnceInv, SubjectInv, AnswerInv, SilentInv, NEW d \in Dispatchers, Knows(d),
         At(d, "relay"), NEW a \in AnswersTo(replay[d].request), RecordsLast
  PROVE  IF Exact THEN \E b \in Answers : /\ b = a
                                          /\ Answered(None) \/ Answered(b)
                  ELSE Answered(None)
<1>1. replay[d] # None /\ replay[d].request \in Payloads
  BY EntryTypes, RecordFields DEF Knows, At, Recorded
<1>2. a \in Answers
  BY <1>1 DEF AnswersTo, TypeOK
<1>3. CASE Never
  BY <1>2, <1>3 DEF SilentInv
<1>4. CASE ~Exact
  BY <1>4, <1>3 DEF OnceInv, OnceAt, At, SilentInv
<1>5. CASE Exact /\ ~Never
  <2>1. PICK p \in Payloads \cup {None} : About(p)
    BY DEF SubjectInv
  <2>2. p = replay[d].request
    BY <1>1, <2>1 DEF About
  <2>3. executed[p] # 0
    BY <1>5, <2>1 DEF About, Never
  <2>4. memory[p] # None /\ a = memory[p]
    BY <1>1, <1>5, <2>2, <2>3 DEF SilentInv, AnswersTo
  <2>5. PICK b \in Answers \cup {None} : Answered(b)
    BY DEF AnswerInv
  <2>6. b = a
    BY <1>1, <1>5, <2>2, <2>4, <2>5 DEF Answered
  <2> QED  BY <1>2, <1>5, <2>5, <2>6
<1> QED  BY <1>3, <1>4, <1>5

LEMMA ExecutedSilent ==
  ASSUME TypeOK, SilentInv, NEW p \in Payloads, NEW a \in Answers, Execute(p, a), policy' = policy
  PROVE  SilentInv' /\ \A q \in Payloads : memory'[q] \in {memory[q], a}
<1>1. executed[p] \in Nat
  BY MaxLossesIsNat DEF TypeOK
<1>2. executed'[p] # 0 /\ memory'[p] = a /\ a # None
  BY <1>1, MaxLossesIsNat, NoneDistinct DEF TypeOK, Execute
<1>3. \A q \in Payloads : q # p => executed'[q] = executed[q] /\ memory'[q] = memory[q]
  BY DEF TypeOK, Execute
<1> QED  BY <1>2, <1>3 DEF SilentInv, Never, Exact

LEMMA RelayAnswer ==
  ASSUME TypeOK, DoneInv, OnceInv, SubjectInv, AnswerInv, SilentInv, NEW d \in Dispatchers, Knows(d),
         Relay(d)
  PROVE  AnswerInv' /\ SilentInv'
<1>1. UNCHANGED <<policy, outages, returned, response, temporary, done, synced>> /\ At(d, "relay")
  BY DEF Relay, spool, ledger
<1>2. PICK a \in AnswersTo(replay[d].request) :
          /\ Execute(replay[d].request, a)
          /\ a \in Answers /\ replay[d].request \in Payloads
          /\ replay'[d].response = a
          /\ \A e \in Dispatchers : e # d => replay'[e] = replay[e]
  BY RelayRecord
<1>3. SilentInv' /\ \A q \in Payloads : memory'[q] \in {memory[q], a}
  BY <1>1, <1>2, ExecutedSilent
<1>4. RecordsLast => Answered(None) \/ (Exact /\ Answered(a))
  BY <1>1, <1>2, ExecuteAnswer
<1>5. ASSUME NEW b \in Answers, b = a, Answered(None) \/ (Exact /\ Answered(b)) PROVE Answered(b)'
  <2>1. CASE Answered(None)
    BY <1>1, <1>2, <1>3, <1>5, <2>1 DEF Answered, Exact, DoneInv
  <2>2. CASE Exact /\ Answered(b)
    BY <1>1, <1>2, <1>3, <1>5, <2>2 DEF Answered, Exact
  <2> QED  BY <1>5, <2>1, <2>2
<1>6. AnswerInv'
  BY <1>1, <1>2, <1>4, <1>5 DEF AnswerInv, RecordsLast, Exact
<1> QED  BY <1>3, <1>6

LEMMA LostAnswer ==
  ASSUME TypeOK, DoneInv, OnceInv, SubjectInv, AnswerInv, SilentInv, NEW d \in Dispatchers, Knows(d),
         RelayLost(d)
  PROVE  AnswerInv' /\ SilentInv'
<1>1. UNCHANGED <<policy, outages, returned, response, temporary, done, synced>> /\ At(d, "relay")
  BY DEF RelayLost, spool, ledger
<1>2. \A e \in Dispatchers : replay'[e] \in {None, replay[e]}
  BY Ends DEF RelayLost
<1>3. CASE UNCHANGED <<executed, memory>>
  BY <1>1, <1>2, <1>3, SameAnswer
<1>4. CASE \E a \in AnswersTo(replay[d].request) : Execute(replay[d].request, a)
  <2>1. PICK a \in AnswersTo(replay[d].request) : Execute(replay[d].request, a)
    BY <1>4
  <2>2. replay[d].request \in Payloads
    BY <1>1, EntryTypes, RecordFields DEF Knows, At, Recorded
  <2>3. a \in Answers
    BY <2>1, <2>2, ExecuteTypes
  <2>4. SilentInv' /\ \A q \in Payloads : memory'[q] \in {memory[q], a}
    BY <1>1, <2>1, <2>2, <2>3, ExecutedSilent
  <2>5. RecordsLast => IF Exact THEN Answered(None) \/ Answered(a) ELSE Answered(None)
    BY <1>1, <2>1, ExecuteAnswer
  <2>6. ASSUME Exact, NEW b \in Answers, b = a, Answered(None) \/ Answered(b) PROVE Answered(b)'
    <3>1. CASE Answered(None)
      BY <1>1, <1>2, <2>4, <2>6, <3>1 DEF Answered, Exact, DoneInv
    <3>2. CASE Answered(b)
      BY <1>1, <1>2, <2>4, <2>6, <3>2 DEF Answered, Exact
    <3> QED  BY <2>6, <3>1, <3>2
  <2>7. ASSUME ~Exact, Answered(None) PROVE Answered(None)'
    BY <1>1, <1>2, <2>7 DEF Answered, Exact
  <2>8. AnswerInv'
    BY <1>1, <2>3, <2>5, <2>6, <2>7 DEF AnswerInv, RecordsLast, Exact
  <2> QED  BY <2>4, <2>8
<1> QED  BY <1>3, <1>4 DEF RelayLost

LEMMA AnswerStep ==
  ASSUME LocalInv, OnceInv, SubjectInv, AnswerInv, SilentInv, [Next]_vars
  PROVE  AnswerInv' /\ SilentInv'
<1>1. TypeOK /\ DoneInv /\ \A d \in Dispatchers : Knows(d)
  BY KnowsAll DEF LocalInv
<1>2. ASSUME NEW p \in Payloads, Submit(p) PROVE AnswerInv' /\ SilentInv'
  BY <1>2, SameAnswer DEF Submit, ledger, endpoint
<1>3. CASE OrphanKilled \/ UNCHANGED vars
  BY <1>3, SameAnswer DEF OrphanKilled, vars, spool, ledger, endpoint
<1>4. ASSUME NEW d \in Dispatchers, Begin(d) \/ AcquireAttempt(d) \/ Unstage(d) \/ DropClaim(d)
      PROVE  AnswerInv' /\ SilentInv'
  BY <1>4, SameAnswer DEF Begin, AcquireAttempt, Unstage, DropClaim, spool, ledger, endpoint
<1>5. ASSUME NEW d \in Dispatchers, PersistClaim(d) \/ PersistDone(d) \/ SyncDrop(d)
      PROVE  AnswerInv' /\ SilentInv'
  BY <1>5, SameAnswer DEF PersistClaim, PersistDone, SyncDrop, Unlink, SyncDirectory, spool, endpoint
<1>6. ASSUME NEW d \in Dispatchers, ReadSpooled(d) \/ Stop(d) PROVE AnswerInv' /\ SilentInv'
  <2>1. \A e \in Dispatchers : replay'[e] \in {None, replay[e]}
    BY <1>1, <1>6, Ends DEF ReadSpooled, Stop
  <2> QED  BY <1>6, <2>1, SameAnswer DEF ReadSpooled, Stop, spool, ledger, endpoint
<1> QED
  BY <1>1, <1>2, <1>3, <1>4, <1>5, <1>6, LoadAnswer, DoneAnswer, WriteAnswer, OrphanAnswer, PowerAnswer,
     RelayAnswer, LostAnswer DEF Next, Step

-----------------------------------------------------------------------------
(* A staged request.                                                          *)
StagedAt(d) ==
    /\ pc[d] \in {"load", "claim", "unlinkclaim", "syncclaim"} => staged = pending[d]
    /\ At(d, "unstage") => staged = None \/ staged = replay[d].request
    /\ pc[d] \in Claiming => pending[d] = replay[d].request
    /\ pc[d] \in Answering \cup {"relay"} => staged = None

StagedInv == \A d \in Dispatchers : StagedAt(d)

LEMMA IdleStaged ==
  ASSUME NEW d \in Dispatchers, pc'[d] \in {"idle", "lock", "read"} PROVE StagedAt(d)'
BY DEF StagedAt, At, Claiming, Answering

LEMMA OthersStaged ==
  ASSUME HolderInv, NEW d \in Dispatchers, Works(d), StagedAt(d)',
         \A e \in Dispatchers : e # d => pc'[e] = pc[e]
  PROVE  StagedInv'
<1>1. ASSUME NEW e \in Dispatchers, e # d PROVE StagedAt(e)'
  BY <1>1, Alone, IdleStaged DEF Works
<1> QED  BY <1>1 DEF StagedInv

LEMMA EndStaged ==
  ASSUME TypeOK, HolderInv, NEW d \in Dispatchers, Works(d), End(d) PROVE StagedInv'
BY Ends, IdleStaged, OthersStaged

(* d goes on, and the staged request, its own and its record stay. *)
LEMMA GoesStaged ==
  ASSUME TypeOK, HolderInv, NEW d \in Dispatchers, Works(d), StagedAt(d),
         UNCHANGED <<staged, pending, replay>>, NEW step \in Steps, Goto(d, step),
         \/ At(d, "load") /\ step = "claim"
         \/ At(d, "unlinkclaim") /\ step = "syncclaim"
         \/ At(d, "syncclaim") /\ step = "unstage"
         \/ pc[d] \in Answering /\ step \in Answering
  PROVE  StagedInv'
<1>1. pc'[d] = step /\ \A e \in Dispatchers : e # d => pc'[e] = pc[e]
  BY Goes
<1>2. StagedAt(d)'
  BY <1>1 DEF StagedAt, At, Claiming, Answering
<1> QED  BY <1>1, <1>2, OthersStaged

LEMMA StagedStep == ASSUME LocalInv, StagedInv, [Next]_vars PROVE StagedInv'
<1>1. TypeOK /\ HolderInv /\ \A d \in Dispatchers : StagedAt(d) /\ Knows(d)
  BY KnowsAll DEF LocalInv, StagedInv
<1>2. ASSUME UNCHANGED <<staged, pc, pending, replay>> PROVE StagedInv'
  BY <1>1, <1>2 DEF StagedInv, StagedAt, At
<1>3. ASSUME NEW p \in Payloads, Submit(p) PROVE StagedInv'
  BY <1>2, <1>3 DEF Submit
<1>4. CASE OrphanWrites \/ OrphanKilled \/ UNCHANGED vars
  BY <1>2, <1>4 DEF OrphanWrites, OrphanKilled, vars, spool
<1>5. ASSUME NEW d \in Dispatchers, Begin(d) \/ AcquireAttempt(d) PROVE StagedInv'
  <2>1. pc'[d] \in {"lock", "read"} /\ \A e \in Dispatchers : e # d => pc'[e] = pc[e]
    BY <1>1, <1>5, Goes, StepNames DEF Begin, AcquireAttempt
  <2>2. UNCHANGED <<staged, pending, replay>>
    BY <1>5 DEF Begin, AcquireAttempt, spool
  <2>3. ASSUME NEW e \in Dispatchers, e # d PROVE StagedAt(e)'
    BY <1>1, <2>1, <2>2, <2>3 DEF StagedAt, At
  <2> QED  BY <2>1, <2>3, IdleStaged DEF StagedInv
<1>6. ASSUME NEW d \in Dispatchers, ReadSpooled(d) PROVE StagedInv'
  <2>1. Works(d)
    BY <1>6 DEF ReadSpooled, At, Works
  <2>2. CASE End(d)
    BY <1>1, <2>1, <2>2, EndStaged
  <2>3. CASE Goto(d, "load") /\ pending' = [pending EXCEPT ![d] = staged']
    <3>1. pc'[d] = "load" /\ \A e \in Dispatchers : e # d => pc'[e] = pc[e]
      BY <1>1, <2>3, Goes, StepNames
    <3>2. pending'[d] = staged'
      BY <1>1, <2>3, Changed DEF TypeOK
    <3>3. StagedAt(d)'
      BY <3>1, <3>2 DEF StagedAt, At, Claiming, Answering
    <3> QED  BY <1>1, <2>1, <3>1, <3>3, OthersStaged
  <2> QED  BY <1>6, <2>2, <2>3 DEF ReadSpooled
<1>7. ASSUME NEW d \in Dispatchers, LoadOrClaim(d) PROVE StagedInv'
  <2>1. Works(d) /\ staged' = staged /\ At(d, "load") /\ staged = pending[d]
    BY <1>1, <1>7 DEF LoadOrClaim, At, Works, spool, StagedAt
  <2>2. CASE End(d)
    BY <1>1, <2>1, <2>2, EndStaged
  <2>3. CASE Goto(d, "claim") /\ UNCHANGED <<holder, pending, replay>>
    BY <1>1, <2>1, <2>3, GoesStaged, StepNames
  <2>4. CASE /\ Existing # None /\ Replayable(pending[d])
             /\ replay' = [replay EXCEPT ![d] = Existing]
             /\ Goto(d, IF pending[d] # None THEN "unstage" ELSE AfterClaim(Existing))
             /\ UNCHANGED <<holder, pending>>
    <3>1. /\ pc'[d] = IF pending[d] # None THEN "unstage" ELSE AfterClaim(Existing)
          /\ \A e \in Dispatchers : e # d => pc'[e] = pc[e]
      BY <1>1, <2>4, Goes, StepNames DEF AfterClaim
    <3>2. replay'[d] = Existing
      BY <1>1, <2>4, Changed, ExistingTypes DEF TypeOK
    <3>3. pending[d] # None => pending[d] = Existing.request
      BY <2>4 DEF Replayable
    <3>4. StagedAt(d)'
      BY <2>1, <3>1, <3>2, <3>3 DEF StagedAt, At, AfterClaim, Claiming, Answering
    <3> QED  BY <1>1, <2>1, <3>1, <3>4, OthersStaged
  <2> QED  BY <1>7, <2>2, <2>3, <2>4 DEF LoadOrClaim
<1>8. ASSUME NEW d \in Dispatchers, LinkClaim(d) PROVE StagedInv'
  <2>1. pc'[d] = "unlinkclaim" /\ \A e \in Dispatchers : e # d => pc'[e] = pc[e]
    BY <1>1, <1>8, Goes, StepNames DEF LinkClaim
  <2>2. replay'[d] = [request |-> pending[d], response |-> None] /\ pending' = pending /\ staged' = staged
    BY <1>1, <1>8, Changed, RecordMakes DEF LinkClaim, TypeOK, Knows, spool
  <2>3. StagedAt(d)' /\ Works(d)
    BY <1>1, <1>8, <2>1, <2>2 DEF StagedAt, LinkClaim, At, Claiming, Answering, Works
  <2> QED  BY <1>1, <2>1, <2>3, OthersStaged
<1>9. ASSUME NEW d \in Dispatchers, PersistClaim(d) PROVE StagedInv'
  <2>1. UNCHANGED <<staged, pending, replay>> /\ Works(d)
    BY <1>9 DEF PersistClaim, Unlink, SyncDirectory, spool, At, Works
  <2> QED
    BY <1>1, <1>9, <2>1, GoesStaged, StepNames DEF PersistClaim, Unlink, SyncDirectory
<1>10. ASSUME NEW d \in Dispatchers, Unstage(d) PROVE StagedInv'
  <2>1. /\ pc'[d] \in {"relay", "write"} /\ \A e \in Dispatchers : e # d => pc'[e] = pc[e]
        /\ staged' = None /\ Works(d)
    BY <1>1, <1>10, Goes, StepNames DEF Unstage, AfterClaim, At, Works
  <2>2. StagedAt(d)'
    BY <2>1 DEF StagedAt, At, Claiming, Answering
  <2> QED  BY <1>1, <2>1, <2>2, OthersStaged
<1>11. ASSUME NEW d \in Dispatchers, Relay(d) PROVE StagedInv'
  <2>1. /\ pc'[d] = "done" /\ \A e \in Dispatchers : e # d => pc'[e] = pc[e]
        /\ staged' = None /\ Works(d)
    BY <1>1, <1>11, Goes, StepNames DEF Relay, At, Works, StagedAt, spool
  <2>2. StagedAt(d)'
    BY <2>1 DEF StagedAt, At, Claiming, Answering
  <2> QED  BY <1>1, <2>1, <2>2, OthersStaged
<1>12. ASSUME NEW d \in Dispatchers, LinkDone(d) \/ PersistDone(d) \/ DropClaim(d) \/ SyncDrop(d) PROVE StagedInv'
  <2>1. UNCHANGED <<staged, pending, replay>> /\ Works(d) /\ pc[d] \in Answering
    BY <1>12 DEF LinkDone, PersistDone, DropClaim, SyncDrop, Unlink, SyncDirectory, spool, At, Works, Answering
  <2>2. \E step \in Answering : step \in Steps /\ Goto(d, step)
    BY <1>12, StepNames DEF LinkDone, PersistDone, DropClaim, SyncDrop, Unlink, SyncDirectory, Answering
  <2> QED  BY <1>1, <2>1, <2>2, GoesStaged
<1>13. ASSUME NEW d \in Dispatchers, WriteBegins(d) \/ WriteEnds(d) PROVE StagedInv'
  <2>1. staged' = staged /\ Works(d) /\ pc[d] \in Answering
    BY <1>13 DEF WriteBegins, WriteEnds, At, Works, Answering
  <2>2. CASE End(d)
    BY <1>1, <2>1, <2>2, EndStaged
  <2>3. CASE ~ End(d)
    <3>1. UNCHANGED <<pending, replay>> /\ \E step \in {"stream", "clean"} : Goto(d, step)
      BY <1>13, <2>3 DEF WriteBegins, WriteEnds
    <3>2. \A step \in {"stream", "clean"} : step \in Steps /\ step \in Answering
      BY StepNames DEF Answering
    <3> QED  BY <1>1, <2>1, <3>1, <3>2, GoesStaged
  <2> QED  BY <2>2, <2>3
<1>14. ASSUME NEW d \in Dispatchers, Clean(d) \/ RelayLost(d) \/ Stop(d) PROVE StagedInv'
  BY <1>1, <1>14, EndStaged DEF Clean, RelayLost, Stop, At, Works
<1>15. CASE PowerLoss
  BY <1>15, IdleStaged DEF PowerLoss, StagedInv
<1> QED
  BY <1>3, <1>4, <1>5, <1>6, <1>7, <1>8, <1>9, <1>10, <1>11, <1>12, <1>13, <1>14, <1>15 DEF Next, Step

-----------------------------------------------------------------------------
(* All of it together.                                                        *)
AllInv ==
    /\ LocalInv /\ OnceInv /\ AtMostOnce
    /\ SubjectInv /\ FreshInv /\ AnswerInv /\ SilentInv /\ StagedInv

LEMMA InitAll == ASSUME Init PROVE AllInv
<1>1. /\ TypeOK /\ HolderInv /\ \A d \in Dispatchers : pc[d] = "idle" /\ replay[d] = None
      /\ claim = None /\ done = None /\ synced.claim = None /\ synced.done = None
  BY InitTypes DEF Init
<1>2. Never /\ AtMostOnce
  BY DEF Init, Never, AtMostOnce
<1>3. LocalInv
  BY <1>1 DEF LocalInv, ReplayInv, StepInv, DoneInv, At, Recorded, Answering, Claiming, Closing
<1>4. OnceInv
  BY <1>1, <1>2 DEF OnceInv, OnceAt, Claiming
<1>5. SubjectInv /\ FreshInv
  <2>1. About(None)
    BY <1>1, <1>2 DEF About, Never
  <2> QED  BY <1>1, <1>2, <2>1 DEF SubjectInv, FreshInv
<1>6. Answered(None)
  BY <1>1 DEF Init, Answered
<1>7. AnswerInv /\ SilentInv
  BY <1>2, <1>6 DEF AnswerInv, SilentInv, Never
<1>8. StagedInv
  BY <1>1 DEF StagedInv, StagedAt, At, Claiming, Answering
<1> QED  BY <1>2, <1>3, <1>4, <1>5, <1>7, <1>8 DEF AllInv

LEMMA Invariance == Spec => []AllInv
<1>1. Init => AllInv
  BY InitAll
<1>2. AllInv /\ [Next]_vars => AllInv'
  <2> SUFFICES ASSUME AllInv, [Next]_vars PROVE AllInv'
    OBVIOUS
  <2>1. LocalInv' /\ OnceInv' /\ AtMostOnce'
    BY LocalStep, OnceStep DEF AllInv
  <2>2. SubjectInv' /\ FreshInv'
    BY AboutStep DEF AllInv
  <2>3. AnswerInv' /\ SilentInv'
    BY AnswerStep DEF AllInv
  <2>4. StagedInv'
    BY StagedStep DEF AllInv
  <2> QED  BY <2>1, <2>2, <2>3, <2>4 DEF AllInv
<1> QED  BY <1>1, <1>2, PTL DEF Spec

-----------------------------------------------------------------------------
(* The variables keep their types.                                            *)
THEOREM Types == Spec => []TypeOK
<1>1. AllInv => TypeOK
  BY DEF AllInv, LocalInv
<1> QED  BY <1>1, Invariance, PTL

(* Without exact replay a request id is executed at most once: a record is on *)
(* disk before the relay, so no death or power loss makes room for another.   *)
THEOREM ExecutedAtMostOnce == Spec => []AtMostOnce
<1>1. AllInv => AtMostOnce
  BY DEF AllInv
<1> QED  BY <1>1, Invariance, PTL

(* Only one payload is ever executed under a request id, unless a power loss  *)
(* took back a record that exact replay trusted.                              *)
THEOREM ExecutedOnePayload == Spec => []OnePayload
<1>1. AllInv => OnePayload
  <2> SUFFICES ASSUME AllInv, RecordsLast PROVE \A p, q \in Payloads : executed[p] > 0 /\ executed[q] > 0 => p = q
    BY DEF OnePayload
  <2>1. PICK p \in Payloads \cup {None} : \A q \in Payloads : q # p => executed[q] = 0
    BY DEF AllInv, SubjectInv, About
  <2> QED  BY <2>1, SMT
<1> QED  BY <1>1, Invariance, PTL

(* And one answer is recorded, told to the consumer and returned.             *)
THEOREM ToldOneAnswer == Spec => []OneAnswer
<1>1. AllInv => OneAnswer
  <2> DEFINE told == returned \cup ({response} \cap Answers) \cup {r.response : r \in {done} \ {None}}
  <2> SUFFICES ASSUME AllInv, RecordsLast PROVE Cardinality(told) <= 1
    BY DEF OneAnswer
  <2>1. PICK a \in Answers \cup {None} : Answered(a)
    BY DEF AllInv, AnswerInv
  <2>2. told \subseteq {a}
    BY <2>1, NoneDistinct DEF Answered
  <2>3. IsFiniteSet({a}) /\ Cardinality({a}) = 1
    BY FS_Singleton
  <2>4. Cardinality(told) <= Cardinality({a})
    BY <2>2, <2>3, FS_Subset
  <2> QED  BY <2>3, <2>4
<1> QED  BY <1>1, Invariance, PTL

(* A staged request is given up only when the ledger has it.                  *)
THEOREM StagedIsClaimed == Spec => StagedUntilClaimed
<1>1. AllInv /\ [Next]_vars => [staged \notin {None, staged'} => claim = staged \/ (done # None /\ done.request = staged)]_vars
  <2> SUFFICES ASSUME AllInv, Next, staged # None, staged' # staged
               PROVE  claim = staged \/ (done # None /\ done.request = staged)
    BY DEF vars
  <2>1. /\ TypeOK /\ FreshInv /\ \A d \in Dispatchers : StagedAt(d) /\ Knows(d)
    BY KnowsAll DEF AllInv, LocalInv, StagedInv
  <2>2. PICK d \in Dispatchers : Unstage(d) \/ Clean(d)
    BY DEF Next, Step, Submit, Begin, AcquireAttempt, ReadSpooled, LoadOrClaim, LinkClaim, PersistClaim,
           Relay, RelayLost, LinkDone, PersistDone, DropClaim, SyncDrop, WriteBegins, WriteEnds, Stop,
           OrphanWrites, OrphanKilled, PowerLoss, Unlink, SyncDirectory, spool
  <2>3. At(d, "unstage") /\ staged = replay[d].request /\ replay[d] # None
    BY <2>1, <2>2 DEF Unstage, Clean, StagedAt, Knows, At, Answering, Recorded
  <2>4. PICK p \in Payloads \cup {None} : About(p)
    BY DEF AllInv, SubjectInv
  <2>5. claim # None \/ done # None
    BY <2>1, <2>3 DEF FreshInv
  <2> QED  BY <2>3, <2>4, <2>5 DEF About
<1> QED  BY <1>1, Invariance, PTL DEF Spec, StagedUntilClaimed

(* Who waited for the attempt lock sees a recorded answer, and executes       *)
(* nothing.                                                                   *)
THEOREM DoneIsFinal == Spec => ExecutedBeforeDone
<1>1. AllInv /\ [Next]_vars => [executed' # executed => done = None]_vars
  <2> SUFFICES ASSUME AllInv, Next, executed' # executed PROVE done = None
    BY DEF vars
  <2>1. \A d \in Dispatchers : Knows(d)
    BY KnowsAll DEF AllInv, LocalInv
  <2>2. PICK d \in Dispatchers : At(d, "relay")
    BY DEF Next, Step, Submit, Begin, AcquireAttempt, ReadSpooled, LoadOrClaim, LinkClaim, PersistClaim,
           Unstage, Relay, RelayLost, LinkDone, PersistDone, DropClaim, SyncDrop, WriteBegins, WriteEnds,
           Clean, Stop, OrphanWrites, OrphanKilled, PowerLoss, Unlink, SyncDirectory, endpoint
  <2> QED  BY <2>1, <2>2 DEF Knows, At
<1> QED  BY <1>1, Invariance, PTL DEF Spec, ExecutedBeforeDone

(* A whole response is never replaced, by whichever writer.                   *)
THEOREM ResponseIsFinal == Spec => ResponseStays
<1>1. [Next]_vars => [(response \in Answers) => response' = response]_vars
  <2> SUFFICES ASSUME Next, response \in Answers PROVE response' = response
    BY DEF vars
  <2>1. ASSUME NEW d \in Dispatchers, WriteEnds(d) PROVE response' = response
    BY <2>1, NoneDistinct DEF WriteEnds, Commit
  <2>2. CASE OrphanWrites
    BY <2>2, NoneDistinct DEF OrphanWrites, Commit
  <2> QED
    BY <2>1, <2>2 DEF Next, Step, Submit, Begin, AcquireAttempt, ReadSpooled, LoadOrClaim, LinkClaim,
       PersistClaim, Unstage, Relay, RelayLost, LinkDone, PersistDone, DropClaim, SyncDrop, WriteBegins,
       Clean, Stop, OrphanKilled, PowerLoss, Unlink, SyncDirectory, spool
<1> QED  BY <1>1, PTL DEF Spec, ResponseStays
=============================================================================
