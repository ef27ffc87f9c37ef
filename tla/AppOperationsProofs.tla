------------------------- MODULE AppOperationsProofs -------------------------
(***************************************************************************)
(* Which operations of the Mac app run together, for any number of         *)
(* requests, features and projects.                                        *)
(***************************************************************************)
EXTENDS AppOperations, TLAPS

(* The entries of the queue have a state and their own place in it, and those *)
(* that run a command line.                                                   *)
QueueInv ==
    /\ queue = {q \in Requests : state[q] # "idle"}
    /\ state \in [Requests -> {"idle", "queued", "running", "ended"}]
    /\ dispatched \in Nat
    /\ turn \in [Requests -> 0..dispatched]
    /\ \A q, r \in queue : q # r => turn[q] # turn[r]
    /\ unlocked \subseteq {q \in queue : state[q] # "queued"}

(* What is ahead of a running operation does not conflict with it, for the    *)
(* command line that it began with.                                           *)
AheadInv ==
    \A q \in queue : state[q] # "queued"
        => \A e \in queue : turn[e] < turn[q] => ~Conflicts(e, q, q \notin unlocked)

IInv == QueueInv /\ AheadInv

-----------------------------------------------------------------------------
(* The relation between two operations.                                    *)

(* What has begun without a lock that was there conflicts with less than that. *)
LEMMA ConflictsWeaken ==
  ASSUME NEW q \in Requests, NEW r \in Requests, NEW less \in BOOLEAN, NEW more \in BOOLEAN,
         less => more, ~Conflicts(q, r, less)
  PROVE  ~Conflicts(q, r, more)
BY DEF Conflicts

LEMMA NoConflictsApart ==
  ASSUME NEW e \in Requests, NEW q \in Requests, NEW known \in BOOLEAN, ~Conflicts(e, q, known),
         Project[e] = Project[q], IsMutating(Kind[e]), IsMutating(Kind[q])
  PROVE  /\ ~IsProjectWide(Kind[e]) /\ ~IsProjectWide(Kind[q])
         /\ ~SameFeature(e, q) /\ ~SameFeature(q, e)
         /\ WritesRegistry(Kind[e]) /\ WritesRegistry(Kind[q]) => known
BY DEF Conflicts, SameFeature

(* What the invariant says of the operations that run. *)
LEMMA Apart == ASSUME IInv PROVE NoConflictRuns
<1> SUFFICES ASSUME NEW q \in queue, NEW r \in queue, state[q] # "queued", state[r] # "queued",
                    IsMutating(Kind[q]), IsMutating(Kind[r]), q # r, Project[q] = Project[r]
             PROVE  /\ ~IsProjectWide(Kind[q])
                    /\ ~SameFeature(q, r)
                    /\ WritesRegistry(Kind[q]) /\ WritesRegistry(Kind[r]) /\ turn[q] < turn[r]
                          => r \notin unlocked
  BY DEF NoConflictRuns, Running
<1>1. q \in Requests /\ r \in Requests
  BY DEF IInv, QueueInv
<1>2. turn[q] \in Nat /\ turn[r] \in Nat /\ turn[q] # turn[r]
  BY <1>1 DEF IInv, QueueInv
<1>3. CASE turn[q] < turn[r]
  <2>1. ~Conflicts(q, r, r \notin unlocked)
    BY <1>3 DEF IInv, AheadInv
  <2> QED  BY <1>1, <2>1, NoConflictsApart
<1>4. CASE turn[r] < turn[q]
  <2>1. ~Conflicts(r, q, q \notin unlocked)
    BY <1>4 DEF IInv, AheadInv
  <2>2. ~(turn[q] < turn[r])
    BY <1>2, <1>4
  <2> QED  BY <1>1, <2>1, <2>2, NoConflictsApart
<1> QED  BY <1>2, <1>3, <1>4

-----------------------------------------------------------------------------
LEMMA InitInv == ASSUME Init PROVE IInv
BY DEF Init, IInv, QueueInv, AheadInv

(* Whether two operations conflict does not change with time. *)
LEMMA ConflictsNext ==
  \A e, q : Conflicts(e, q, q \notin unlocked)' <=> Conflicts(e, q, q \notin unlocked')
BY DEF Conflicts

(* The entries keep their order, and what starts to run waits for nothing. *)
LEMMA QueueShrinks ==
  ASSUME QueueInv, AheadInv, lock \in BOOLEAN, backend \in BOOLEAN,
         NEW entries \in SUBSET queue, queue' \subseteq entries,
         turn' = [q \in Requests |-> IF q \in queue' THEN turn[q] ELSE 0],
         state' \in [Requests -> {"idle", "queued", "running", "ended"}],
         \A q \in Requests : state'[q] = "idle" <=> q \notin queue',
         \A q \in queue' : state'[q] # "queued" => state[q] # "queued" \/ Blockers(entries, q) = {},
         unlocked' = {q \in queue' : /\ state'[q] # "queued"
                                     /\ IF state[q] = "queued" THEN ~lock ELSE q \in unlocked},
         dispatched' = dispatched
  PROVE  IInv'
<1>1. QueueInv'
  <2>1. queue' \subseteq queue /\ queue \subseteq Requests
    BY DEF QueueInv
  <2>2. queue' = {q \in Requests : state'[q] # "idle"}
    BY <2>1
  <2>3. turn' \in [Requests -> 0..dispatched']
    BY DEF QueueInv
  <2>4. \A q, r \in queue' : q # r => turn'[q] # turn'[r]
    BY <2>1 DEF QueueInv
  <2>5. unlocked' \subseteq {q \in queue' : state'[q] # "queued"}
    OBVIOUS
  <2> QED  BY <2>2, <2>3, <2>4, <2>5 DEF QueueInv
<1>2. ASSUME NEW q \in queue', NEW e \in queue', state'[q] # "queued", turn'[e] < turn'[q]
      PROVE  ~Conflicts(e, q, q \notin unlocked')
  <2>1. q \in queue /\ e \in queue /\ e \in entries /\ q \in entries /\ q \in Requests /\ e \in Requests
    BY DEF QueueInv
  <2>2. turn[e] < turn[q]
    BY <1>2, <2>1
  <2>3. CASE state[q] # "queued"
    <3>1. ~Conflicts(e, q, q \notin unlocked)
      BY <2>1, <2>2, <2>3 DEF AheadInv
    <3>2. q \in unlocked' <=> q \in unlocked
      BY <1>2, <2>3
    <3> QED  BY <2>1, <3>1, <3>2, ConflictsWeaken
  <2>4. CASE state[q] = "queued"
    <3>1. Blockers(entries, q) = {}
      BY <1>2, <2>4
    <3>2. ~Conflicts(e, q, RegistryLock)
      BY <2>1, <2>2, <3>1 DEF Blockers
    <3>3. RegistryLock => q \notin unlocked'
      BY <2>4 DEF RegistryLock
    <3> QED  BY <2>1, <3>2, <3>3, ConflictsWeaken DEF RegistryLock
  <2> QED  BY <2>3, <2>4
<1>3. AheadInv'
  BY <1>2, ConflictsNext DEF AheadInv
<1> QED  BY <1>1, <1>3 DEF IInv

(* schedule lets nothing start that has to wait for an entry that stays. *)
LEMMA ScheduleKeeps ==
  ASSUME QueueInv, AheadInv, lock \in BOOLEAN, backend \in BOOLEAN,
         NEW entries \in SUBSET queue, Schedule(entries), dispatched' = dispatched
  PROVE  IInv' /\ queue' \subseteq entries
<1>1. queue' \subseteq entries
  BY DEF Schedule
<1>2. turn' = [q \in Requests |-> IF q \in queue' THEN turn[q] ELSE 0]
  BY DEF Schedule
<1>3. \A q \in queue' : q \in Requests /\ state[q] # "idle"
  BY <1>1 DEF QueueInv
<1>4. /\ state' \in [Requests -> {"idle", "queued", "running", "ended"}]
      /\ \A q \in Requests : state'[q] = "idle" <=> q \notin queue'
  BY <1>3 DEF Schedule, QueueInv
<1>5. ASSUME NEW q \in queue', state'[q] # "queued"
      PROVE  state[q] # "queued" \/ Blockers(entries, q) = {}
  BY <1>3, <1>5 DEF Schedule
<1>6. unlocked' = {q \in queue' : /\ state'[q] # "queued"
                                  /\ IF state[q] = "queued" THEN ~lock ELSE q \in unlocked}
  BY DEF Schedule
<1> QED  BY <1>1, <1>2, <1>4, <1>5, <1>6, QueueShrinks

(* A new request runs at once only when nothing in the queue conflicts. *)
LEMMA DispatchKeeps ==
  ASSUME QueueInv, AheadInv, lock \in BOOLEAN, NEW q \in Requests, Dispatch(q)
  PROVE  IInv'
<1>1. q \notin queue /\ backend
  BY DEF Dispatch, Rejected
<1>2. /\ queue' = queue \union {q}
      /\ turn' = [turn EXCEPT ![q] = dispatched + 1]
      /\ state' = [state EXCEPT ![q] = IF Blockers(queue, q) = {} THEN "running" ELSE "queued"]
      /\ unlocked' = IF state'[q] = "running" /\ ~lock THEN unlocked \union {q} ELSE unlocked
      /\ dispatched' = dispatched + 1
  BY DEF Dispatch
<1>3. \A r \in queue : r # q /\ r \in Requests /\ turn[r] \in 0..dispatched
  BY <1>1 DEF QueueInv
<1>4. dispatched \in Nat
  BY DEF QueueInv
<1>5. turn'[q] = dispatched + 1 /\ \A r \in queue : turn'[r] = turn[r] /\ state'[r] = state[r]
  BY <1>2, <1>3 DEF QueueInv
<1>6. \A r \in queue : turn'[r] \in Nat /\ turn'[q] \in Nat /\ turn'[r] < turn'[q]
  BY <1>3, <1>4, <1>5
<1>7. QueueInv'
  <2>1. queue' = {r \in Requests : state'[r] # "idle"}
    BY <1>2 DEF QueueInv
  <2>2. state' \in [Requests -> {"idle", "queued", "running", "ended"}]
    BY <1>2 DEF QueueInv
  <2>3. turn' \in [Requests -> 0..dispatched']
    BY <1>2 DEF QueueInv
  <2>4. ASSUME NEW r \in queue', NEW e \in queue', r # e PROVE turn'[r] # turn'[e]
    <3>1. CASE r \in queue /\ e \in queue
      BY <1>5, <2>4, <3>1 DEF QueueInv
    <3>2. ASSUME NEW x \in queue PROVE turn'[x] # turn'[q]
      BY <1>3, <1>4, <1>5
    <3> QED  BY <1>2, <2>4, <3>1, <3>2
  <2>5. unlocked' \subseteq {r \in queue' : state'[r] # "queued"}
    BY <1>2, <1>5 DEF QueueInv
  <2> QED  BY <1>2, <1>4, <2>1, <2>2, <2>3, <2>4, <2>5 DEF QueueInv
<1>8. ASSUME NEW r \in queue', NEW e \in queue', state'[r] # "queued", turn'[e] < turn'[r]
      PROVE  ~Conflicts(e, r, r \notin unlocked')
  <2>1. CASE r \in queue
    <3>1. e \in queue
      <4>1. CASE e = q
        <5>1. turn'[r] < turn'[e]
          BY <1>6, <2>1, <4>1
        <5>2. turn'[r] \in Nat /\ turn'[e] \in Nat
          BY <1>6, <2>1, <4>1
        <5> QED  BY <1>8, <5>1, <5>2
      <4> QED  BY <1>2, <4>1
    <3>2. ~Conflicts(e, r, r \notin unlocked)
      BY <1>5, <1>8, <2>1, <3>1 DEF AheadInv
    <3>3. r \in unlocked' <=> r \in unlocked
      BY <1>1, <1>2, <2>1
    <3> QED  BY <1>3, <2>1, <3>1, <3>2, <3>3, ConflictsWeaken
  <2>2. CASE r = q
    <3>1. e \in queue
      <4>1. turn'[q] = dispatched + 1
        BY <1>5
      <4>2. e # q
        BY <1>4, <1>8, <2>2, <4>1
      <4> QED  BY <1>2, <4>2
    <3>2. Blockers(queue, q) = {}
      BY <1>2, <1>8, <2>2 DEF QueueInv
    <3>3. ~Conflicts(e, q, RegistryLock)
      BY <1>1, <3>1, <3>2 DEF Blockers
    <3>4. RegistryLock => q \notin unlocked'
      BY <1>1, <1>2 DEF RegistryLock, QueueInv
    <3> QED  BY <1>3, <2>2, <3>1, <3>3, <3>4, ConflictsWeaken DEF RegistryLock
  <2> QED  BY <1>2, <2>1, <2>2
<1>9. AheadInv'
  BY <1>8, ConflictsNext DEF AheadInv
<1> QED  BY <1>7, <1>9 DEF IInv

(* A step that starts nothing. *)
LEMMA RunsOn ==
  ASSUME QueueInv, AheadInv, UNCHANGED <<queue, turn, unlocked, dispatched>>,
         state' \in [Requests -> {"idle", "queued", "running", "ended"}],
         \A q \in Requests : /\ state'[q] = "idle" <=> state[q] = "idle"
                             /\ state'[q] = "queued" <=> state[q] = "queued"
  PROVE  IInv'
<1>1. QueueInv'
  BY DEF QueueInv
<1>2. ASSUME NEW q \in queue', NEW e \in queue', state'[q] # "queued", turn'[e] < turn'[q]
      PROVE  ~Conflicts(e, q, q \notin unlocked')
  <2>1. q \in Requests /\ q \in queue /\ e \in queue /\ state[q] # "queued" /\ turn[e] < turn[q]
    BY <1>2 DEF QueueInv
  <2> QED  BY <2>1 DEF AheadInv
<1>3. AheadInv'
  BY <1>2, ConflictsNext DEF AheadInv
<1> QED  BY <1>1, <1>3 DEF IInv

LEMMA EndsKeep ==
  ASSUME QueueInv, AheadInv, NEW q \in Requests, state[q] = "running",
         state' = [state EXCEPT ![q] = "ended"], UNCHANGED <<queue, turn, unlocked, dispatched>>
  PROVE  IInv'
<1>1. /\ state' \in [Requests -> {"idle", "queued", "running", "ended"}]
      /\ \A r \in Requests : /\ state'[r] = "idle" <=> state[r] = "idle"
                             /\ state'[r] = "queued" <=> state[r] = "queued"
  BY DEF QueueInv
<1> QED  BY <1>1, RunsOn

(* Quitting drops what waits. *)
LEMMA CancelAllKeeps ==
  ASSUME QueueInv, AheadInv, lock \in BOOLEAN, backend \in BOOLEAN, CancelAll
  PROVE  IInv'
<1>1. /\ queue' = {q \in queue : state[q] # "queued"}
      /\ state' = [q \in Requests |-> IF q \in queue' THEN state[q] ELSE "idle"]
      /\ turn' = [q \in Requests |-> IF q \in queue' THEN turn[q] ELSE 0]
      /\ dispatched' = dispatched /\ unlocked' = unlocked
  BY DEF CancelAll, bounds
<1>2. queue' \subseteq queue /\ \A q \in queue' : q \in Requests /\ state[q] # "idle"
  BY <1>1 DEF QueueInv
<1>3. /\ state' \in [Requests -> {"idle", "queued", "running", "ended"}]
      /\ \A q \in Requests : state'[q] = "idle" <=> q \notin queue'
  BY <1>1, <1>2 DEF QueueInv
<1>4. \A q \in queue' : state[q] # "queued" /\ state'[q] = state[q]
  BY <1>1, <1>2
<1>5. unlocked' = {q \in queue' : /\ state'[q] # "queued"
                                  /\ IF state[q] = "queued" THEN ~lock ELSE q \in unlocked}
  BY <1>1, <1>4 DEF QueueInv
<1> QED  BY <1>1, <1>2, <1>3, <1>4, <1>5, QueueShrinks

-----------------------------------------------------------------------------
(* Every step.                                                             *)
LEMMA QueueStep ==
  ASSUME QueueInv, AheadInv, lock \in BOOLEAN, backend \in BOOLEAN, [Next]_vars
  PROVE  IInv'
<1> USE DEF operations, cli, project, bounds
<1>1. ASSUME UNCHANGED <<queue, turn, state, unlocked, dispatched>> PROVE IInv'
  BY <1>1, RunsOn DEF QueueInv
<1>2. ASSUME NEW q \in Requests, Dispatch(q) PROVE IInv'
  BY <1>2, DispatchKeeps
<1>3. ASSUME NEW q \in Requests, Operate(q) PROVE IInv'
  BY <1>3, EndsKeep DEF Operate
<1>4. ASSUME NEW q \in Requests, NEW f \in Features, PruneRow(q, f) PROVE IInv'
  BY <1>4, <1>1 DEF PruneRow
<1>5. ASSUME NEW q \in Requests, PruneEnds(q) PROVE IInv'
  BY <1>5, EndsKeep DEF PruneEnds
<1>6. ASSUME NEW q \in Requests, Complete(q) PROVE IInv'
  <2>1. queue \ {q} \in SUBSET queue
    OBVIOUS
  <2> QED  BY <1>6, <2>1, ScheduleKeeps DEF Complete
<1>7. ASSUME NEW q \in Requests, Cancel(q) PROVE IInv'
  <2>1. queue \ {q} \in SUBSET queue
    OBVIOUS
  <2>2. dispatched' = dispatched
    BY <1>7 DEF Cancel, Event
  <2>3. Schedule(queue \ {q}) \/ UNCHANGED <<queue, turn, state, unlocked>>
    BY <1>7 DEF Cancel
  <2> QED  BY <1>1, <2>1, <2>2, <2>3, ScheduleKeeps
<1>8. CASE Pass
  BY <1>8, <1>1 DEF Pass, BeginPass, List, EndPass
<1>9. CASE Toggle
  BY <1>9, <1>1 DEF Toggle, Event
<1>10. ASSUME NEW f \in Features, Terminal(f) PROVE IInv'
  BY <1>10, <1>1 DEF Terminal, Event
<1>11. CASE RegistryChanged
  BY <1>11, <1>1 DEF RegistryChanged
<1>12. CASE Rebootstrap
  BY <1>12, <1>1 DEF Rebootstrap, Event
<1>13. CASE Terminate
  BY <1>13, <1>1 DEF Terminate, Event
<1>14. CASE CancelAll
  BY <1>14, CancelAllKeeps
<1>15. CASE Drained
  BY <1>15, <1>1 DEF Drained
<1>16. CASE UNCHANGED vars
  BY <1>16, <1>1 DEF vars
<1> QED
  BY <1>2, <1>3, <1>4, <1>5, <1>6, <1>7, <1>8, <1>9, <1>10, <1>11, <1>12, <1>13, <1>14, <1>15, <1>16
  DEF Next, Work

-----------------------------------------------------------------------------
(* Types.                                                                  *)

Listings == [Features -> Statuses] \union {NotListed, Failed}
Passes(n) == [generation : 0..n, include : BOOLEAN, listing : Listings]

LEMMA Shows == ASSUME NEW w \in [Features -> Statuses], NEW include \in BOOLEAN
               PROVE  [f \in Features |-> IF w[f] = "removed" /\ ~include THEN "none" ELSE w[f]]
                          \in [Features -> Statuses]
BY DEF Statuses

LEMMA PassFields ==
  ASSUME NEW n \in Nat, NEW p \in Passes(n)
  PROVE  /\ p.generation \in 0..n /\ p.include \in BOOLEAN /\ p.listing \in Listings
         /\ \A l \in Listings : [p EXCEPT !.listing = l] \in Passes(n)
         /\ p \in Passes(n + 1)
BY DEF Passes

LEMMA PassMakes ==
  ASSUME NEW n \in Nat, NEW m \in 0..n, NEW include \in BOOLEAN
  PROVE  [generation |-> m, include |-> include, listing |-> NotListed] \in Passes(n)
BY DEF Passes, Listings

LEMMA StatusChanges ==
  ASSUME NEW w \in [Features -> Statuses], NEW f \in Features, NEW s \in Statuses
  PROVE  [w EXCEPT ![f] = s] \in [Features -> Statuses]
OBVIOUS

(* What does not regard the queue has its types. *)
Others ==
    /\ rows \subseteq Features
    /\ world \in [Features -> Statuses]
    /\ backend \in BOOLEAN /\ lock \in BOOLEAN
    /\ loop \in {"none", "starting", "listing", "listed"}
    /\ pass \in Passes(generation)
    /\ loop = "listed" => pass.listing \in [Features -> Statuses] \union {Failed}
    /\ rerun \in BOOLEAN /\ includeRemoved \in BOOLEAN
    /\ generation \in Nat
    /\ shown \in [Features -> Statuses]
    /\ loadState \in {"loaded", "failed"}
    /\ watching \in BOOLEAN /\ changed \in BOOLEAN
    /\ quitting \in {"no", "terminating", "draining", "drained"}

Counts ==
    /\ scenario \in Scenarios
    /\ dispatched \in 0..scenario.dispatches
    /\ events \in 0..MaxEvents
    /\ generation \in 0..events

LEMMA CountsStep == ASSUME Counts, [Next]_vars PROVE Counts'
<1> USE AppOperationsAssumption DEF Counts, operations, cli, project, bounds
<1>1. ASSUME UNCHANGED <<bounds, generation>> PROVE Counts'
  BY <1>1
<1>2. ASSUME NEW kind, Event(kind), generation' = generation PROVE Counts'
  <2>1. events' \in 0..MaxEvents /\ generation' \in 0..events'
    BY <1>2 DEF Event
  <2> QED  BY <1>2, <2>1 DEF Event
<1>3. ASSUME NEW q \in Requests, Dispatch(q) PROVE Counts'
  <2>1. dispatched' \in 0..scenario.dispatches /\ UNCHANGED <<scenario, events, generation>>
    BY <1>3 DEF Dispatch
  <2> QED  BY <2>1
<1>4. ASSUME NEW q \in Requests, Work(q) PROVE Counts'
  BY <1>4, <1>1 DEF Work, Operate, PruneEnds, Complete, PruneRow
<1>5. ASSUME NEW q \in Requests, Cancel(q) PROVE Counts'
  BY <1>5, <1>2 DEF Cancel
<1>6. CASE Pass
  BY <1>6, <1>1 DEF Pass, BeginPass, List, EndPass
<1>7. CASE Toggle
  <2>1. /\ events' \in 0..MaxEvents /\ generation' \in 0..events'
        /\ scenario' = scenario /\ dispatched' = dispatched
    BY <1>7 DEF Toggle, Event
  <2> QED  BY <2>1
<1>8. ASSUME NEW f \in Features, Terminal(f) PROVE Counts'
  BY <1>8, <1>2 DEF Terminal
<1>9. CASE RegistryChanged
  BY <1>9, <1>1 DEF RegistryChanged
<1>10. CASE Rebootstrap
  BY <1>10, <1>2 DEF Rebootstrap
<1>11. CASE Terminate
  BY <1>11, <1>2 DEF Terminate
<1>12. CASE CancelAll \/ Drained \/ UNCHANGED vars
  BY <1>12, <1>1 DEF CancelAll, Drained, vars
<1> QED
  BY <1>3, <1>4, <1>5, <1>6, <1>7, <1>8, <1>9, <1>10, <1>11, <1>12 DEF Next

LEMMA OthersStep == ASSUME Others, [Next]_vars PROVE Others'
<1> USE DEF Others, cli, project
<1>0. ASSUME RequestRefresh \/ UNCHANGED refresh PROVE loop' = "listed" => loop = "listed"
  BY <1>0 DEF RequestRefresh, refresh
<1>1. View(FALSE) \in [Features -> Statuses] /\ View(TRUE) \in [Features -> Statuses]
  BY Shows DEF View
<1>2. UNCHANGED refresh => loop' \in {"none", "starting", "listing", "listed"} /\ rerun' \in BOOLEAN
  BY DEF refresh
<1>3. RequestRefresh => loop' \in {"none", "starting", "listing", "listed"} /\ rerun' \in BOOLEAN
  BY <1>2 DEF RequestRefresh
<1>4. ASSUME UNCHANGED <<backend, lock, pass, generation, includeRemoved, shown, loadState, watching, quitting>>,
             rows' \subseteq Features, world' \in [Features -> Statuses], changed' \in BOOLEAN,
             RequestRefresh \/ UNCHANGED refresh
      PROVE  Others'
  BY <1>0, <1>2, <1>3, <1>4
<1>5. ASSUME NEW f \in Features
      PROVE  /\ [world EXCEPT ![f] = "removed"] \in [Features -> Statuses]
             /\ [world EXCEPT ![f] = "active"] \in [Features -> Statuses]
  BY StatusChanges DEF Statuses
<1>6. ASSUME NEW q \in Requests, Dispatch(q) PROVE Others'
  <2>1. Targets[q] \subseteq Features
    BY AppOperationsAssumption
  <2> QED  BY <1>6, <1>4, <2>1 DEF Dispatch
<1>7. ASSUME NEW q \in Requests, Operate(q) PROVE Others'
  <2>1. world' \in [Features -> Statuses] /\ changed' \in BOOLEAN
    BY <1>7 DEF Operate, Statuses
  <2> QED  BY <1>7, <1>4, <2>1 DEF Operate, operations
<1>8. ASSUME NEW q \in Requests, NEW f \in Features, PruneRow(q, f) PROVE Others'
  BY <1>8, <1>4, <1>5 DEF PruneRow
<1>9. ASSUME NEW q \in Requests, PruneEnds(q) PROVE Others'
  <2>1. world' \in [Features -> Statuses] /\ changed' \in BOOLEAN
    BY <1>9, <1>5 DEF PruneEnds
  <2> QED  BY <1>9, <1>4, <2>1 DEF PruneEnds
<1>10. ASSUME NEW q \in Requests, Complete(q) PROVE Others'
  BY <1>10, <1>4 DEF Complete, RefreshAfter
<1>11. ASSUME NEW q \in Requests, Cancel(q) PROVE Others'
  BY <1>11, <1>2, <1>4 DEF Cancel, RefreshAfter
<1>12. CASE BeginPass
  <2>1. pass' \in Passes(generation)
    BY <1>12, PassMakes DEF BeginPass, Asked
  <2> QED  BY <1>12, <2>1 DEF BeginPass, operations
<1>13. CASE List
  <2>1. Failed \in Listings /\ View(pass.include) \in [Features -> Statuses]
    BY <1>1, PassFields DEF Listings
  <2>2. pass' \in Passes(generation) /\ pass'.listing \in [Features -> Statuses] \union {Failed}
    BY <1>13, <2>1, PassFields DEF List, Listings, Passes
  <2> QED  BY <1>13, <2>2 DEF List, operations
<1>14. CASE EndPass
  <2>1. pass' \in Passes(generation)
    <3>1. 0 \in 0..generation /\ generation \in 0..generation
      OBVIOUS
    <3>2. Asked \in Passes(generation)
      BY <3>1, PassMakes DEF Asked
    <3>3. NoPass \in Passes(generation)
      BY <3>1, PassMakes DEF NoPass
    <3> QED  BY <1>14, <3>2, <3>3 DEF EndPass
  <2>2. loop' \in {"none", "starting", "listing", "listed"} /\ rerun' \in BOOLEAN
    BY <1>14 DEF EndPass
  <2>3. loadState' \in {"loaded", "failed"} /\ shown' \in [Features -> Statuses]
    BY <1>14 DEF EndPass
  <2> QED  BY <1>14, <2>1, <2>2, <2>3 DEF EndPass, operations
<1>15. CASE Toggle
  <2>1. pass' \in Passes(generation') /\ generation' \in Nat
    BY <1>15, PassFields DEF Toggle
  <2> QED  BY <1>15, <1>0, <1>3, <2>1 DEF Toggle, operations
<1>16. ASSUME NEW f \in Features, Terminal(f) PROVE Others'
  BY <1>16, <1>4, <1>5 DEF Terminal, operations
<1>17. CASE RegistryChanged
  BY <1>17, <1>4 DEF RegistryChanged, operations
<1>18. CASE Rebootstrap
  <2>1. backend' \in BOOLEAN /\ lock' \in BOOLEAN
    BY <1>18 DEF Rebootstrap
  <2> QED  BY <1>18, <1>0, <1>3, <2>1 DEF Rebootstrap, operations
<1>19. CASE Terminate
  BY <1>19, <1>0, <1>2 DEF Terminate, operations
<1>20. CASE CancelAll \/ Drained
  BY <1>20, <1>0, <1>2 DEF CancelAll, Drained, operations
<1>21. CASE UNCHANGED vars
  BY <1>21, <1>4 DEF vars, operations
<1> QED
  BY <1>6, <1>7, <1>8, <1>9, <1>10, <1>11, <1>12, <1>13, <1>14, <1>15, <1>16, <1>17, <1>18, <1>19,
     <1>20, <1>21 DEF Next, Work, Pass

(* Just what has begun and has not left the queue may be stopped. *)
StoppedInv == stopped \subseteq {q \in queue : state[q] # "queued"}

LEMMA ScheduledStay ==
  ASSUME QueueInv, NEW entries \in SUBSET queue, Schedule(entries)
  PROVE  \A q \in entries : state[q] # "queued" => q \in queue' /\ state'[q] # "queued"
<1>1. \A q \in Failing(entries) : state[q] = "queued"
  BY DEF Failing
<1> SUFFICES ASSUME NEW q \in entries, state[q] # "queued" PROVE q \in queue' /\ state'[q] # "queued"
  OBVIOUS
<1>2. q \in Requests
  BY DEF QueueInv
<1>3. q \in queue'
  BY <1>1 DEF Schedule
<1> QED  BY <1>2, <1>3 DEF Schedule

LEMMA StoppedStep == ASSUME QueueInv, StoppedInv, [Next]_vars PROVE StoppedInv'
<1> USE DEF StoppedInv, operations
<1>1. ASSUME stopped' = stopped, queue' = queue,
             \A q \in queue : state'[q] = "queued" => state[q] = "queued"
      PROVE  StoppedInv'
  BY <1>1
<1>2. ASSUME UNCHANGED <<queue, state, stopped>> PROVE StoppedInv'
  BY <1>2
<1>3. ASSUME NEW q \in Requests, Dispatch(q) PROVE StoppedInv'
  <2>1. q \notin queue
    BY <1>3 DEF Dispatch, Rejected
  <2>2. \A r \in queue : r \in queue' /\ state'[r] = state[r]
    BY <1>3, <2>1 DEF Dispatch, QueueInv
  <2>3. stopped' = stopped
    BY <1>3 DEF Dispatch
  <2> QED  BY <2>2, <2>3
<1>4. ASSUME NEW q \in Requests, Operate(q) \/ PruneEnds(q) PROVE StoppedInv'
  BY <1>1, <1>4 DEF Operate, PruneEnds, QueueInv
<1>5. ASSUME NEW q \in Requests, NEW f \in Features, PruneRow(q, f) PROVE StoppedInv'
  BY <1>2, <1>5 DEF PruneRow
<1>6. ASSUME NEW q \in Requests, Complete(q) PROVE StoppedInv'
  <2>1. \A r \in queue \ {q} : state[r] # "queued" => r \in queue' /\ state'[r] # "queued"
    BY <1>6, ScheduledStay DEF Complete
  <2>2. stopped' = stopped \ {q}
    BY <1>6 DEF Complete
  <2> QED  BY <2>1, <2>2
<1>7. ASSUME NEW q \in Requests, Cancel(q) PROVE StoppedInv'
  <2>1. CASE state[q] = "queued" /\ Schedule(queue \ {q}) /\ UNCHANGED stopped
    <3>1. \A r \in queue \ {q} : state[r] # "queued" => r \in queue' /\ state'[r] # "queued"
      BY <2>1, ScheduledStay
    <3> QED  BY <2>1, <3>1
  <2>2. CASE /\ q \in queue /\ state[q] = "running" /\ stopped' = stopped \union {q}
             /\ UNCHANGED <<queue, state>>
    BY <2>2
  <2> QED  BY <1>7, <2>1, <2>2 DEF Cancel
<1>8. CASE Pass
  BY <1>8, <1>2 DEF Pass, BeginPass, List, EndPass
<1>9. CASE Toggle \/ RegistryChanged \/ Rebootstrap
  BY <1>9, <1>2 DEF Toggle, RegistryChanged, Rebootstrap
<1>10. ASSUME NEW f \in Features, Terminal(f) PROVE StoppedInv'
  BY <1>10, <1>2 DEF Terminal
<1>11. CASE Terminate \/ Drained \/ UNCHANGED vars
  BY <1>11, <1>2 DEF Terminate, Drained, vars
<1>12. CASE CancelAll
  <2>1. /\ queue' = {q \in queue : state[q] # "queued"}
        /\ state' = [q \in Requests |-> IF q \in queue' THEN state[q] ELSE "idle"]
        /\ stopped' = {q \in queue : state[q] = "running"}
    BY <1>12 DEF CancelAll
  <2> QED  BY <2>1 DEF QueueInv
<1> QED
  BY <1>3, <1>4, <1>5, <1>6, <1>7, <1>8, <1>9, <1>10, <1>11, <1>12 DEF Next, Work

(* No two entries of the queue hold the same branch or stray worktree.     *)
LEMMA HolderStep == ASSUME QueueInv, AheadInv, lock \in BOOLEAN, backend \in BOOLEAN, OneHolder, [Next]_vars
                    PROVE  OneHolder'
<1> USE DEF OneHolder, operations
<1>1. ASSUME queue' \subseteq queue PROVE OneHolder'
  BY <1>1
<1>2. ASSUME NEW q \in Requests, Dispatch(q) PROVE OneHolder'
  <2>1. queue' = queue \union {q} /\ ~Rejected(q)
    BY <1>2 DEF Dispatch
  <2>2. IsMutating(Kind[q]) => \A e \in queue : Keys[e] \intersect Keys[q] = {}
    BY <2>1 DEF Rejected
  <2> QED  BY <2>1, <2>2
<1>3. ASSUME NEW q \in Requests, Work(q) \/ Cancel(q) PROVE OneHolder'
  <2>1. ASSUME NEW entries \in SUBSET queue, Schedule(entries) PROVE queue' \subseteq queue
    BY <2>1 DEF Schedule
  <2>2. queue \ {q} \in SUBSET queue
    OBVIOUS
  <2> QED
    BY <1>1, <1>3, <2>1, <2>2 DEF Work, Cancel, Operate, PruneRow, PruneEnds, Complete
<1>4. CASE Pass
  BY <1>4, <1>1 DEF Pass, BeginPass, List, EndPass
<1>5. CASE Toggle \/ RegistryChanged \/ Rebootstrap
  BY <1>5, <1>1 DEF Toggle, RegistryChanged, Rebootstrap
<1>6. ASSUME NEW f \in Features, Terminal(f) PROVE OneHolder'
  BY <1>6, <1>1 DEF Terminal
<1>7. CASE Terminate \/ Drained \/ CancelAll \/ UNCHANGED vars
  BY <1>7, <1>1 DEF Terminate, Drained, CancelAll, vars
<1> QED
  BY <1>2, <1>3, <1>4, <1>5, <1>6, <1>7 DEF Next

(* A pass that still counts was made for the setting there is.             *)
SettingInv ==
    loop \in {"listing", "listed"} /\ pass.generation = generation => pass.include = includeRemoved

LEMMA SettingStep == ASSUME Others, SettingInv, [Next]_vars
                     PROVE  SettingInv' /\ (shown' = shown \/ pass.include = includeRemoved)
<1> USE DEF SettingInv, project
<1> DEFINE Goal == SettingInv' /\ (shown' = shown \/ pass.include = includeRemoved)
<1>1. ASSUME RequestRefresh \/ UNCHANGED refresh
      PROVE  loop' \in {"listing", "listed"} => loop \in {"listing", "listed"}
  BY <1>1 DEF RequestRefresh, refresh
<1>2. ASSUME RequestRefresh \/ UNCHANGED refresh, UNCHANGED project PROVE Goal
  BY <1>1, <1>2
<1>3. ASSUME NEW q \in Requests, Dispatch(q) \/ Work(q) \/ Cancel(q) PROVE Goal
  BY <1>2, <1>3 DEF Dispatch, Work, Operate, PruneRow, PruneEnds, Complete, Cancel, RefreshAfter
<1>4. CASE BeginPass
  BY <1>4 DEF BeginPass, Asked
<1>5. CASE List
  <2>1. pass'.generation = pass.generation /\ pass'.include = pass.include
    BY <1>5 DEF List, Others, Passes
  <2> QED  BY <1>5, <2>1 DEF List
<1>6. CASE EndPass
  <2>1. shown' = shown \/ pass.include = includeRemoved
    BY <1>6 DEF EndPass, Current
  <2>2. SettingInv'
    BY <1>6 DEF EndPass, Asked
  <2> QED  BY <2>1, <2>2
<1>7. CASE Toggle
  <2>1. pass.generation \in 0..generation /\ generation \in Nat
    BY DEF Others, Passes
  <2>2. pass'.generation # generation'
    BY <1>7, <2>1 DEF Toggle
  <2> QED  BY <1>7, <2>2 DEF Toggle
<1>8. ASSUME NEW f \in Features, Terminal(f) PROVE Goal
  BY <1>8, <1>2 DEF Terminal
<1>9. CASE RegistryChanged \/ Rebootstrap
  BY <1>9, <1>2 DEF RegistryChanged, Rebootstrap
<1>10. CASE Terminate \/ CancelAll \/ Drained
  BY <1>10, <1>2 DEF Terminate, CancelAll, Drained
<1>11. CASE UNCHANGED vars
  BY <1>11, <1>2 DEF vars
<1> QED
  BY <1>3, <1>4, <1>5, <1>6, <1>7, <1>8, <1>9, <1>10, <1>11 DEF Next, Pass

-----------------------------------------------------------------------------
(* The theorems.                                                           *)

AllInv == IInv /\ Counts /\ Others /\ StoppedInv /\ OneHolder /\ SettingInv

LEMMA AllInit == ASSUME Init PROVE AllInv
<1> USE AppOperationsAssumption DEF Init
<1>1. Counts
  <2>1. scenario \in Scenarios /\ dispatched = 0 /\ events = 0 /\ generation = 0
    OBVIOUS
  <2>2. 0 \in 0..scenario.dispatches /\ 0 \in 0..MaxEvents
    BY <2>1
  <2> QED  BY <2>1, <2>2 DEF Counts
<1>2. Others
  <2>1. world \in [Features -> Statuses]
    BY DEF Statuses
  <2>2. View(FALSE) \in [Features -> Statuses]
    BY <2>1, Shows DEF View
  <2>3. pass \in Passes(generation)
    BY PassMakes, 0 \in 0..0 DEF NoPass
  <2>4. watching \in BOOLEAN
    OBVIOUS
  <2> QED  BY <2>1, <2>2, <2>3, <2>4 DEF Others
<1>3. StoppedInv /\ OneHolder /\ SettingInv
  BY DEF StoppedInv, OneHolder, SettingInv
<1> QED  BY <1>1, <1>2, <1>3, InitInv DEF AllInv

LEMMA Invariance == Spec => []AllInv
<1>1. Init => AllInv
  BY AllInit
<1>2. AllInv /\ [Next]_vars => AllInv'
  <2> SUFFICES ASSUME AllInv, [Next]_vars PROVE AllInv'
    OBVIOUS
  <2>1. QueueInv /\ AheadInv /\ lock \in BOOLEAN /\ backend \in BOOLEAN
    BY DEF AllInv, IInv, Others
  <2>2. IInv' /\ OneHolder'
    BY <2>1, QueueStep, HolderStep DEF AllInv
  <2>3. Counts' /\ Others' /\ StoppedInv' /\ SettingInv'
    BY <2>1, CountsStep, OthersStep, StoppedStep, SettingStep DEF AllInv
  <2> QED  BY <2>2, <2>3 DEF AllInv
<1> QED  BY <1>1, <1>2, PTL DEF Spec

LEMMA AllTypes == ASSUME AllInv PROVE TypeOK
<1> USE DEF AllInv, IInv
<1>1. generation \in 0..MaxEvents
  BY AppOperationsAssumption DEF Counts
<1>2. QueueInv /\ Counts /\ Others /\ StoppedInv
  OBVIOUS
<1>3. pass \in [generation : 0..generation, include : BOOLEAN,
                listing : [Features -> Statuses] \union {NotListed, Failed}]
  BY <1>2 DEF Others, Passes, Listings
<1> QED  BY <1>1, <1>2, <1>3 DEF TypeOK, QueueInv, Counts, Others, StoppedInv

(* The variables keep their types, and only what has begun can be stopped.  *)
THEOREM Types == Spec => []TypeOK
BY Invariance, AllTypes, PTL

(* The operations that run together never conflict, however many there are,  *)
(* whichever are cancelled, and whatever becomes of the command line.        *)
THEOREM NoConflicts == Spec => []NoConflictRuns
<1>1. AllInv => NoConflictRuns
  BY Apart DEF AllInv
<1> QED  BY <1>1, Invariance, PTL

(* A branch or stray worktree is deleted by one unfinished operation only.   *)
THEOREM HeldOnce == Spec => []OneHolder
BY Invariance, PTL DEF AllInv

(* A pass that began before includeRemoved was changed shows nothing.        *)
THEOREM ShowsAsAsked == Spec => ShownAsAsked
<1>1. AllInv /\ [Next]_vars => [shown' = shown \/ pass.include = includeRemoved]_vars
  BY SettingStep DEF AllInv
<1> QED  BY <1>1, Invariance, PTL DEF Spec, ShownAsAsked
=============================================================================
