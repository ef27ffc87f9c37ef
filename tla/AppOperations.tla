--------------------------- MODULE AppOperations ---------------------------
(***************************************************************************)
(* The Mac app's operations and refreshes.  Requests become records that   *)
(* run, wait behind others or are rejected; running ones call the command  *)
(* line and may be stopped; every finished one asks for a refresh of its   *)
(* project, which lists it in passes, one at a time.  The app's state is   *)
(* confined to the main actor: an action is what it does between two       *)
(* awaits.                                                                 *)
(***************************************************************************)
EXTENDS Naturals, FiniteSets

CONSTANTS
    Features,
    Requests,       \* at most one record of each at a time
    Kind, Project, Targets, Keys, \* of each request; its keys are branches and strays
    Listed,         \* the project whose listing is modelled
    Scenarios,      \* [requests, dispatches, events, watching]: what may be dispatched, how
                    \* often, which events there are, and whether files may be watched
    MaxEvents       \* bound: cancellations, changes made in a terminal, changes of
                    \* includeRemoved, times the command line is looked for again, ends

OperationKind == {"start", "teardown", "prune", "exec", "devcontainerUp",
                  "syncDevcontainers", "tunnelOpen", "applyConfig", "deleteBranch"}

ASSUME AppOperationsAssumption ==
    /\ Kind \in [Requests -> OperationKind]
    /\ Targets \in [Requests -> SUBSET Features]
    /\ \A s \in Scenarios : /\ s.requests \subseteq Requests
                            /\ s.dispatches \in Nat
                            /\ s.watching \subseteq BOOLEAN
    /\ MaxEvents \in Nat

VARIABLES
    queue,     \* MutationQueue.entries: the requests that are queued or running
    turn,      \* their places in it
    state,     \* their states, "idle" if there is no record
    stopped,   \* the requests whose task is cancelled
    unlocked,  \* those that began on a command line without the capability registry-lock
    rows,      \* the features a prune has not come to yet
    world,     \* external: the registry's status of each feature
    backend,   \* whether the command line was found
    lock,      \* whether the one found last has the capability registry-lock
    loop,      \* ProjectStore.loop: "none", "starting", "listing" or "listed"
    pass,      \* the locals of its pass
    rerun,
    generation,
    includeRemoved,
    shown,     \* the features shown
    loadState, \* "loaded" or "failed"
    watching,  \* whether the project's files are watched
    changed,   \* external: file events that the watcher has not told yet
    scenario,  \* what this behaviour may do
    quitting,  \* "no", "terminating", "draining" or "drained"
    dispatched, \* count: records so far
    events     \* count: events so far

operations == <<queue, turn, state, stopped, unlocked, rows>>
cli == <<backend, lock>>
refresh == <<loop, rerun>>
project == <<pass, generation, includeRemoved, shown, loadState, watching>>
bounds == <<scenario, dispatched, events>>
vars == <<operations, world, cli, refresh, project, changed, quitting, bounds>>

-----------------------------------------------------------------------------
(* Which operations may run beside each other.                             *)

IsMutating(kind) == kind # "exec"
IsProjectWide(kind) == kind \in {"prune", "syncDevcontainers", "applyConfig"}
WritesRegistry(kind) ==
    kind \in {"start", "teardown", "prune", "tunnelOpen", "syncDevcontainers", "applyConfig"}

\* The target of a request is a feature or the whole project.
TargetsFeature(q) == Kind[q] \in {"start", "teardown", "exec", "devcontainerUp", "tunnelOpen"}
SameFeature(q, r) ==
    TargetsFeature(q) /\ TargetsFeature(r) /\ Project[q] = Project[r] /\ Targets[q] = Targets[r]

(* Slip: project-wide operations wait, but nothing waits for them. *)
ConflictsLater(earlier, later, registryLock) ==
    /\ IsMutating(Kind[earlier]) /\ IsMutating(Kind[later])
    /\ Project[earlier] = Project[later]
    /\ \/ IsProjectWide(Kind[later])
       \/ SameFeature(earlier, later)
       \/ ~registryLock /\ WritesRegistry(Kind[earlier]) /\ WritesRegistry(Kind[later])

Conflicts(earlier, later, registryLock) ==
    /\ IsMutating(Kind[earlier]) /\ IsMutating(Kind[later])
    /\ Project[earlier] = Project[later]
    /\ \/ IsProjectWide(Kind[earlier]) \/ IsProjectWide(Kind[later])
       \/ SameFeature(earlier, later)
       \/ ~registryLock /\ WritesRegistry(Kind[earlier]) /\ WritesRegistry(Kind[later])

RegistryLock == backend /\ lock

\* The entries of a queue that q, in it or about to join it, has to wait for.
Blockers(entries, q) ==
    {e \in entries : (q \in entries => turn[e] < turn[q]) /\ Conflicts(e, q, RegistryLock)}

FeatureConflict(q) ==
    IsMutating(Kind[q]) /\ TargetsFeature(q)
        /\ \E e \in queue : IsMutating(Kind[e]) /\ SameFeature(e, q)

\* dispatch: another mutation of the feature, the same request, or a branch or stray in use.
Rejected(q) ==
    \/ q \in queue
    \/ FeatureConflict(q)
    \/ IsMutating(Kind[q]) /\ \E e \in queue : Keys[e] \intersect Keys[q] # {}

-----------------------------------------------------------------------------
(* What several actions do in the end.                                     *)

(* Slip: a request during a pass is taken to be served by that pass. *)
RequestRefreshOnce ==
    IF loop = "none" /\ quitting = "no" THEN loop' = "starting" /\ UNCHANGED rerun
                                        ELSE UNCHANGED refresh

RequestRefresh ==
    IF quitting # "no" THEN UNCHANGED refresh
    ELSE IF loop = "none" THEN loop' = "starting" /\ UNCHANGED rerun
    ELSE rerun' = TRUE /\ UNCHANGED loop

\* complete asks for a refresh of the record's own project.
RefreshAfter(finished) ==
    IF \E q \in finished : Project[q] = Listed THEN RequestRefresh ELSE UNCHANGED refresh

\* The waiting entries that fail one after another when none can be started: those
\* that wait for nothing, or only for entries that fail.
Failing(entries) ==
    LET waiting == {q \in entries : state[q] = "queued"}
        fails[n \in 0..dispatched] ==
            \E q \in waiting : /\ turn[q] = n
                               /\ \A e \in Blockers(entries, q) : turn[e] < n /\ fails[turn[e]]
    IN  {q \in waiting : fails[turn[q]]}

\* schedule: what waits for nothing any more is started, or fails without a backend. What is
\* started keeps to its end the command line that run found.
Schedule(entries) ==
    /\ queue' = IF quitting = "draining" \/ backend THEN entries
                ELSE entries \ Failing(entries)
    /\ turn' = [q \in Requests |-> IF q \in queue' THEN turn[q] ELSE 0]
    /\ state' = [q \in Requests |->
                    IF q \notin queue' THEN "idle"
                    ELSE IF /\ state[q] = "queued"
                            /\ quitting # "draining"
                            /\ Blockers(entries, q) = {} THEN "running"
                    ELSE state[q]]
    /\ unlocked' = {q \in queue' : /\ state'[q] # "queued"
                                   /\ IF state[q] = "queued" THEN ~lock ELSE q \in unlocked}

\* The locals of a pass: its listing is there when "listed", Failed if that failed.
NotListed == <<>>
Failed == <<"failed">>

View(include) == [f \in Features |-> IF world[f] = "removed" /\ ~include THEN "none" ELSE world[f]]

NoPass == [generation |-> 0, include |-> FALSE, listing |-> NotListed]

\* The locals of a pass that begins.
Asked == [generation |-> generation, include |-> includeRemoved, listing |-> NotListed]

Event(kind) ==
    /\ kind \in scenario.events
    /\ events < MaxEvents
    /\ events' = events + 1
    /\ UNCHANGED <<scenario, dispatched>>

Init ==
    /\ scenario \in Scenarios
    /\ queue = {}
    /\ turn = [q \in Requests |-> 0]
    /\ state = [q \in Requests |-> "idle"]
    /\ stopped = {}
    /\ unlocked = {}
    /\ rows = {}
    /\ world = [f \in Features |-> "none"]
    /\ backend = TRUE
    /\ lock \in BOOLEAN
    /\ loop = "none"
    /\ pass = NoPass
    /\ rerun = FALSE
    /\ generation = 0
    /\ includeRemoved = FALSE
    /\ shown = View(FALSE)
    /\ loadState = "loaded"
    /\ watching \in scenario.watching
    /\ changed = FALSE
    /\ quitting = "no"
    /\ dispatched = 0
    /\ events = 0

-----------------------------------------------------------------------------
(* Operations.                                                             *)

Dispatch(q) ==
    /\ q \in scenario.requests
    /\ dispatched < scenario.dispatches
    /\ quitting = "no"
    /\ backend
    /\ ~Rejected(q)
    /\ queue' = queue \union {q}
    /\ turn' = [turn EXCEPT ![q] = dispatched + 1]
    /\ state' = [state EXCEPT ![q] = IF Blockers(queue, q) = {} THEN "running" ELSE "queued"]
    /\ unlocked' = IF state'[q] = "running" /\ ~lock THEN unlocked \union {q} ELSE unlocked
    /\ rows' = IF Kind[q] = "prune" THEN Targets[q] ELSE rows
    /\ dispatched' = dispatched + 1
    /\ UNCHANGED <<stopped, world, cli, refresh, project, changed, quitting, scenario, events>>

\* The command line does what it was asked, or fails, or is stopped before.
Operate(q) ==
    /\ state[q] = "running"
    /\ Kind[q] # "prune"
    /\ \/ /\ Kind[q] \in {"start", "teardown"}
          /\ world' = [f \in Features |->
                          IF f \notin Targets[q] THEN world[f]
                          ELSE IF Kind[q] = "start" THEN "active" ELSE "removed"]
          /\ \A f \in Targets[q] : Kind[q] = "teardown" => world[f] = "active"
          /\ changed' = watching
       \/ UNCHANGED <<world, changed>>
    /\ state' = [state EXCEPT ![q] = "ended"]
    /\ UNCHANGED <<queue, turn, stopped, unlocked, rows, cli, refresh, project, quitting, bounds>>

\* One row of a prune: its teardown succeeds, is refused or fails.
PruneRow(q, f) ==
    /\ state[q] = "running"
    /\ Kind[q] = "prune"
    /\ q \notin stopped
    /\ f \in rows
    /\ rows' = rows \ {f}
    /\ \/ world[f] = "active" /\ world' = [world EXCEPT ![f] = "removed"] /\ changed' = watching
       \/ UNCHANGED <<world, changed>>
    /\ UNCHANGED <<queue, turn, state, stopped, unlocked, cli, refresh, project, quitting, bounds>>

\* All rows are done, or the prune was stopped, in a row or between two.
PruneEnds(q) ==
    /\ state[q] = "running"
    /\ Kind[q] = "prune"
    /\ rows = {} \/ q \in stopped
    /\ rows' = {}
    /\ \/ /\ q \in stopped
          /\ \E f \in rows : /\ world[f] = "active"
                             /\ world' = [world EXCEPT ![f] = "removed"]
          /\ changed' = watching
       \/ UNCHANGED <<world, changed>>
    /\ state' = [state EXCEPT ![q] = "ended"]
    /\ UNCHANGED <<queue, turn, stopped, unlocked, cli, refresh, project, quitting, bounds>>

(* Slip: the queue is scheduled before the finished record leaves it. *)
CompleteLate(q) ==
    /\ state[q] = "ended"
    /\ queue' = queue \ {q}
    /\ turn' = [turn EXCEPT ![q] = 0]
    /\ state' = [r \in Requests |->
                    IF r = q THEN "idle"
                    ELSE IF state[r] = "queued" /\ Blockers(queue, r) = {} THEN "running"
                    ELSE state[r]]
    /\ stopped' = stopped \ {q}
    /\ unlocked' = unlocked \ {q}
    /\ RefreshAfter({q})
    /\ UNCHANGED <<rows, world, cli, project, changed, quitting, bounds>>

Complete(q) ==
    /\ state[q] = "ended"
    /\ Schedule(queue \ {q})
    /\ stopped' = stopped \ {q}
    /\ RefreshAfter(queue \ queue')
    /\ UNCHANGED <<rows, world, cli, project, changed, quitting, bounds>>

\* A queued record is dropped, the task of a running one is cancelled.
Cancel(q) ==
    /\ q \in queue
    /\ Event("cancel")
    /\ \/ state[q] = "queued" /\ Schedule(queue \ {q}) /\ UNCHANGED stopped
          /\ RefreshAfter((queue \ {q}) \ queue')
       \/ state[q] = "running" /\ stopped' = stopped \union {q}
          /\ UNCHANGED <<queue, turn, state, unlocked, refresh>>
    /\ UNCHANGED <<rows, world, cli, project, changed, quitting>>

-----------------------------------------------------------------------------
(* The passes that list the project.                                       *)

BeginPass ==
    /\ loop = "starting"
    /\ loop' = "listing"
    /\ rerun' = FALSE
    /\ pass' = Asked
    /\ UNCHANGED <<operations, world, cli, generation, includeRemoved, shown, loadState,
                   watching, changed, quitting, bounds>>

\* feature list reads the registry, or fails.
List ==
    /\ loop = "listing"
    /\ loop' = "listed"
    /\ \/ backend /\ pass' = [pass EXCEPT !.listing = View(pass.include)]
       \/ pass' = [pass EXCEPT !.listing = Failed]
    /\ UNCHANGED <<operations, world, cli, rerun, generation, includeRemoved, shown, loadState,
                   watching, changed, quitting, bounds>>

\* The generation guard.
Current == pass.generation = generation

EndPass ==
    /\ loop = "listed"
    /\ IF ~Current THEN UNCHANGED <<shown, loadState>>
       ELSE IF pass.listing = Failed THEN loadState' = "failed" /\ UNCHANGED shown
       ELSE loadState' = "loaded" /\ shown' = pass.listing
    /\ IF rerun
       THEN /\ loop' = "listing"
            /\ rerun' = FALSE
            /\ pass' = Asked
       ELSE loop' = "none" /\ UNCHANGED rerun /\ pass' = NoPass
    /\ UNCHANGED <<operations, world, cli, generation, includeRemoved, watching, changed,
                   quitting, bounds>>

Toggle ==
    /\ Event("toggle")
    /\ includeRemoved' = ~includeRemoved
    /\ generation' = generation + 1
    /\ RequestRefresh
    /\ UNCHANGED <<operations, world, cli, pass, shown, loadState, watching, changed, quitting>>

\* A command in a terminal changes the registry of a watched project.
Terminal(f) ==
    /\ Event("terminal")
    /\ watching
    /\ world' = [world EXCEPT ![f] = IF @ = "active" THEN "removed" ELSE "active"]
    /\ changed' = TRUE
    /\ UNCHANGED <<operations, cli, refresh, project, quitting>>

\* The debounced file events.
RegistryChanged ==
    /\ changed
    /\ changed' = FALSE
    /\ RequestRefresh
    /\ UNCHANGED <<operations, world, cli, project, quitting, bounds>>

\* rebootstrap: the command line is gone, or there is one, the same, an older or a later one.
\* What runs goes on with the one that it began with.
Rebootstrap ==
    /\ Event("bootstrap")
    /\ backend' \in BOOLEAN
    /\ lock' \in IF backend' THEN BOOLEAN ELSE {lock}
    /\ cli' # cli
    /\ RequestRefresh
    /\ UNCHANGED <<operations, world, project, changed, quitting>>

-----------------------------------------------------------------------------
(* Quitting.                                                               *)

Terminate ==
    /\ quitting = "no"
    /\ Event("quit")
    /\ quitting' = "terminating"
    /\ changed' = FALSE
    /\ UNCHANGED <<operations, world, cli, refresh, project>>

CancelAll ==
    /\ quitting = "terminating"
    /\ quitting' = "draining"
    /\ queue' = {q \in queue : state[q] # "queued"}
    /\ state' = [q \in Requests |-> IF q \in queue' THEN state[q] ELSE "idle"]
    /\ turn' = [q \in Requests |-> IF q \in queue' THEN turn[q] ELSE 0]
    /\ stopped' = {q \in queue : state[q] = "running"}
    /\ UNCHANGED <<unlocked, rows, world, cli, refresh, project, changed, bounds>>

Drained ==
    /\ quitting = "draining"
    /\ queue = {}
    /\ quitting' = "drained"
    /\ UNCHANGED <<operations, world, cli, refresh, project, changed, bounds>>

\* What happens to an operation and to a refresh without further requests.
Work(q) ==
    \/ Operate(q) \/ PruneEnds(q) \/ Complete(q)
    \/ \E f \in Features : PruneRow(q, f)

Pass == BeginPass \/ List \/ EndPass

Next ==
    \/ \E q \in Requests :
          \/ Dispatch(q) \/ Work(q) \/ Cancel(q)
    \/ Pass \/ Toggle
    \/ \E f \in Features : Terminal(f)
    \/ RegistryChanged \/ Rebootstrap
    \/ Terminate \/ CancelAll \/ Drained

Spec == Init /\ [][Next]_vars

\* The main actor serves every task, every command ends, and file events are told.
Fairness ==
    /\ \A q \in Requests : WF_vars(Work(q))
    /\ WF_vars(Pass) /\ WF_vars(RegistryChanged) /\ WF_vars(CancelAll)

FairSpec == Spec /\ Fairness

-----------------------------------------------------------------------------

Statuses == {"none", "active", "removed"}

(* The types of all variables, and that just the entries of the queue have a     *)
(* state, and those that have begun a command line, and may be stopped.          *)
TypeOK ==
    /\ queue = {q \in Requests : state[q] # "idle"}
    /\ turn \in [Requests -> 0..dispatched]
    /\ state \in [Requests -> {"idle", "queued", "running", "ended"}]
    /\ stopped \subseteq {q \in queue : state[q] # "queued"}
    /\ unlocked \subseteq {q \in queue : state[q] # "queued"}
    /\ rows \subseteq Features
    /\ world \in [Features -> Statuses]
    /\ backend \in BOOLEAN /\ lock \in BOOLEAN
    /\ loop \in {"none", "starting", "listing", "listed"}
    /\ pass \in [generation : 0..generation, include : BOOLEAN,
                 listing : [Features -> Statuses] \union {NotListed, Failed}]
    /\ rerun \in BOOLEAN /\ includeRemoved \in BOOLEAN
    /\ generation \in 0..MaxEvents
    /\ shown \in [Features -> Statuses]
    /\ loadState \in {"loaded", "failed"}
    /\ watching \in BOOLEAN /\ changed \in BOOLEAN
    /\ quitting \in {"no", "terminating", "draining", "drained"}
    /\ scenario \in Scenarios
    /\ dispatched \in 0..scenario.dispatches
    /\ events \in 0..MaxEvents

Running == {q \in queue : state[q] # "queued"}

(* The operations that run together: one mutation of a feature, project-wide ones *)
(* alone in their project, and no registry writer that began, on a command line   *)
(* that does not lock the registry, while an earlier writer was unfinished.  It   *)
(* must survive cancellations, command lines that come and go, and upgrades and   *)
(* downgrades while operations wait and run.                                      *)
NoConflictRuns ==
    \A q, r \in {e \in Running : IsMutating(Kind[e])} :
        q # r /\ Project[q] = Project[r]
            => /\ ~IsProjectWide(Kind[q])
               /\ ~SameFeature(q, r)
               /\ WritesRegistry(Kind[q]) /\ WritesRegistry(Kind[r]) /\ turn[q] < turn[r]
                      => r \notin unlocked

(* A registry writer on a command line that does not lock the registry runs       *)
(* beside no other writer of its project, as the comment on MutationQueue has it. *)
(* This fails: after an upgrade the next writer begins beside it                  *)
(* (OperationStore.swift:138), and no run claims it.                              *)
UnlockedWriterAlone ==
    \A q, r \in {e \in Running : WritesRegistry(Kind[e])} :
        q # r /\ Project[q] = Project[r] => q \notin unlocked

(* A branch or a stray worktree is deleted by at most one unfinished operation.  *)
OneHolder ==
    \A q, r \in queue : q # r /\ IsMutating(Kind[q]) /\ IsMutating(Kind[r])
                            => Keys[q] \intersect Keys[r] = {}

(* A listing made for one setting of includeRemoved is never shown for the other *)
(* one: what is shown changes only to what a pass of the setting found.          *)
ShownAsAsked == [][shown' = shown \/ pass.include = includeRemoved]_vars

(* Every operation gets finished, dropped or stopped, so the queue empties after  *)
(* the last request: none waits for ever for a record that is gone.              *)
EveryOperationEnds == []<>(queue = {})

(* What is shown comes to agree with the registry, or the app says that its last *)
(* listing failed, although a listing may be older than the operation that asked *)
(* for it; until the app quits.                                                  *)
ShownConverges == <>[](quitting = "no" => shown = View(includeRemoved) \/ loadState = "failed")

=============================================================================
