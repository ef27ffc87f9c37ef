# BranchBox: models, checks and proofs

BranchBox gives every feature of a project its own git worktree, branch, runtime (devcontainer, Docker
sandbox, local VM or in-guest), environment and tunnel, keeps a registry of the features in
`.branchbox/registry.json`, and has an agent that reports what happens to a control plane. This directory
holds TLA+ models of its core, the TLC configurations that check them on small instances, and proofs that
TLAPS checks for every instance.

    tlc -config RegistryStore.cfg MCRegistryStore.tla      # a run; the others are in PROJECT.json
    tlapm RegistryStoreProofs.tla                          # a module of proofs

`PROJECT.json` maps every definition to the lines it models, lists the runs, the theorems, the hazards of the
code with the properties that cover them, the disagreements found between the code and its documentation, and,
for every property, a slip in the code that would break it. Those slips stand beside the definitions they
spoil, marked `Slip:`; no specification uses them.

## 1. The system

Paths are relative to `src/`; `feature.rs` is `core/src/workflows/feature.rs`.

| Part | State it keeps | Operations | Hard behaviour | What makes it correct |
|---|---|---|---|---|
| Registry storage (`core/src/atomic_fs.rs`, `FeatureStateStore` in `feature.rs`) | `registry.json`, the older `feature.json`, `registry.lock`, temporary files | `mutate`, `load_registry`, `write_atomic`, the sweep of stale files | processes beside each other, death, I/O errors and power loss at each step, file systems without locks, readers without locks, migration | no update is lost, no file is torn, an answer "ok" is durable, every call returns |
| Registry operations (`feature.rs` 7622-7793) | an entry per feature: status, setup marker, runtime, tunnel, sync | `record_setup_started`, `record_setup_runtime`, `discard_setup`, `record_start`, `record_teardown`, `update_feature`, `record_devcontainer_sync` | each decides by what it finds under the lock, not by what its caller saw | an entry keeps what others need to find and undo |
| Feature start (`FeatureWorkflow::start`) | worktree, branch, runtime, the write-ahead entry | about a dozen steps, each of which may fail or be the last of a dying process | partial failure, interrupted setup, starts beside each other | what a start leaves behind stays listed and can be torn down |
| Feature teardown (`teardown_with_options`, `workflows/teardown_plan.rs`) | the same | plan, tunnel, modules, spec, runtime, recheck, worktree, prune, branch, record | decisions taken on an old look; failure half way; the user at work meanwhile | no work is lost without consent; nothing is recorded as removed that is still there |
| Stash transfer (`capture_stash`, `apply_stash_to_worktree`) | git's stash, shared by all worktrees | push, list, pop | a stash named by its place; failure between push and pop | no change vanishes; each worktree gets its own |
| Git worktrees (`core/src/git.rs`) | worktrees, branches, the repository's administrative lock | create, attach, remove, prune, delete branch | a reentrant lock across processes, git's own refusals | no branch is reset or deleted that holds work |
| Runtime providers (`core/src/runtime/`) | containers, sandboxes, VMs, in-guest manifests, credential generations | prepare, start, destroy, exec | a runtime outlives its caller; cleanup that cannot be verified | every runtime can be found and destroyed |
| Worktree files (`prepare_env`, specs and editor settings in `feature.rs`, `core/src/modules/devcontainer.rs`) | generated files in the worktree, the sync's baseline | start, sync, the classification of changes | files that BranchBox and the user both write; links into the main worktree | a teardown takes no work of the user's for a generated file; a sync changes what its policy allows |
| In-guest runs (`core/src/runtime/in_guest.rs`) | Docker objects, lease materializations, private Compose stage, ledger, provider state | prepare, start, exec, destroy | commands that fail in the middle of a destroy, retries | what is left can be found, and is reported; the secrets go; other projects' containers stay |
| Tool requests (`dispatch_tool_request`) | spool in a volume, replay ledger on the host | stage, claim, relay, record, answer | dispatchers that die between two files, lost answers, retries | executed once where replay is denied; one payload and one answer for a request |
| Modules (`core/src/modules/`) | Compose projects, databases | setup, teardown | forced policies, foreign Compose projects | only the feature's own resources are removed |
| Tunnels (`tunnel_open` and `tunnel_remove` in `feature.rs`, `core/src/tunnel/`, `core/src/cloudflare.rs`) | the tunnel at the provider, found by its name; tunnel state in the registry; two token files | open, remove, and the parts of start and teardown | a provider that fails between two calls; a start that rolls back; opens beside each other | no tunnel is left at the provider in silence; an active tunnel's connector has its token |
| Agent events (`agent/src/state.rs`, `runtime.rs`, `control_plane.rs`) | SQLite: events, batch counter, acknowledgement | queue, dequeue, send, mark, acknowledge, reconcile | lost and partial answers, death between statements, backoff | every event is delivered, in order; none is dropped |
| Agent IPC and gRPC (`agent/src/ipc.rs`, `grpc.rs`, `ops.rs`) | the table of worktrees | start, teardown, list for the apps | recording after the fact, heartbeats beside teardowns | the reports converge to the registry |
| Config and credentials (`core/src/config.rs`, `config_edit.rs`, `credentials.rs`) | JSON files kept with the same lock and atomic write | load, edit, save | as the registry storage | as the registry storage |
| Command line (`cli/src/`) | none | parse, confirm, run | calls beside each other | nothing is lost without a confirmation |
| Mac app (`macos/Sources/BranchBoxStores/`) | a queue of operations, what is shown of each project | dispatch, cancel, quit, refresh | operations that wait for others, a command line that goes or is upgraded, listings older than what asked for them | no two conflicting operations run; each ends; what is shown agrees with the registry at last |
| Project setup, adapters, templates, doctor, naming, validation | files they generate | generate, detect, check | sequential | no concurrency of its own |

How they interact: the command line and the agent call `FeatureWorkflow`, in processes of their own (the agent
runs many calls in one process). Calls on the same project meet in four places only: the registry file (under
its lock), git (under the repository lock while a worktree is made or removed, and not otherwise), the stash
(no lock), and the runtimes (no lock). Nothing locks a feature for the length of a start or a teardown. The agent's
loop, its IPC handlers and its heartbeat meet in SQLite.

## 2. The modules

| Module | Models | Role |
|---|---|---|
| `AtomicRegistry` | the promise of `FeatureStateStore` | abstract: one atomic, durable document |
| `RegistryStore` | `mutate`, `lock_state_dir`, `write_atomic`, `load_registry` | the protocol, for any documents; implements `AtomicRegistry` |
| `RegistryReaders` | the same with a history of what a reader may be answered | extends `RegistryStore` |
| `RegistryOps` | the closures given to `mutate` | operators on a registry; used by the two modules below |
| `MCRegistryStore`, `MCRegistryReaders` | | instances of the protocol with the documents and changes of `RegistryOps` |
| `RegistryStoreProofs` | | proofs about `RegistryStore` and `RegistryReaders` |
| `FeatureLifecycle` | `start`, `teardown_with_options` | worktree, branch, runtimes and entry of one feature; composes `RegistryOps` |
| `MCFeatureLifecycle` | the requests the CLI and the agent make | instances |
| `FeatureLifecycleProofs` | | proofs about `FeatureLifecycle` |
| `StashTransfer` | `capture_stash`, `apply_stash_to_worktree` | starts of several features and git's stash |
| `TunnelState` | `tunnel_open`, `tunnel_remove`, the tunnel part of starts and teardowns | the tunnel of one feature |
| `TunnelStateProofs` | | proofs about `TunnelState` |
| `EventCursor` | "drain failures leave events queued" | abstract: numbered events and one cursor |
| `AgentDrain` | the agent's queue, event loop, restart | implements `EventCursor` |
| `AgentReports` | the agent's handlers, table of worktrees, heartbeat, shutdown | what the agent tells of features, beside what the registry says |
| `AgentProofs` | | proofs about `AgentDrain` and `AgentReports` |
| `TeardownPlan` | `classify_changes`, `build_teardown_plan`, `recheck_before_removal` | pure operators on a view of a worktree |
| `WorktreeFiles`, `MCWorktreeFiles` | what starts, syncs, the user and git do to a worktree's files | reaches the views that `TeardownPlan` decides about |
| `InGuestRuntime` | `InGuestRuntimeProvider` from `prepare` to `destroy`, with the start and teardown around it | one managed run |
| `ToolReplay` | `dispatch_tool_request` | one request id |
| `AppOperations`, `MCAppOperations` | `ActionDispatcher`, `OperationStore`, `MutationQueue`, `ProjectStore` | the app's operations and refreshes |
| `UserWorkProofs` | | proofs about `StashTransfer` and `WorktreeFiles` with `TeardownPlan` |
| `InGuestRuntimeProofs`, `ToolReplayProofs`, `AppOperationsProofs` | | proofs about the modules they are named after |

A module with proofs about two others extends both, so the definitions of `AgentReports` and of `StashTransfer` that every module has are named after them: `SpecReports`, `ReportsTypeOK`, `SpecStash`, `StashTypeOK`.

### RegistryStore

A writer takes the steps of `mutate` in the order of the code, each its own action: lock (polling, until
`LOCK_TIMEOUT`), load and change, create the temporary file, fsync it, rename it, sync the directory, sweep
old temporary files, remove `feature.json`, unlock. `file` is what processes see, `disk` what a power loss would leave:
`WriteBack` says that the file system may write a directory back at any time, `SyncDir` that it must. A file
carries a flag for whether its data was fsynced; a power loss turns one that was not into `Torn`. `Crash` kills one
process and frees its lock, `IoError` fails any step, `PowerLoss` stops the machine. The sweep removes *any* subset of
the temporary files, because age is no obstacle to a process that was suspended for an hour. `Apply` is a parameter:
the document a change makes, or `Rejected`. The load is one step because the loader has the lock; where locks are
not supported that is only exact without a `feature.json` (`LegacyDoc = NoDoc`), which is what that run uses.

Left out: file modes, the refusal of symbolic links, JSON. The lock is reentrant in a thread
(`HELD_LOCKS`); no registry change nests another, so the model needs no count.

### FeatureLifecycle

One feature, several processes. `worktree` and `branch` keep what decisions read of git, `alive` the
kinds of runtime that exist, `registry` the document of `RegistryOps`, `job[p]` the local variables
of the call that process `p` is in. One action is what the code does under one lock or with one command; changes of the registry are one
step because `RegistryStore` implements `AtomicRegistry`. What a call reads without a lock at its beginning (`start`'s checks,
`build_teardown_plan`) is one step. Whatever can fail has a second action or a disjunct for it; "best effort" in the code is a
disjunct that leaves the state alone. `Crash` ends a call between any two steps, except in the agent (`Agents`), whose
process outlives its calls. The user edits, commits, merges and brings devcontainers up.

Abstractions: a refused call changes nothing and is no step; a process id is not used again while a marker carries it; the rule that
calls a marker stale after 24 hours is left out; the local VM behaves as the container provider does in `start`; an in-guest teardown without an entry
finds its identity in the provider's state; the project has a devcontainer (without one, a module that fails does not stop the removal).
Left out: tunnels (they are in `TunnelState`), the files themselves (in `WorktreeFiles`), locked worktrees and an unreadable status (both refuse), the repository workspace
mode of in-guest features. A `scenario` says which requests a behaviour makes, which process is the agent, which calls may overlap, and whether the branch exists remotely.

### StashTransfer

Each feature is started once. A change made in the main checkout is a member of `Changes`; a stash entry is the set of changes it holds,
the newest first, and stands for its own oid (every change is made once, so no two entries are equal). Each git command of
`capture_stash` is a step that may fail; a failed one makes the start warn and go on. The status shows the excluded files, the push
leaves them out. A pop either moves the whole entry or, on a conflict, keeps it.

### TunnelState

The tunnel of one feature in all the places that may disagree about it: `live` (what Cloudflare has under the feature's name), `dns`, `entry`
(the registry: status and descriptor), `store` (the token file under `.branchbox/secure/tunnels`) and `env` (the worktree's `.cloudflared.env`). A token
is the id of the tunnel it belongs to. Each call to Cloudflare, each file and each registry change is a step. `job[p]` holds what `tunnel_open` or `start`
carries from one to the next: the provider's descriptor, the token that only a *creation* returns, and the status to record.
`told` is a history: the tunnels that were there when a command warned about the provider or the descriptor.

A *weather* is the set of calls that may fail in a behaviour, with `"overlap"` if provisioning commands may run beside each other (removals are always alone).
The weathers are a parameter because the properties hold for some combinations of faults only. A call that fails has one of the effects the code lets it have: a
provider error becomes manual instructions (`ProviderFails`), a file that cannot be written keeps the tunnel pending.

Assumed of Cloudflare: it refuses a second tunnel of one name, and a deletion succeeds. Left out: deaths, `CLOUDFLARE_TUNNEL_TOKEN` (which passes by the provider),
skipped modules and missing credentials (which record a disabled tunnel), starts that keep their runtime on failure, changes of the hostname.

### AgentDrain

`last`, `delivered`, `ack` and `nextBatch` are the columns of the tables `events` and `control_plane_status` that decisions
read (event ids are an AUTOINCREMENT key and no event is ever deleted). `pc` walks through one tick of the event loop; `reported` is what the
control plane has taken, or the log in log-only mode. The control plane takes a prefix of the batch and acknowledges it; the answer may
get lost after the batch was taken. `mark_events_delivered` and `update_control_plane_ack` are two statements, either may fail, and the agent may die between
them; `Restart` reconciles the flags with the acknowledgement. A reconciliation that fails ends the agent, which is then still down. With `Truncation`
the body of a success may break off, which the code reads as an acknowledgement of the whole batch.

### AgentReports

A handler operates first (`ops::start_feature`, `ops::teardown_feature`) and then records what was done in two statements, a row and an event, under the mutex of
one SQLite connection; the heartbeat reads the rows with one call and inserts them as an event with another. `status` is the registry, `table` the rows, `reported` what somebody
who reads the events in order knows of each feature. Shutdown does not await connections, but blocking tasks that have begun end before the process does; a recording
that is due while the runtime ends is not made any more (`Proceed`). A forced teardown of a feature without an entry succeeds and is recorded like any other, so a row may call a feature removed that the
registry never had; `TableCurrent` allows that (`Agrees`) and nothing else. `unrecorded` is a history of the features whose last change was not recorded: made by the command line,
with a failed statement, or by a forced teardown that could not remove the worktree, which is recorded as removed all the same.

### TeardownPlan and WorktreeFiles

`TeardownPlan` has one path for each rule of `classify_changes` and no variables: a *view* gives each path's contents at `HEAD`, in the index, on disk and in the main
worktree, and the recorded baseline. A content is what the rules tell apart: whose text it is (`own`) and the state of the part that BranchBox writes (`block`). A block
is "mixed" if the user has added a line or a task of her own to it, and "edited" if she has changed what no rule compares: the values of the managed variables and settings, comments in the settings, what the feature-URL task runs. The rules compare keys and labels only, and
take both "ours" and "edited" for generated (`PassesForOurs`); of `tasks.json` they look at nothing but the labels, so what is beside the tasks (`own`) does not count either. `Status` makes the entries
that `git status` prints and `Before` orders them, because only the first `MAX_CLASSIFIED_ENTRIES` are classified (`Listed`). Left out: conflicts and unsafe paths (always the user's), unreadable files.

`WorktreeFiles` reaches the views: a start writes the spec, `.env`, its link in `.devcontainer`, the synced files, their settings, the baseline and the editor's files, a step each; a sync does the part
in the middle. The user edits, removes, stages, untracks and commits files of a small `focus`, and changes the main worktree. Left out: files that git ignores (a teardown does not look
at them), edits while BranchBox writes (`EditsAnytime`, which records a baseline of what was never synced), directories.

`Work` is text of the user's that would be gone with the worktree: on disk, and neither committed nor in the main worktree; in `.env` and `tasks.json` also the lines and tasks that she has added to what BranchBox wrote. `PlanKeepsWork` and `RecheckKeepsTracked` promise that
a teardown without consent keeps it. `ValueWork` is the rest: what she has changed inside BranchBox's own lines, settings and task, and beside the task. The rules do not see it, and `PlanKeepsValues`, which would promise to keep it, is in no run because it fails (section 5).

### InGuestRuntime

One assignment, started once. `docker` is the set of objects of its Compose project that exist, and of two foreign containers, one with the same worktree's label and one with the port
proxy's name. The labels are constants, so that "owned" is computed as `discover_owned_docker_identity` does. The files on the guest are a flag each. `Find` to `Forget` are the steps of `destroy`; any command
may fail (`Faulty`, up to `MaxFaults`) and the process may die between two steps. Every teardown of an in-guest feature is forced, because `require_forced_in_guest_teardown` refuses the others: whatever its destroy reports (`Report`), it goes on to remove the worktree and to
list the feature as removed (`Finish`), and either may fail with a warning. So what a destroy has left is found by the provider state alone, which is kept until nothing is left. A teardown is called again as long as something is: that is the user's to do, and the
documentation has cleanup retried while provider state is retained (`docs/features/in-progress/in-guest-devcontainer-provider.md:166`).

### ToolReplay

One request id, its three files in the spool, its three in the ledger, and any number of dispatchers. Each action is one command or one system call. A record is linked, unlinked from its staging
name and synced in three steps; `synced` is what a power loss would leave of the directory. The response script runs in the container, so it may outlive its dispatcher (`orphan`) and meet the next one's. The endpoint
executes and may lose its answer; behind an exact-replay lease it deduplicates, which is what the lease requires of it. The scripts that read and remove files run in the container as well and may outlive their dispatcher; the model lets them end with it.

### AppOperations

The state of the app's stores is confined to the main actor, so an action is what runs between two awaits. `queue`, `turn` and `state` are `MutationQueue.entries` with the records' states; one action
completes a record, removes it, starts what waits for nothing any more (`Schedule`) and requests a refresh. A refresh is a loop of passes: `rerun` asks for another one, `generation` discards a listing that was asked for
under another setting. `world` is the registry, which commands in a terminal change too, and the watcher tells of file events later. `Rebootstrap` finds or loses the command line, or finds another version, later or older. A record that runs keeps the command line it was started with: `unlocked` has those
that began on one without the capability `registry-lock`, while what waits is judged by the one found last (`RegistryLock`). A finished record refreshes its own project, of which `Listed` is the one whose listing is modelled.

## 3. The runs

| Run | Instance | Shows |
|---|---|---|
| `RegistryStore` | 2 writers, the changes of a start, a teardown and a sync on 2 features, a `feature.json` at the beginning, 1 poll; `FairSpec` | the sweep spares live files, no lost update, `AtomicRegistry` is implemented, every call returns |
| `RegistryUnlocked` | 2 writers and 1 reader, no locks, no `feature.json` | the file is never torn, the reader is answered with a document that was current during its load |
| `Lifecycle` | 2 processes; one call at a time with sandbox and in-guest starts and all CLI and agent teardowns, or container and in-guest starts of the agent and another process beside each other | `RecordedWorktreeListed`, `RuntimeFindable`, `WorkKept`, `CommitsKept`, `TeardownVerified` |
| `StashTransfer` | 2 starts one after the other, 3 changes, one of them to an excluded file | nothing vanishes, each worktree gets its own changes, what is not delivered is announced |
| `AgentDrain` | 4 events, batches of 2, 4 batch ids, 2 deaths, both modes; `FairSpec` | types, nothing lost, in order, fresh ids, `EventCursor` is implemented, every event is delivered |
| `TunnelState` | 2 processes, 3 tunnel ids, 3 weathers | types, `NoSilentLeak`, `ConnectorOwn` |
| `ToolReplay` | 2 dispatchers, 3 payloads, one of them invalid, 2 submissions, a lost answer, 2 deaths, a power loss, both policies | at most one execution where replay is denied, one payload, one answer, no request lost, liveness under replay |
| `InGuestRuntime` | 3 faults among all commands and deaths | what is left is findable, reports are true, foreign containers stay, everything is erased at last |
| `WorktreeFiles` | a start, another start or sync, 4 changes of the user's, 7 sets of files to work on | a plan that proceeds loses no `Work`, nor does the last check; syncs leave the main worktree alone |
| `WorktreeFilesSync` | the same with 3 changes, the strategy may change | *violated*: the finding in section 5 |
| `AgentReports` | 2 handlers, 2 features, 4 calls, 1 end of the agent, with and without overlapping calls; `FairSpecReports` | the table agrees with the registry, the events follow the table |
| `AppOperations` | 8 requests of 2 projects in 3 scenarios, 2 or 3 dispatches, 2 events; `FairSpec` | no conflicting operations run, every one ends, what is shown converges |

`TypeOK` is in the runs of `AgentDrain` and `TunnelState`, where it says something of a counter and of recorded descriptors, and is proved wherever a module has proofs. That of `FeatureLifecycle` and
of `WorktreeFiles`, and `PolicyKeeps` (a start under a preserving policy changes no file that is not as the last sync left it), hold when they are added to the configurations of their runs.

### Bounds, and why they are enough

* **Processes.** Every race in these protocols is between a reader or writer and one other; two processes make each pair, and a crash turns
  one of them into a third. The registry's theorems hold for any number.
* **`PollLimit = 1`.** A writer that waits at all and one that has waited to the end are the two cases.
* **Documents.** Two features and two runtimes let two changes be of the same entry, of different ones, or rejected.
* **Scenarios** of `Lifecycle`: what holds is checked for as much overlap as it holds for; `MCRace` and `MCProviders` allow one step more (section 5).
* **`DevcontainerUp`** does not happen while a teardown that has stopped the devcontainer is removing the worktree.
* **`StashTransfer`**: the user stashes only while no start runs (one that stashes during a start meets what section 5 says of `Beside = TRUE`); two entries left on the stash and one of the
  start's own are the deepest stash that the three changes make.
* **`AgentDrain`**: 4 events in batches of 2 make a full batch, a part of one, and a next one; 4 batch ids let the counter reach its maximum; 2 deaths let
  a restart be followed by another. The system stops when the bounds are used up and everything is delivered, so deadlock is not checked.
  The same holds of `StashTransfer`, where every feature is started once.
* **`TunnelState`**: a tunnel of today, its predecessor and one of a second command make three ids; ids that are used up stop the system, so deadlock is not
  checked. The three weathers are the largest sets of faults for which both properties hold: any more would make one of the six pairs of section 4.
* **`ToolReplay`**: two dispatchers are one that works and one that waits or takes over; two submissions let the consumer ask again, or something else; two deaths let a dispatcher that recovers die as well.
* **`InGuestRuntime`**: three faults let a start fail, its destroy fail, and the next teardown fail; each fault may leave any subset of the objects. The run stops once all is gone, so deadlock is not checked.
* **`WorktreeFiles`**: the rules read one path each, and at most one other (`.env` for the link in `.devcontainer`), so the sets of files under work are small; three changes make "edited, staged, edited back" and "edited, committed,
  changed in main", four let the user go on with the block of a file she has committed. `MaxEntries = 8` is below the number of paths, so that the list is cut in some states.
* **`AgentReports`**: four calls let two handlers overlap twice, or the command line come between; a second end of the agent repeats the first.
* **`AppOperations`**: three dispatches make a queue in which one waits for another that waits; each pair of kinds that the conflict rules tell apart is in a scenario. Without requests the app rests, so deadlock is not checked.

### Fairness

`RegistryStore`: weak fairness of each running writer's next step, which is what an operating system's scheduler gives a process that is not dead (`Crash` is not
fair). No fairness of the lock is assumed: the polling loop is bounded by the clock, and `EveryCallReturns` holds though others may take the
lock again and again.

`AgentDrain`: weak fairness of the loop (a `tokio` interval), of the backoff (a timer) and of the restart (the service manager).
Strong fairness of the allocation of a batch id, of a complete answer, of marking it and of marking a logged batch: the loop retries for ever, and
a database or a control plane that fails from some moment on for ever would of course deliver nothing. It is strong because attempts may fail in
between; that of a *complete* answer is needed because answers to a batch may be partial.

`ToolReplay`: weak fairness of each dispatcher, whose next attempt is a step as well: `run_dispatch_tool` retries while it waits, and an unanswered consumer's host calls it again. Nothing is assumed of the endpoint; it may
lose an answer, `MaxLosses` times.

`InGuestRuntime`: weak fairness of the steps of what has begun (a process that has not died goes on), strong fairness of the call of a teardown; it is strong because another call may be under way. The code calls none again:
`EventuallyErased` is about users who repeat the forced teardown while provider state is retained, as the documentation has it, and says that the repetition does find and erase what is left, with the worktree gone and the feature listed as removed.

`AgentReports`: weak fairness of handlers, the heartbeat's timer, shutdown and restart, as for `AgentDrain`; strong fairness of the insertion of a heartbeat, which may fail now and then but not for ever.

`AppOperations`: weak fairness of each operation's next step (commands end), of the pass under way, of a pending file event and of the task that quits. Nothing is assumed of the user.

No liveness is claimed of starts and teardowns: a command that dies is not run again by anything.

## 4. What is proved

Every invariant and every other safety property of a passing run is a theorem, for every value of the constants but for the hypotheses named here. Liveness is not (see the end of this section).

`RegistryStoreProofs`, from the module's assumption, for any sets of processes, readers, documents and changes:

* `TypeCorrectness` and `TornNever`, with locks and without;
* `SweepSparesLiveTemp` and `UpdatesNeverLost`, with locks (`LockSupported`);
* `Refinement`, with locks: `Spec => Atomic!Spec`, the refinement that the run `RegistryStore` checks on a small instance;
* `ReadersAnswered`, without a `feature.json` to move over (`LegacyDoc = NoDoc`): a lock-free reader is answered with a document that was the registry during its load.

With locks they follow from one inductive invariant `IInv`, a conjunction of `TypeOK` and
`LockInv` (whoever is in the critical section holds the lock, and the reverse), `CallInv` (a call under way has a change), `LoadedInv`
(the document a writer is about to install is its change *of the document that is still current*), `TempInv` (its temporary file holds just that, fsynced before
the rename), `FileInv` (both the visible file and what the disk has are whole, and `feature.json` is gone only when `registry.json` is durable) and
`LandedInv` (after the rename the file is there, after the sync the disk has it). None of the properties is inductive alone: the sweep spares live files only because of `LockInv` and
`TempInv`; no update is lost because of `LockInv` and `LoadedInv`; the answer "ok" is durable because of `LandedInv`. One lemma per action shows that `IInv` is
preserved; the lemma for `Step` collects them. Without `LockSupported` the theorems on lost updates and the sweep are false, and the code says so in a warning. What is left of the invariant then is `FreeInv` (what is
renamed was fsynced, and both files are), which is enough for `TornNever`, and with what a reader has seen so far (`LoadInv`) for `ReadersAnswered`.

`FeatureLifecycleProofs`, from the module's assumption, for any processes and scenarios:

* `Types` and `CommitsNeverReset`, whatever runs beside each other;
* `RecordedListed` and `UncommittedWorkKept`, where no teardown runs beside another call of the feature (`TeardownsAlone`);
* `SandboxFindable` and `RemovalVerified`, where besides a feature with a sandbox is started with no other provider (`OneProvider`; in-guest starts at another time are allowed).

The code enforces neither hypothesis. Section 5 says what happens without them, and `MCRace` and `MCProviders` are the scenarios that refute the properties; with them the theorems say that nothing else is needed, neither of the number of calls, nor of deaths and failures.
`CallInv` types the calls and says which request and runtime each step is of, `AloneInv` what a scenario lets run together. `RecordedInv`: a worktree that is written ahead is listed, and no step that is about to discard an entry finds its own marker there.
`WorkInv` and `CommitInv` say what the steps that remove or reset something were asked for and have seen before. `FindInv`: the sandbox that may be there is in the entry, or in the call that will write it. `GoneInv`: an unforced teardown that
goes on has already made sure of each thing it will record as gone.

`AgentProofs`; of `AgentDrain`, for any number of events, batch size, batch ids, deaths and modes:

* `TypeCorrectness`, `OrderKept` and `BatchIdsNeverReused`, with or without truncated answers;
* `NoEventLost` and `CursorImplemented` (`Spec => Cursor!Spec`) without them.

Its invariant says that what is delivered is always a prefix `1..d`, that a dequeued batch is the next stretch after it (or, after a partial
failure, overlaps with what is already marked), that the answer is in the batch, and that what is marked or acknowledged has been reported.

Of `AgentReports`, for any connections, features, calls and deaths: `TableTypes` and `TableFollows`, which says that the table agrees with the registry but for the removed rows of features without an entry. Its invariant: without overlapping calls no two handlers are at one feature, and the outcome that a handler is about to record is still
what the registry says.

`TunnelStateProofs`, from the module's assumption; for any processes, tunnels and weathers

* `TunnelTypes` and `NoLeakInSilence`, under `FaultsApart`: a weather in which the runtime may fail has neither `overlap` nor failures between the creation of a tunnel and its record;
* `ConnectorsOwn`, under `CommandsApart` too: a weather with `overlap` has no failure of the configuration, the token store or the connector's file.

`NoSilentLeak` speaks of moments at which no command runs. Its invariant says of every moment who answers for a live tunnel (`CoverInv`): the entry, a warning, or a
command that carries its descriptor or is going to warn. That needs: there is one live tunnel of the name (`OneInv`), what a provisioning command carries is live or nothing
(`HeldInv`), a removal runs alone and removes what is recorded (`AloneInv`, `RemovalInv`). `FaultsApart` is needed: a start that fails at the runtime drops the warnings
it has collected, and TLC finds the leak when both faults are allowed.

`ConnectorOwn` relates the entry to a file that other steps write. Its invariant `ConnectorInv` says of each file who is still going to write or to clear it: the store has the token of the live tunnel, or the command that made the tunnel
will store it (`StoreInv`); the connector's file has that of the tunnel listed as online, or its maker will write it, a removal clears it, or the command that could not write it will record the tunnel as pending (`EnvInv`). Where commands come one by one and the
runtime does not fail, no file outlives its tunnel (`SpareInv`), so a creation that fails half-way leaves no older token to take for its own. The two hypotheses exclude six pairs of faults, `overlap` with each of `configure`, `token`, `env` and `runtime`, and `runtime` with
`configure` and `token`. Each pair alone makes TLC refute `ConnectorOwn`, so the theorem cannot be had for more, and the run's three weathers are the largest sets without such a pair.

`InGuestRuntimeProofs`, for any number of faults:

* `Types` and `NeighboursStay`, whatever runs in the feature;
* `FindableAlways` and `ReportsTruthful` if nothing runs in the feature beside its teardown (`~Beside`).

The invariant adds to `Findable` that the provider state is there from `devcontainer up` to its removal (`StateInv`), and that from the inspection on the residue contains every kind of object that is left
(`ResidueInv`): a report is made of the residue, so it can only be true if nothing comes into being after the inspection. That is what `~Beside` excludes; with commands beside a teardown TLC refutes both.

`ToolReplayProofs`, for any dispatchers, payloads, answers, submissions, lost answers, deaths and power losses:

* `Types`, `ExecutedAtMostOnce`, `ExecutedOnePayload`, `ToldOneAnswer`, `StagedIsClaimed`, `DoneIsFinal` and `ResponseIsFinal`.

The invariant is in layers. `HolderInv`, `ReplayInv` and `StepInv` say what a dispatcher that holds the attempt lock knows of the ledger at each step. `OnceInv` says that without exact replay an execution was made under a record
that is on disk, synced, and still there: a power loss cannot make room for a second one. `SubjectInv` and `FreshInv` say that all records, on disk or in a dispatcher, are of one payload; `AnswerInv` and
`SilentInv` say the same of the answers, the endpoint's memory included. Both hold under `RecordsLast`, because a dispatcher trusts a record that a dead one linked and did not sync. `StagedInv` says that what is
staged is what the dispatcher read, up to the claim.

`AppOperationsProofs`, for any requests, features, projects and bounds:

* `Types`, `NoConflicts`, `HeldOnce` and `ShowsAsAsked`.

`AheadInv`: what is ahead of a running operation does not conflict with it, for the command line that the running one *began* with. It is preserved because places in the queue are unique, what runs keeps its command line whatever is found later, and a lock only takes conflicts away.
`NoConflicts` therefore says nothing of an earlier writer that began on an older command line: `UnlockedWriterAlone` says it, and fails (section 5).

`UserWorkProofs`; of `StashTransfer`, for any features and changes:

* `Types` and `NothingVanishes`, with starts beside each other too;
* `NothingForeign` and `TakenArrives` with starts one after the other (`~Beside`).

What is stashed is not in the checkout (`ApartInv`), so a push always makes an entry that differs from the one before; and a start's own entry stays on top until it is popped (`Follows`), which is why its place `stash@{0}`
still names it. `Beside = TRUE` refutes just that.

Of `WorktreeFiles` and `TeardownPlan`, for any sets of files to work on, any number of calls and changes, and any limit of the entries listed:

* `FileTypes`, whatever the habits;
* `MainUntouched` with one strategy for all syncs (`~StrategyChanges`; the finding of section 5 is what happens without), also while the user edits;
* `PlanSound` and `RecheckSound`: the decisions of the plan and of the last check keep `Work` and what is staged (not `ValueWork`), for any view in which what the last sync recorded is none of the user's, whether `WorktreeFiles` reaches it or not;
* `PlannedWorkKept` and `RecheckedWorkKept`: the views it reaches are such, with one strategy and without edits during a call (`~EditsAnytime`). TLC refutes both properties without either hypothesis.

The invariant has three parts. Only a sync makes links to the main worktree, and the main worktree has none (`LinksInv`); there are such links only under the strategy that makes them (`StrategyInv`), so no copy is made onto one; and what the last sync recorded is none of the user's
(`MineInv`), because nothing of hers is in what a copying sync copies, nor in what it leaves until it is recorded. From there on it is a fact about the operators, for any view: no rule takes `Work` for generated, which is false of `ValueWork` (`NotGenerated`), so each path with work has an entry whose verdict is "user" (`UserVerdict`), that
entry is among those listed unless the list was cut, which blocks by itself (`AllListed`), and it is no pure deletion unless git no longer tracks the file, which is the exception in `RecheckKeepsTracked`.

Only model-checked: all liveness (`EveryCallReturns`, `EventuallyDelivered`, `EventuallyAnswered`, `EventuallyErased`, `ReportsConverge`, `EveryOperationEnds`, `ShownConverges`), which the prover does not reach.

The modules write a step that changes several fields of one process as `![p] = [@ EXCEPT !.a = ..., !.b = ...]`, and one that changes several places of a function as a function constructor. The SMT translation of this version of tlapm takes `![p].a = ..., ![p].b = ...` for something
stronger than it is, and would prove too much from it; no proof rests on such an expression.

## 5. Where the code and its documentation disagree

`WorktreeFilesSync` (`core/src/modules/devcontainer.rs:310`): a copying sync copies onto the link that an earlier, linking one has left, and so empties the main worktree's own devcontainer files. The comparison with the baseline does not
stop it: `devcontainer sync` has no policy, and a link that is as the last sync left it has not diverged.

The following were seen and have no run of their own; each can be reproduced with a change of a configuration or of a property:

* `WorktreeFiles` with the invariant `PlanKeepsValues`: it fails (`teardown_plan.rs:1237`). A `tasks.json` with one task counts as generated if that has the label of the feature-URL task. After a start the user makes the task run something else, or puts `inputs` or comments of hers beside it,
  and a teardown without `--force` or `--discard-changes` removes the file. The function's comment says that the file "holds exactly one task, the feature-URL task start writes" (line 1236), and `docs/features/in-progress/mac-app-revamp.md:18` that "Teardown never deletes uncommitted user work
  or unmerged commits without an explicit flag". The values in BranchBox's block of `.env` (line 1197) and managed values and comments in `settings.json` (line 1233) go the same way. `mac-app-revamp/DESIGN.md:1599-1600` states the rules as they are coded, by keys and labels.
* `AppOperations` with the invariant `UnlockedWriterAlone`: it fails (`OperationStore.swift:138`). Whether registry writers may run together is asked of the command line that was found last, but what runs goes on with the one it was started with (`ActionDispatcher.swift:165`). A start runs on a command line
  without `registry-lock`, an upgrade is found, and the next writer of the project is started at once beside it; "without the CLI's `registry-lock` capability, registry writers in a project run one at a time, in dispatch order" (`MutationQueue.swift:9-10`). The new one's lock does not keep the old one out.
* `Lifecycle` with `Scenarios <- MCRace`: `RecordedWorktreeListed` fails (`feature.rs:1729`). `record_teardown` does not ask whose entry it changes; a worktree recreated since the removal is listed as removed.
* `Lifecycle` with `Scenarios <- MCProviders`: `RuntimeFindable` fails (`feature.rs:1205`). A start that reuses a worktree with another provider forgets the sandbox that is running; a teardown leaves it.
* `StashTransfer` with `Beside = TRUE`: `OwnChangesOnly` fails (`feature.rs:2919`). The stash to pop is remembered as `stash@{0}`, which names another start's entry if that has stashed since.
* `AgentDrain` with `Truncation = TRUE`: `NothingLost` fails (`control_plane.rs:68`). An unreadable body of a success acknowledges the whole batch.
* `TunnelState` with one process, two ids and the weather `{"configure", "runtime"}`: `ConnectorOwn` fails (`cloudflared.rs:318`). A failed start deletes its tunnel and leaves the token in the store; if the creation of the next tunnel
  stops before the new token is stored, the open after it takes the old token and lists the tunnel as online.
* `ToolReplay` with the invariant `ResponseWhole`: it fails (`in_guest.rs:287`). A script that outlives its dispatcher may meet the next one's temporary file, and commits a part of a response, which no retry replaces.
* `InGuestRuntime` with the property `CleanupCompletes`: it fails (`in_guest.rs:3702`). A `destroy` that has erased the materializations and left something else cannot validate the stage when it is called again, because that needs an
  assignment whose materializations are there; it reports `compose-inputs` for ever, and the provider state stays. The worktree is gone and the feature listed as removed by then, because the teardown is forced and goes on.
* `WorktreeFiles` with `EditsAnytime = TRUE`: `PlanKeepsWork` fails (`devcontainer.rs:492`). The baseline is a digest of what lies in the worktree after the sync, so an edit between the two is recorded as synced, and a teardown removes it
  as generated.
* `WorktreeFiles` with `StrategyChanges = TRUE`: `PlanKeepsWork` fails. An edit through a link is an edit of the main worktree's file; a copying sync brings it back as a copy, whose original may then be edited away.
* `WorktreeFiles` with the invariant `RecheckKeepsWork`: it fails (`teardown_plan.rs:976`). After `git rm --cached` a file is at once a deletion and untracked; the last check tells deletions by their path and does not count the untracked one, so an edit
  after the plan is lost.
* With a `feature.json`, a lock-free reader that looks for `registry.json` before a first write and for `feature.json` after it gets an empty registry or an error, so `ReadersSeeCommitted` is claimed only without one.
* In the agent, the marker of a failed start names a process that lives on, so the list shows it as in progress for up to 24 hours.
* A start onto an existing worktree overwrites the user's `.vscode/tasks.json` and the user's lines in `.env`, and a spec in the main worktree's backlog is overwritten by a teardown; no property claims otherwise.

## 6. What is not modelled, and the plan

Not modelled because sequential, or a translation of formats: project setup, adapters, templates, doctor, naming, validation, output, the parsing of
the command line, the legacy shell scripts. Driven by `docker`'s command line, with little state of its own: the devcontainer runtime.

Left for later, in this order:

1. `TunnelState` with deaths, deletions that fail, skipped modules, removals beside opens, and starts that keep their runtime.
2. `WorktreeAdmin`: git's worktree list and branches under the repository lock of `git.rs`, which is reentrant in a process, with `prune` and repairs beside starts. `FeatureLifecycle` takes each git command as one step.
3. `AgentEnv`: the environment variables that starts and teardowns of the agent's process set for their modules and restore, while other calls run (`feature.rs:542`).
4. The rest of the in-guest runtime: credential generations, the prepared overlay, the repository workspace mode. The Compose clean-up of the modules and its history.
5. The history and the settings of the Mac app, the status columns of the agent, locked worktrees.
6. `AgentReports` composed with `AgentDrain`: that what the control plane has taken at last is what the registry says.

