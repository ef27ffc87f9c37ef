-------------------------- MODULE FeatureLifecycle --------------------------
(***************************************************************************)
(* FeatureWorkflow::start and FeatureWorkflow::teardown_with_options for   *)
(* one feature: the worktree, the branch, the runtimes and the feature's   *)
(* registry entry, changed by calls of several processes, any of which may *)
(* die between two steps.  One step is what the code does under one lock   *)
(* or with one command; what RegistryStore implements, a locked change of  *)
(* the registry, is one step here.                                         *)
(***************************************************************************)
CONSTANTS
    Procs,     \* processes; each one's name is its pid
    Feature,   \* the feature
    Scenarios, \* who calls what beside what; a behaviour is of one of them
    NoPid, NoEntry, Rejected,
    NoRequest, \* no call under way
    Unwritten  \* a start that has not recorded itself

Kinds == {"container", "sbx", "in_guest"}

(* RuntimeMetadata: the provider, and whether it has a runtime_id.         *)
Runtime == [provider : Kinds, named : BOOLEAN]
Bare(kind) == [provider |-> kind, named |-> FALSE]
Sandbox == [provider |-> "sbx", named |-> TRUE]

INSTANCE RegistryOps WITH
    Features <- {Feature}, Pids <- Procs, Runtimes <- Runtime

(* No in-guest start reuses, and only sbx can retain. *)
StartRequest ==
    {r \in [kind : Kinds, reuse : BOOLEAN, keep : BOOLEAN] :
        /\ r.reuse => r.kind # "in_guest"
        /\ r.keep => r.kind = "sbx"}

(* Of deleteBranch: --delete-branch absent, "-d" or "-D". *)
TeardownRequest ==
    [discard : BOOLEAN, force : BOOLEAN, mergeable : BOOLEAN,
     deleteBranch : {"keep", "delete", "force"}]

(* Of a scenario: the processes that outlive their calls (branchbox-agent),*)
(* the requests that callers make, whether a remote has the feature's      *)
(* branch, and the calls that run together.                                *)
ASSUME FeatureLifecycleAssumption ==
    /\ \A s \in Scenarios :
        /\ DOMAIN s = {"agents", "starts", "teardowns", "remoteBranch", "overlap"}
        /\ s.agents \subseteq Procs
        /\ s.starts \subseteq StartRequest
        /\ s.teardowns \subseteq TeardownRequest
        /\ s.remoteBranch \in BOOLEAN
        /\ s.overlap \in {"none", "starts", "all"}
    /\ NoRequest \notin StartRequest \cup TeardownRequest
    /\ NoPid \notin Procs
    /\ NoEntry \notin Entry
    /\ Unwritten \notin Entry \cup {NoEntry}

(* Where a call stands; each name is the step it is about to take. *)
StartSteps ==
    {"create", "writeAhead", "setup", "prepare", "recordRuntime", "environment", "retain",
     "destroyFailed", "clearRuntime", "cleanWorktree", "cleanBranch", "cleanEntry", "recordStart"}
TeardownSteps == {"destroy", "recheck", "remove", "prune", "deleteBranch", "recordTeardown"}

VARIABLES
    scenario, \* never changes
    worktree, \* "absent", "clean" or "dirty" with the user's changes
    branch,   \* "absent", "merged" or "unmerged" (with commits of its own)
    registry, \* the registry document
    alive,    \* the kinds of runtime that exist for the worktree
    pc,       \* [Procs -> "idle" or a step]
    job,      \* [Procs -> what the call has asked, read and done]
    recorded, \* history: the present worktree was recorded by its start
    known     \* history: the registry was told of the present sandbox

vars == <<scenario, worktree, branch, registry, alive, pc, job, recorded, known>>

Job ==
    [request  : StartRequest \cup TeardownRequest \cup {NoRequest},
     existed  : BOOLEAN,                        \* worktree_exists
     previous : Entry \cup {NoEntry, Unwritten}, \* provisional.previous
     runtime  : Runtime,                        \* runtime_metadata
     gone     : BOOLEAN,                        \* worktree_gone
     late     : BOOLEAN] \* history: the user wrote after the call's last look

NoJob ==
    [request |-> NoRequest, existed |-> FALSE, previous |-> Unwritten,
     runtime |-> Bare("container"), gone |-> FALSE, late |-> FALSE]

entry == registry[Feature]
Agents == scenario.agents
Starts == scenario.starts
Teardowns == scenario.teardowns

Init ==
    /\ scenario \in Scenarios
    /\ worktree = "absent"
    /\ branch = "absent"
    /\ registry = EmptyRegistry
    /\ alive = {}
    /\ pc = [p \in Procs |-> "idle"]
    /\ job = [p \in Procs |-> NoJob]
    /\ recorded = FALSE
    /\ known = FALSE

Goto(p, step) == pc' = [pc EXCEPT ![p] = step]
Leave(p) == Goto(p, "idle") /\ job' = [job EXCEPT ![p] = NoJob]

(* Which calls may run beside each other is a bound of the instance.  The  *)
(* pid of a dead process is not used again while its marker is there.      *)
MayBegin(p, steps) ==
    /\ pc[p] = "idle"
    /\ p \in Agents \/ ~ MarkedBy(registry, Feature, p)
    /\ \A q \in Procs \ {p} :
        \/ pc[q] = "idle"
        \/ scenario.overlap = "all"
        \/ scenario.overlap = "starts" /\ steps = StartSteps /\ pc[q] \in StartSteps

(***************************************************************************)
(* feature start.                                                          *)
(***************************************************************************)
(* A call the checks refuse changes nothing and is no step.  A missing     *)
(* worktree of a feature with an entry is recreated from its branch.       *)
StartCheck(p, r) ==
    LET recreate == r.kind # "in_guest" /\ branch # "absent" /\ worktree = "absent"
                        /\ Listed(registry, Feature)
        reuse == r.reuse \/ recreate
    IN  /\ MayBegin(p, StartSteps)
        /\ worktree # "absent" => reuse
        /\ IF reuse THEN branch # "absent" \/ scenario.remoteBranch ELSE branch = "absent"
        /\ branch' = IF reuse /\ branch = "absent" THEN "merged" ELSE branch
        /\ job' = [job EXCEPT ![p] = [NoJob EXCEPT !.request = [r EXCEPT !.reuse = reuse],
                                                   !.existed = worktree # "absent"]]
        /\ Goto(p, "create")
        /\ UNCHANGED <<scenario, worktree, registry, alive, recorded, known>>

(* Under the worktree lock, which looks again for the worktree but not for *)
(* the branch: "worktree add -B" resets one that has appeared.             *)
CreateWorktree(p) ==
    /\ pc[p] = "create"
    /\ IF job[p].existed
       THEN UNCHANGED <<worktree, branch, recorded>>
       ELSE /\ worktree = "absent"
            /\ worktree' = "clean"
            /\ recorded' = FALSE
            /\ IF job[p].request.reuse
               THEN branch # "absent" /\ UNCHANGED branch
               ELSE branch' = "merged"
    /\ Goto(p, "writeAhead")
    /\ UNCHANGED <<scenario, registry, alive, job, known>>

CreateFails(p) ==
    /\ pc[p] = "create"
    /\ ~ job[p].existed
    /\ Leave(p)
    /\ UNCHANGED <<scenario, worktree, branch, registry, alive, recorded, known>>

(* A registry that cannot be changed never stops a start. *)
WriteAhead(p) ==
    /\ pc[p] = "writeAhead"
    /\ \/ /\ registry' = RecordSetupStarted(registry, Feature, p, Bare(job[p].request.kind))
          /\ job' = [job EXCEPT ![p].previous = entry]
          /\ recorded' = (worktree # "absent")
       \/ UNCHANGED <<registry, job, recorded>>
    /\ Goto(p, "setup")
    /\ UNCHANGED <<scenario, worktree, branch, alive, known>>

(* Modules and environment; a new worktree may get the stashed changes of  *)
(* the main checkout.                                                      *)
Setup(p) ==
    /\ pc[p] = "setup"
    /\ \/ UNCHANGED worktree
       \/ /\ worktree = "clean"
          /\ ~ job[p].request.reuse
          /\ job[p].request.kind # "in_guest"
          /\ worktree' = "dirty"
    /\ Goto(p, "prepare")
    /\ UNCHANGED <<scenario, branch, registry, alive, job, recorded, known>>

(* Only an in-guest start takes its worktree back. *)
Abandon(p) ==
    IF job[p].request.kind = "in_guest"
    THEN Goto(p, "cleanWorktree") /\ UNCHANGED job
    ELSE Leave(p)

SetupFails(p) ==
    /\ pc[p] = "setup"
    /\ Abandon(p)
    /\ UNCHANGED <<scenario, worktree, branch, registry, alive, recorded, known>>

(* Only the sbx provider makes its runtime here; its name is a function of *)
(* the feature, so an existing one is woken.                               *)
Prepare(p) ==
    /\ pc[p] = "prepare"
    /\ IF job[p].request.kind = "sbx"
       THEN /\ alive' = alive \cup {"sbx"}
            /\ job' = [job EXCEPT ![p].runtime = Sandbox]
            /\ Goto(p, "recordRuntime")
       ELSE /\ job' = [job EXCEPT ![p].runtime = Bare(job[p].request.kind)]
            /\ Goto(p, "environment")
            /\ UNCHANGED alive
    /\ UNCHANGED <<scenario, worktree, branch, registry, recorded, known>>

(* The removal of a half-made sandbox may fail too. *)
PrepareFails(p) ==
    /\ pc[p] = "prepare"
    /\ job[p].request.kind # "container"
    /\ \/ UNCHANGED alive
       \/ job[p].request.kind = "sbx" /\ alive' = alive \cup {"sbx"}
    /\ Abandon(p)
    /\ UNCHANGED <<scenario, worktree, branch, registry, recorded, known>>

(* record_provisional_runtime: best effort, and only on one's own entry.   *)
RecordProvisional(p, runtime) ==
    \/ /\ job[p].previous # Unwritten
       /\ registry' = RecordSetupRuntime(registry, Feature, p, runtime)
    \/ UNCHANGED registry

RecordRuntime(p) ==
    /\ pc[p] = "recordRuntime"
    /\ RecordProvisional(p, job[p].runtime)
    /\ known' = (known \/ registry' # registry)
    /\ Goto(p, "environment")
    /\ UNCHANGED <<scenario, worktree, branch, alive, job, recorded>>

Environment(p) ==
    /\ pc[p] = "environment"
    /\ alive' = IF job[p].request.kind = "in_guest" THEN alive \cup {"in_guest"} ELSE alive
    /\ Goto(p, "recordStart")
    /\ UNCHANGED <<scenario, worktree, branch, registry, job, recorded, known>>

EnvironmentFails(p) ==
    /\ pc[p] = "environment"
    /\ job[p].request.kind # "container"
    /\ \/ UNCHANGED alive
       \/ job[p].request.kind = "in_guest" /\ alive' = alive \cup {"in_guest"}
    /\ Goto(p, IF job[p].request.keep THEN "retain" ELSE "destroyFailed")
    /\ UNCHANGED <<scenario, worktree, branch, registry, job, recorded, known>>

(* The last change of a start.  Whether or not it succeeds, the call ends. *)
Conclude(p, status) ==
    /\ \/ /\ registry' = RecordStart(registry, Feature, StartEntry(status, NoPid, job[p].runtime))
          /\ known' = (known \/ job[p].runtime = Sandbox)
       \/ UNCHANGED <<registry, known>>
    /\ Leave(p)
    /\ UNCHANGED <<scenario, worktree, branch, alive, recorded>>

Retain(p) == pc[p] = "retain" /\ Conclude(p, "failed_retained")
Started(p) == pc[p] = "recordStart" /\ Conclude(p, "active")

(* The runtime of a start that failed goes, unless that fails as well. *)
DestroyFailed(p) ==
    /\ pc[p] = "destroyFailed"
    /\ \/ /\ alive' = alive \ {job[p].request.kind}
          /\ known' = (known /\ job[p].request.kind # "sbx")
          /\ IF job[p].request.kind = "sbx"
             THEN Goto(p, "clearRuntime") /\ UNCHANGED job
             ELSE Abandon(p)
       \/ /\ Abandon(p)
          /\ UNCHANGED <<alive, known>>
    /\ UNCHANGED <<scenario, worktree, branch, registry, recorded>>

ClearRuntime(p) ==
    /\ pc[p] = "clearRuntime"
    /\ RecordProvisional(p, Bare("sbx"))
    /\ Leave(p)
    /\ UNCHANGED <<scenario, worktree, branch, alive, recorded, known>>

(* cleanup_failed_in_guest_worktree; each step may fail. *)
CleanWorktree(p) ==
    /\ pc[p] = "cleanWorktree"
    /\ \/ worktree' = "absent" /\ recorded' = FALSE
       \/ UNCHANGED <<worktree, recorded>>
    /\ Goto(p, "cleanBranch")
    /\ UNCHANGED <<scenario, branch, registry, alive, job, known>>

(* Git keeps a branch that a worktree has checked out. *)
CleanBranch(p) ==
    /\ pc[p] = "cleanBranch"
    /\ \/ worktree = "absent" /\ branch' = "absent"
       \/ UNCHANGED branch
    /\ IF worktree = "absent"
       THEN Goto(p, "cleanEntry") /\ UNCHANGED job
       ELSE Leave(p)
    /\ UNCHANGED <<scenario, worktree, registry, alive, recorded, known>>

CleanEntry(p) ==
    /\ pc[p] = "cleanEntry"
    /\ \/ /\ job[p].previous # Unwritten
          /\ registry' = DiscardSetup(registry, Feature, p, job[p].previous)
       \/ UNCHANGED registry
    /\ Leave(p)
    /\ UNCHANGED <<scenario, worktree, branch, alive, recorded, known>>

StartStep(p) ==
    \/ CreateWorktree(p)
    \/ CreateFails(p)
    \/ WriteAhead(p)
    \/ Setup(p)
    \/ SetupFails(p)
    \/ Prepare(p)
    \/ PrepareFails(p)
    \/ RecordRuntime(p)
    \/ Environment(p)
    \/ EnvironmentFails(p)
    \/ Retain(p)
    \/ Started(p)
    \/ DestroyFailed(p)
    \/ ClearRuntime(p)
    \/ CleanWorktree(p)
    \/ CleanBranch(p)
    \/ CleanEntry(p)

(***************************************************************************)
(* feature teardown.                                                       *)
(***************************************************************************)
DiscardsChanges(r) == r.discard \/ r.force

BranchAction(r) ==
    IF r.deleteBranch = "delete" /\ r.force THEN "force" ELSE r.deleteBranch

(* In-guest identity is recovered from the provider's own state. *)
TeardownRuntime ==
    IF Listed(registry, Feature) THEN entry.runtime
    ELSE IF "in_guest" \in alive THEN Bare("in_guest") ELSE Bare("container")

(* The blockers of build_teardown_plan. *)
Blocked(r) ==
    \/ worktree = "dirty" /\ ~ DiscardsChanges(r)
    \/ r.mergeable /\ BranchAction(r) = "delete" /\ branch = "unmerged"

TeardownPlan(p, r) ==
    /\ MayBegin(p, TeardownSteps)
    /\ TeardownRuntime.provider = "in_guest" => r.force
    /\ worktree = "absent" => r.force
    /\ ~ Blocked(r)
    /\ job' = [job EXCEPT ![p] = [NoJob EXCEPT !.request = r,
                                               !.existed = worktree # "absent",
                                               !.runtime = TeardownRuntime]]
    /\ Goto(p, "destroy")
    /\ UNCHANGED <<scenario, worktree, branch, registry, alive, recorded, known>>

AfterRuntime(p) ==
    IF job[p].existed /\ ~ DiscardsChanges(job[p].request) THEN "recheck" ELSE "remove"

(* A sandbox without an identity is not looked for, and counts as gone.    *)
Destroy(p) ==
    /\ pc[p] = "destroy"
    /\ alive' = IF job[p].runtime = Bare("sbx") THEN alive ELSE alive \ {job[p].runtime.provider}
    /\ known' = (known /\ "sbx" \in alive')
    /\ Goto(p, AfterRuntime(p))
    /\ UNCHANGED <<scenario, worktree, branch, registry, job, recorded>>

(* The tunnel and the modules go first, and the spec is moved out; one     *)
(* that cannot be moved stops the teardown.                                *)
SpecNotMoved(p) ==
    /\ pc[p] = "destroy"
    /\ job[p].existed /\ ~ job[p].request.force
    /\ Leave(p)
    /\ UNCHANGED <<scenario, worktree, branch, registry, alive, recorded, known>>

(* Slip: the report of the cleanup is not looked at.                       *)
DestroyUnchecked(p) ==
    /\ pc[p] = "destroy"
    /\ alive' \in {alive, alive \ {job[p].runtime.provider}}
    /\ known' = (known /\ "sbx" \in alive')
    /\ Goto(p, AfterRuntime(p))
    /\ UNCHANGED <<scenario, worktree, branch, registry, job, recorded>>

(* The provider, or a module, cannot vouch for the cleanup.  (A project    *)
(* with a devcontainer: without one the code goes on here.)                *)
DestroyUnverified(p) ==
    /\ pc[p] = "destroy"
    /\ alive' \in {alive, alive \ {job[p].runtime.provider}}
    /\ IF job[p].request.force
       THEN /\ known' = FALSE
            /\ Goto(p, AfterRuntime(p))
            /\ UNCHANGED job
       ELSE /\ known' = (known /\ "sbx" \in alive')
            /\ Leave(p)
    /\ UNCHANGED <<scenario, worktree, branch, registry, recorded>>

(* Slip: the plan's look at the worktree is trusted. *)
RecheckTrusting(p) ==
    /\ pc[p] = "recheck"
    /\ Goto(p, "remove")
    /\ UNCHANGED <<scenario, worktree, branch, registry, alive, job, recorded, known>>

Recheck(p) ==
    /\ pc[p] = "recheck"
    /\ worktree = "clean"
    /\ Goto(p, "remove")
    /\ UNCHANGED <<scenario, worktree, branch, registry, alive, job, recorded, known>>

(* New changes, or a status that cannot be read. *)
RecheckStops(p) ==
    /\ pc[p] = "recheck"
    /\ Leave(p)
    /\ UNCHANGED <<scenario, worktree, branch, registry, alive, recorded, known>>

(* The adapter's cleanup, then "git worktree remove --force". *)
RemoveWorktree(p) ==
    /\ pc[p] = "remove"
    /\ IF job[p].existed
       THEN /\ worktree # "absent"
            /\ worktree' = "absent"
            /\ recorded' = FALSE
            /\ job' = [job EXCEPT ![p].gone = TRUE]
       ELSE UNCHANGED <<worktree, recorded, job>>
    /\ Goto(p, "prune")
    /\ UNCHANGED <<scenario, branch, registry, alive, known>>

(* Only a forced teardown goes on with the worktree still there. *)
RemoveFails(p) ==
    /\ pc[p] = "remove"
    /\ job[p].existed
    /\ IF job[p].request.force
       THEN Goto(p, "prune") /\ UNCHANGED job
       ELSE Leave(p)
    /\ UNCHANGED <<scenario, worktree, branch, registry, alive, recorded, known>>

Prune(p) ==
    /\ pc[p] = "prune"
    /\ job' = [job EXCEPT ![p].gone = @ \/ worktree = "absent"]
    /\ Goto(p, "deleteBranch")
    /\ UNCHANGED <<scenario, worktree, branch, registry, alive, recorded, known>>

(* Slip: every branch is deleted with "-D". *)
DeletableForced(r) == BranchAction(r) # "keep"

(* "-d" refuses a branch with commits of its own; either refuses one that  *)
(* is checked out.  A refusal is a warning.                                *)
Deletable(r) ==
    \/ BranchAction(r) = "force"
    \/ BranchAction(r) = "delete" /\ branch = "merged"

DeleteBranch(p) ==
    /\ pc[p] = "deleteBranch"
    /\ \/ /\ Deletable(job[p].request)
          /\ worktree = "absent"
          /\ branch' = "absent"
       \/ UNCHANGED branch
    /\ Goto(p, "recordTeardown")
    /\ UNCHANGED <<scenario, worktree, registry, alive, job, recorded, known>>

Removed(p) ==
    /\ pc[p] = "recordTeardown"
    /\ \/ job[p].gone /\ registry' = RecordTeardown(registry, Feature)
       \/ UNCHANGED registry
    /\ Leave(p)
    /\ UNCHANGED <<scenario, worktree, branch, alive, recorded, known>>

TeardownStep(p) ==
    \/ SpecNotMoved(p)
    \/ Destroy(p)
    \/ DestroyUnverified(p)
    \/ Recheck(p)
    \/ RecheckStops(p)
    \/ RemoveWorktree(p)
    \/ RemoveFails(p)
    \/ Prune(p)
    \/ DeleteBranch(p)
    \/ Removed(p)

(***************************************************************************)
(* The processes' deaths, and the user.                                    *)
(***************************************************************************)
Crash(p) ==
    /\ pc[p] # "idle"
    /\ p \notin Agents
    /\ Leave(p)
    /\ UNCHANGED <<scenario, worktree, branch, registry, alive, recorded, known>>

Edit ==
    /\ worktree = "clean"
    /\ worktree' = "dirty"
    /\ job' = [p \in Procs |-> [job[p] EXCEPT !.late = @ \/ pc[p] = "remove"]]
    /\ UNCHANGED <<scenario, branch, registry, alive, pc, recorded, known>>

Commit ==
    /\ worktree = "dirty"
    /\ worktree' = "clean"
    /\ branch' = "unmerged"
    /\ UNCHANGED <<scenario, registry, alive, pc, job, recorded, known>>

Merge ==
    /\ branch = "unmerged"
    /\ branch' = "merged"
    /\ UNCHANGED <<scenario, worktree, registry, alive, pc, job, recorded, known>>

(* The user, or the Mac app, brings a listed feature's devcontainer up;    *)
(* a bound: not while a teardown that has stopped it removes the worktree. *)
DevcontainerUp ==
    /\ worktree # "absent"
    /\ Listed(registry, Feature) /\ entry.runtime.provider = "container"
    /\ \A p \in Procs : pc[p] \notin {"recheck", "remove"}
    /\ alive' = alive \cup {"container"}
    /\ UNCHANGED <<scenario, worktree, branch, registry, pc, job, recorded, known>>

Next ==
    \/ \E p \in Procs :
        \/ \E r \in Starts : StartCheck(p, r)
        \/ StartStep(p)
        \/ \E r \in Teardowns : TeardownPlan(p, r)
        \/ TeardownStep(p)
        \/ Crash(p)
    \/ Edit
    \/ Commit
    \/ Merge
    \/ DevcontainerUp

Spec == Init /\ [][Next]_vars

(***************************************************************************)
(* Properties.                                                             *)
(***************************************************************************)
(* The types of the variables. *)
TypeOK ==
    /\ scenario \in Scenarios
    /\ worktree \in {"absent", "clean", "dirty"}
    /\ branch \in {"absent", "merged", "unmerged"}
    /\ registry \in Registry
    /\ alive \subseteq Kinds
    /\ pc \in [Procs -> StartSteps \cup TeardownSteps \cup {"idle"}]
    /\ job \in [Procs -> Job]
    /\ recorded \in BOOLEAN
    /\ known \in BOOLEAN

(* A worktree whose start was written ahead stays listed, whatever fails   *)
(* or dies after that, until the worktree itself is gone (feature.rs, the  *)
(* write-ahead of start: no unregistered worktree is left behind).         *)
RecordedWorktreeListed ==
    recorded => Listed(registry, Feature) /\ entry.status # "removed"

(* A sandbox the registry has once been told of can still be destroyed by  *)
(* a teardown: its entry keeps naming it until it is gone or a forced      *)
(* teardown has given it up.                                               *)
RuntimeFindable ==
    known /\ "sbx" \in alive => Listed(registry, Feature) /\ entry.runtime = Sandbox

(* The process whose step this is, if it is one's. *)
Acts(p) == pc'[p] # pc[p]

(* Changes the user has not committed go only where the caller consents,   *)
(* or with the worktree of a failed in-guest start: an unforced teardown   *)
(* keeps what was written between its plan and its last look (what is      *)
(* written after that look, git worktree remove --force takes along).      *)
WorkKept ==
    [][worktree = "dirty" /\ worktree' = "absent" =>
        \E p \in Procs :
            /\ Acts(p)
            /\ \/ pc[p] = "remove" /\ (DiscardsChanges(job[p].request) \/ job[p].late)
               \/ pc[p] = "cleanWorktree"]_vars

(* Commits that are nowhere else are lost only to a branch step that was   *)
(* asked to force, or with the branch of a failed in-guest start; no start *)
(* resets a branch that has them.  (Of starts beside each other, one whose *)
(* check saw no branch resets the one that another has made.)              *)
CommitsKept ==
    [][scenario.overlap = "none" /\ branch = "unmerged" /\ branch' # "unmerged" =>
        \A p \in Procs : Acts(p) =>
            \/ pc[p] = "deleteBranch" /\ BranchAction(job[p].request) = "force"
            \/ pc[p] = "cleanBranch"]_vars

(* An entry becomes "removed" under an unforced teardown only when there   *)
(* is no worktree left, and no container or known sandbox.                 *)
TeardownVerified ==
    [][\A p \in Procs :
        Acts(p) /\ pc[p] = "recordTeardown" /\ registry' # registry /\ ~ job[p].request.force =>
            /\ worktree = "absent"
            /\ "container" \notin alive
            /\ ~ (known /\ "sbx" \in alive)]_vars
=============================================================================
