---------------------------- MODULE InGuestRuntime ----------------------------
(* One managed run of the in-guest runtime (src/core/src/runtime/in_guest.rs, *)
(* with the start and teardown of src/core/src/workflows/feature.rs that call *)
(* it): the Docker objects of its Compose project, the files it places on the *)
(* guest, and the provider state by which a teardown finds them, under        *)
(* failing commands, deaths, expiring leases and retried teardowns.           *)
(*                                                                            *)
(* An assignment is started once: its materializations are erased by the      *)
(* first teardown, and a start needs them.                                    *)
EXTENDS Naturals, FiniteSets

CONSTANTS
    Beside,     \* commands in a feature may run beside its teardown
    MaxFaults   \* bound: commands that fail, and deaths

ASSUME InGuestAssumption == Beside \in BOOLEAN /\ MaxFaults \in Nat

(* The Docker objects. A sibling is a container that other tools started for  *)
(* the same worktree, a squatter has the name of the port proxy.              *)
Compose == {"primary", "dependency", "network", "volume"}
Objects == Compose \cup {"spool", "proxy"}
Neighbours == {"sibling", "squatter"}
Containers == {"primary", "dependency", "proxy", "sibling", "squatter"}

\* What the labels of an object say.
ProjectLabel == Compose
WorkspaceLabel == {"primary", "sibling"}
ProxyName == {"proxy", "squatter"}

VARIABLES
    docker,      \* the Docker objects there are
    secrets,     \* the lease materializations exist
    live,        \* the assignment's leases have not expired
    stage,       \* the private Compose stage exists
    ledger,      \* the tool-request ledger exists
    worktree,    \* the task worktree exists
    state,       \* the provider state file: absent, or whether it has the container's id
    active,      \* the registry lists the feature as active
    pc,          \* the step of the start or teardown that runs
    failing,     \* it is a start that failed and cleans up
    stageFound,  \* private_compose_stage_from_state succeeded
    residue,     \* the kinds of residue found so far
    report,      \* what the last destroy reported
    command,     \* a command in the feature that has passed its checks
    faults

world == <<docker, secrets, stage, ledger, worktree, state>>
vars == <<world, live, active, pc, failing, stageFound, residue, report, command, faults>>

Absent == "absent"
States == {Absent, "prepared", "identified"}
Kinds == {"container", "network", "volume", "port-proxy", "tool-request-volume", "lease-materialization",
          "tool-request-ledger", "compose-inputs", "provider-state"}
Steps == {"new", "idle", "facade", "prepare", "up", "spools", "probe", "proxies",
          "find", "containers", "networks", "spoolVolumes", "inspect", "erase", "unstage", "forget", "cleanup", "finish"}

Init ==
    /\ docker \in SUBSET Neighbours
    /\ secrets = TRUE /\ live = TRUE
    /\ stage = FALSE /\ ledger = FALSE /\ worktree = FALSE
    /\ state = Absent /\ active = FALSE
    /\ pc = "new" /\ failing = FALSE /\ stageFound = FALSE
    /\ residue = {} /\ report = "none" /\ command = "none" /\ faults = 0

\* A lease expires.
Expire ==
    /\ live
    /\ live' = FALSE
    /\ UNCHANGED <<world, active, pc, failing, stageFound, residue, report, command, faults>>

\* load_assignment wants every lease live and every materialization in place.
AssignmentLoads == live /\ secrets

Faulty == faults < MaxFaults /\ faults' = faults + 1

-----------------------------------------------------------------------------
(* The start.                                                                 *)
Start ==
    /\ pc = "new"
    /\ AssignmentLoads
    /\ worktree' = TRUE
    /\ pc' = "facade"
    /\ UNCHANGED <<docker, secrets, stage, ledger, state, live, active, failing, stageFound, residue, report, command, faults>>

\* A step of the start has failed: the runtime is destroyed, if it was prepared.
Fail ==
    /\ pc' = IF state = Absent THEN "cleanup" ELSE "find"
    /\ failing' = TRUE

\* prepare_in_guest_devcontainer_config stages the Compose inputs.
Facade ==
    /\ pc = "facade"
    /\ \/ AssignmentLoads /\ stage' = TRUE /\ pc' = "prepare" /\ UNCHANGED failing
       \/ ~AssignmentLoads /\ Fail /\ UNCHANGED stage
    /\ UNCHANGED <<docker, secrets, ledger, worktree, state, live, active, stageFound, residue, report, command, faults>>

\* prepare records, before any container, what a teardown will look for.
Prepare ==
    /\ pc = "prepare"
    /\ \/ AssignmentLoads /\ state' = "prepared" /\ pc' = "up" /\ UNCHANGED failing
       \/ ~AssignmentLoads /\ Fail /\ UNCHANGED state
    /\ UNCHANGED <<docker, secrets, stage, ledger, worktree, live, active, stageFound, residue, report, command, faults>>

(* `devcontainer up` brings the whole project up, or fails with some of it    *)
(* created; the id of the primary container is recorded at once.              *)
Up ==
    /\ pc = "up"
    /\ \/ /\ AssignmentLoads
          /\ docker' = docker \cup Compose \cup {"spool"}
          /\ state' = "identified"
          /\ pc' = "spools"
          /\ UNCHANGED <<failing, faults>>
       \/ /\ AssignmentLoads /\ Faulty
          /\ \E made \in SUBSET (Compose \cup {"spool"}) : docker' = docker \cup made
          /\ Fail
          /\ UNCHANGED state
       \/ ~AssignmentLoads /\ Fail /\ UNCHANGED <<docker, state, faults>>
    /\ UNCHANGED <<secrets, stage, ledger, worktree, live, active, stageFound, residue, report, command>>

\* The consumer's identity is bound, its spools are initialized, the boundary is
\* inspected and the environment probed.
Spools == pc = "spools" /\ pc' = "probe"
Probe == pc = "probe" /\ pc' = "proxies"
Check ==
    /\ \/ AssignmentLoads /\ (Spools \/ Probe) /\ UNCHANGED <<failing, faults>>
       \/ AssignmentLoads /\ pc \in {"spools", "probe"} /\ Faulty /\ Fail
       \/ ~AssignmentLoads /\ pc \in {"spools", "probe"} /\ Fail /\ UNCHANGED faults
    /\ UNCHANGED <<world, live, active, stageFound, residue, report, command>>

(* IN_GUEST_PORT_PROXY_SCRIPT: a container of another project keeps the name; *)
(* an old proxy of this one is replaced. Then the start is recorded.          *)
ReconcileProxy == "squatter" \notin docker /\ docker' = docker \cup {"proxy"}

Proxies ==
    /\ pc = "proxies"
    /\ \/ ReconcileProxy /\ pc' = "idle" /\ active' = TRUE /\ UNCHANGED <<failing, faults>>
       \/ ReconcileProxy /\ Faulty /\ Fail /\ UNCHANGED active
       \/ "squatter" \in docker /\ Fail /\ UNCHANGED <<docker, active, faults>>
    /\ UNCHANGED <<secrets, stage, ledger, worktree, state, live, stageFound, residue, report, command>>

-----------------------------------------------------------------------------
(* Commands in an active feature: exec, which brings the project up again,    *)
(* and dispatch-tool, which opens the ledger. Both check first.               *)
MayRun == pc = "idle" \/ Beside

Command(c) ==
    /\ MayRun /\ command = "none"
    /\ active /\ state # Absent /\ AssignmentLoads
    /\ c = "dispatch" => "primary" \in docker
    /\ command' = c
    /\ UNCHANGED <<world, live, active, pc, failing, stageFound, residue, report, faults>>

Exec ==
    /\ MayRun /\ command = "exec"
    /\ command' = "none"
    /\ docker' = docker \cup Objects
    /\ UNCHANGED <<secrets, stage, ledger, worktree, state, live, active, pc, failing, stageFound, residue, report, faults>>

Dispatch ==
    /\ MayRun /\ command = "dispatch"
    /\ command' = "none"
    /\ ledger' = TRUE
    /\ UNCHANGED <<docker, secrets, stage, worktree, state, live, active, pc, failing, stageFound, residue, report, faults>>

-----------------------------------------------------------------------------
(* The teardown, which is always forced: require_forced_in_guest_teardown     *)
(* refuses the others. It finds the provider state by the entry, also by that *)
(* of a removed feature, or by the worktree's path (recover_runtime_metadata),*)
(* or has no in-guest runtime to destroy and removes the worktree. One that   *)
(* finds nothing at all changes nothing and is left out.                      *)
Teardown ==
    /\ pc = "idle" /\ (command = "none" \/ Beside)
    /\ report' = "none"
    /\ \/ /\ state # Absent \/ active
          /\ pc' = "find"
          /\ UNCHANGED worktree
       \/ /\ state = Absent /\ ~active /\ worktree
          /\ worktree' = FALSE
          /\ UNCHANGED pc
    /\ UNCHANGED <<docker, secrets, stage, ledger, state, live, active, failing, stageFound, residue, command, faults>>

\* The destroy ends, and whatever it reports, a failed start goes on to clean up and
\* a forced teardown to remove the worktree: the stop is for those without --force.
Report(outcome) ==
    /\ report' = outcome
    /\ pc' = IF failing THEN "cleanup" ELSE "finish"

\* private_compose_stage_from_state: the assignment must load, the worktree must
\* be there, and the stage is created if it is not.
Find ==
    /\ pc = "find"
    /\ IF state = Absent
       THEN Report("unverified") /\ UNCHANGED <<stage, stageFound>>
       ELSE /\ stageFound' = (AssignmentLoads /\ worktree)
            /\ stage' = (stage \/ stageFound')
            /\ pc' = "containers"
            /\ UNCHANGED report
    /\ residue' = {}
    /\ UNCHANGED <<docker, secrets, ledger, worktree, state, live, active, failing, command, faults>>

\* A command whose failure ends the destroy.
Abort ==
    /\ pc \in {"containers", "networks", "inspect"}
    /\ Faulty
    /\ Report("unverified")
    /\ UNCHANGED <<world, live, active, failing, stageFound, residue, command>>

\* Slip: containers without the label of the worktree are not looked for.
OwnedByBoth == docker \cap WorkspaceLabel \cap ProjectLabel

\* Slip: the label of the worktree is enough.
OwnedByEither ==
    docker \cap (WorkspaceLabel \cup (Containers \cap ProjectLabel)
                 \cup (IF state = "identified" THEN {"primary"} ELSE {}))

(* discover_owned_docker_identity: containers of this worktree that carry the *)
(* project's label, containers of the project, and the recorded one.          *)
OwnedContainers ==
    docker \cap ((WorkspaceLabel \cap ProjectLabel) \cup (Containers \cap ProjectLabel)
                 \cup (IF state = "identified" THEN {"primary"} ELSE {}))

OwnedProxy == docker \cap ProxyName \cap {"proxy"}

\* `docker rm` of these: each goes, unless the command fails, which is not looked at.
Remove(objects, next) ==
    /\ \/ docker' = docker \ objects /\ UNCHANGED faults
       \/ \E kept \in SUBSET objects \ {{}} : Faulty /\ docker' = docker \ (objects \ kept)
    /\ pc' = next
    /\ UNCHANGED <<secrets, stage, ledger, worktree, state, live, active, failing, stageFound, residue, report, command>>

RemoveContainers == pc = "containers" /\ Remove(OwnedProxy \cup OwnedContainers, "networks")

\* Networks, volumes and spools in use by a container stay.
InUse == docker \cap {"primary", "dependency"} # {}
RemoveNetworks == pc = "networks" /\ Remove(IF InUse THEN {} ELSE docker \cap {"network", "volume"}, "spoolVolumes")
RemoveSpools == pc = "spoolVolumes" /\ Remove(IF "primary" \in docker THEN {} ELSE docker \cap {"spool"}, "inspect")

KindOf(object) ==
    CASE object \in {"primary", "dependency"} -> "container"
      [] object = "proxy" -> "port-proxy"
      [] object = "spool" -> "tool-request-volume"
      [] OTHER -> object

\* Slip: the spools, which have no label, are not inspected.
InspectLabelled ==
    /\ pc = "inspect"
    /\ residue' = {KindOf(object) : object \in docker \cap (Objects \ {"spool"})}
    /\ pc' = "erase"
    /\ UNCHANGED <<world, live, active, failing, stageFound, report, command, faults>>

InspectResidue ==
    /\ pc = "inspect"
    /\ residue' = {KindOf(object) : object \in docker \cap Objects}
    /\ pc' = "erase"
    /\ UNCHANGED <<world, live, active, failing, stageFound, report, command, faults>>

\* The materializations and the ledger go whatever is left of the project.
Erase ==
    /\ pc = "erase"
    /\ \/ secrets' = FALSE /\ ledger' = FALSE /\ residue' = residue /\ UNCHANGED faults
       \/ /\ Faulty
          /\ secrets' \in {secrets, FALSE} /\ ledger' \in {ledger, FALSE}
          /\ residue' = residue \cup (IF secrets' THEN {"lease-materialization"} ELSE {})
                                \cup (IF ledger' THEN {"tool-request-ledger"} ELSE {})
    /\ pc' = "unstage"
    /\ UNCHANGED <<docker, stage, worktree, state, live, active, failing, stageFound, report, command>>

Unstage ==
    /\ pc = "unstage"
    /\ \/ residue # {} /\ UNCHANGED <<stage, residue, faults>>
       \/ residue = {} /\ stageFound /\ stage' = FALSE /\ UNCHANGED <<residue, faults>>
       \/ residue = {} /\ stageFound /\ Faulty /\ residue' = {"compose-inputs"} /\ UNCHANGED stage
       \/ residue = {} /\ ~stageFound /\ residue' = {"compose-inputs"} /\ UNCHANGED <<stage, faults>>
    /\ pc' = "forget"
    /\ UNCHANGED <<docker, secrets, ledger, worktree, state, live, active, failing, stageFound, report, command>>

\* Slip: the state is removed whatever is left.
ForgetAnyway ==
    /\ pc = "forget"
    /\ state' = Absent /\ Report(IF residue = {} THEN "clean" ELSE "residue")
    /\ UNCHANGED <<docker, secrets, stage, ledger, worktree, live, active, failing, stageFound, residue, command, faults>>

\* The provider state goes last, and only when nothing else is left.
Forget ==
    /\ pc = "forget"
    /\ \/ residue = {} /\ state' = Absent /\ Report("clean") /\ UNCHANGED <<residue, faults>>
       \/ /\ residue = {} /\ Faulty
          /\ residue' = {"provider-state"} /\ Report("residue") /\ UNCHANGED state
       \/ residue # {} /\ residue' = residue \cup {"provider-state"} /\ Report("residue") /\ UNCHANGED <<state, faults>>
    /\ UNCHANGED <<docker, secrets, stage, ledger, worktree, live, active, failing, stageFound, command>>

\* cleanup_failed_in_guest_worktree: the stage, then the worktree and its branch.
Cleanup ==
    /\ pc = "cleanup"
    /\ stage' = FALSE /\ worktree' = FALSE
    /\ pc' = "idle"
    /\ failing' = FALSE
    /\ UNCHANGED <<docker, secrets, ledger, state, live, active, stageFound, residue, report, command, faults>>

\* The teardown removes the worktree, by git or as a directory, and records the
\* feature as removed if it is gone. Both may fail with no more than a warning.
Finish ==
    /\ pc = "finish"
    /\ \/ worktree' = FALSE /\ active' = FALSE /\ UNCHANGED faults
       \/ worktree' = FALSE /\ Faulty /\ UNCHANGED active
       \/ Faulty /\ UNCHANGED <<worktree, active>>
    /\ pc' = "idle"
    /\ UNCHANGED <<docker, secrets, stage, ledger, state, live, failing, stageFound, residue, report, command>>

\* The process that starts or tears down dies.
Die ==
    /\ pc \notin {"new", "idle"}
    /\ Faulty
    /\ pc' = "idle" /\ failing' = FALSE
    /\ UNCHANGED <<world, live, active, stageFound, residue, report, command>>

Begin == Facade \/ Prepare \/ Up \/ Check \/ Proxies

Destroy ==
    \/ Find \/ RemoveContainers \/ RemoveNetworks \/ RemoveSpools \/ InspectResidue
    \/ Erase \/ Unstage \/ Forget \/ Cleanup \/ Finish

Next ==
    \/ Expire \/ Start \/ Begin
    \/ \E c \in {"exec", "dispatch"} : Command(c)
    \/ Exec \/ Dispatch
    \/ Teardown \/ Destroy \/ Abort \/ Die

(* What began goes on or dies. A forced teardown that left something is       *)
(* called again: the user's to do, and possible because the provider state is *)
(* retained, although the worktree is gone and the feature listed as removed. *)
Fairness == WF_vars(Begin) /\ SF_vars(Teardown) /\ WF_vars(Destroy) /\ WF_vars(Exec \/ Dispatch)
Spec == Init /\ [][Next]_vars /\ Fairness

-----------------------------------------------------------------------------
\* The types of the world, the steps and the reports.
TypeOK ==
    /\ docker \subseteq Objects \cup Neighbours
    /\ secrets \in BOOLEAN /\ live \in BOOLEAN
    /\ stage \in BOOLEAN /\ ledger \in BOOLEAN /\ worktree \in BOOLEAN
    /\ state \in States
    /\ active \in BOOLEAN
    /\ pc \in Steps
    /\ failing \in BOOLEAN /\ stageFound \in BOOLEAN
    /\ residue \subseteq Kinds
    /\ report \in {"none", "unverified", "residue", "clean"}
    /\ command \in {"none", "exec", "dispatch"}
    /\ faults \in 0..MaxFaults

\* Whatever dies when, the provider state is there while anything that only it
\* names is left, a Docker object or the ledger: it is written before the first
\* of them is made and removed after the last (in_guest.rs:3402-3533, 3742-3760).
Findable == (docker \cap Objects # {} \/ ledger) => state # Absent

\* A report tells everything the destroy left of the project and of the secrets;
\* one without residue is given only when the stage and the state are gone too.
Told ==
    /\ {KindOf(object) : object \in docker' \cap Objects} \subseteq residue'
    /\ secrets' => "lease-materialization" \in residue'
    /\ ledger' => "tool-request-ledger" \in residue'
    /\ report' = "clean" => residue' = {} /\ ~stage' /\ state' = Absent
ReportTruthful == [][report' \in {"residue", "clean"} /\ report' # report => Told]_vars

\* Containers of other projects stay, those of the same worktree and the one that
\* has the proxy's name included.
NeighboursKept == [][docker \cap Neighbours \subseteq docker']_vars

\* Teardowns that are called again remove the whole project and its secrets from
\* the guest, whatever failed before.
EventuallyErased == (state # Absent) ~> (docker \cap Objects = {} /\ ~secrets)

\* They also come to an end: the provider state goes.
CleanupCompletes == (state # Absent) ~> (state = Absent)
==============================================================================
