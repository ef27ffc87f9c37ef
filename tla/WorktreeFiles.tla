----------------------------- MODULE WorktreeFiles -----------------------------
(* The files of a feature's worktree: what a start and `devcontainer sync`    *)
(* write there (src/core/src/workflows/feature.rs, modules/devcontainer.rs),  *)
(* what the user and git do to them, and what the teardown's plan and its     *)
(* last check (TeardownPlan) then let go.                                     *)
EXTENDS TeardownPlan

CONSTANTS
    Focuses,           \* the sets of paths, one of which the user works on
    StrategyChanges,   \* the sync strategy may differ from call to call
    EditsAnytime,      \* the user edits while BranchBox writes
    MaxEdits,          \* bound: what the user does
    MaxCalls           \* bound: starts and syncs

ASSUME FocusesAssumption == Focuses \subseteq SUBSET Paths
ASSUME HabitsAssumption == StrategyChanges \in BOOLEAN /\ EditsAnytime \in BOOLEAN
ASSUME BoundsAssumption == MaxEdits \in Nat /\ MaxCalls \in Nat \ {0}

VARIABLES
    head, index, tree,  \* the worktree: at HEAD, in the index, on disk
    main,               \* the main worktree's files
    baseline,           \* .branchbox/devcontainer-sync/<feature>.json
    recorded,           \* there is such a file
    pc, call,           \* the call under way: its next step, what it was asked for
    strategy,           \* of the last call
    focus, edits, calls

files == <<head, index, tree, main>>
vars == <<files, baseline, recorded, pc, call, strategy, focus, edits, calls>>

Strategies == {"copy", "symlink"}
Policies == {"overwrite", "fail", "preserve", "inspect"}
NoCall == [kind |-> "none", policy |-> "overwrite"]
Calls == [kind : {"start", "restart", "sync", "none"}, policy : Policies]

View == [head |-> head, index |-> index, tree |-> tree, main |-> main, baseline |-> baseline]

(* A new worktree is a checkout. The repository may or may not have committed *)
(* what the user works on; .env is there in the main worktree.                *)
Init ==
    /\ focus \in Focuses
    /\ \E committed \in SUBSET (focus \ {"branchboxEnv", "devcontainerEnv"}) :
        LET has == committed \cup ({"config", "source"} \ focus)
            content == [p \in Paths |-> IF p \in has THEN File("base", "none") ELSE Missing]
        IN /\ head = content /\ index = content /\ tree = content
           /\ main = [p \in Paths |-> IF p \in {"env", "config"} THEN File("base", "none") ELSE content[p]]
    /\ baseline = [p \in Synced |-> Missing] /\ recorded = FALSE
    /\ pc = "spec" /\ call = [kind |-> "start", policy |-> "overwrite"]
    /\ strategy \in Strategies
    /\ edits = 0 /\ calls = 1

-----------------------------------------------------------------------------
(* A start.                                                                   *)
End == pc' = "idle" /\ call' = NoCall

\* ensure_spec_for_start: the worktree's spec, else the main worktree's moved
\* here, else a new one; its front matter is BranchBox's.
EnsureSpec ==
    /\ pc = "spec"
    /\ \/ /\ tree["spec"] # Missing
          /\ tree' = [tree EXCEPT !["spec"].block = "ours"]
          /\ UNCHANGED main
       \/ /\ tree["spec"] = Missing /\ tree["oldSpec"] # Missing
          /\ tree' = [tree EXCEPT !["oldSpec"].block = "ours"]
          /\ UNCHANGED main
       \/ /\ tree["spec"] = Missing /\ tree["oldSpec"] = Missing
          /\ LET from == IF main["spec"] # Missing THEN "spec" ELSE "oldSpec"
             IN /\ tree' = [tree EXCEPT !["spec"] = File(main[from].own, "ours")]
                /\ main' = [main EXCEPT !["spec"] = Missing]
    /\ pc' = "env"
    /\ UNCHANGED <<head, index, baseline, recorded, call, strategy, focus, edits, calls>>

\* prepare_env: main's .env with the feature's block, the link to it, .branchbox.env.
PrepareEnv ==
    /\ pc = "env"
    /\ tree' = [p \in Paths |->
        CASE p = "branchboxEnv" -> File("none", "ours")
          [] p = "env" /\ main["env"] # Missing -> File(main["env"].own, "ours")
          [] p = "devcontainerEnv" /\ main["env"] # Missing -> Link("up")
          [] OTHER -> tree[p]]
    /\ pc' = "sync"
    /\ UNCHANGED <<head, index, main, baseline, recorded, call, strategy, focus, edits, calls>>

(* DevcontainerModule::divergence: what is not as the last sync left it.      *)
Diverged == ~recorded \/ \E p \in Synced : baseline[p] # tree[p]

Guarded == strategy = "copy" /\ call.policy # "overwrite" /\ Diverged

\* Copied onto a link to it, a file is emptied: std::fs::copy opens its
\* destination, which is the source, and truncates it.
Aliased(p) == strategy = "copy" /\ tree[p] = Link("main")

\* Slip: an old link is written through.
SyncThrough ==
    /\ tree' = [p \in DOMAIN tree |->
        IF p \notin Synced THEN tree[p]
        ELSE IF main[p] = Missing THEN Missing
        ELSE IF strategy = "symlink" \/ Aliased(p) THEN Link("main")
        ELSE main[p]]
    /\ main' = [p \in DOMAIN main |->
        IF p \in Synced /\ main[p] # Missing /\ tree[p] = Link("main") THEN File("none", "none") ELSE main[p]]

(* sync_to: each file of the main worktree's .devcontainer is copied or       *)
(* linked, the others are removed.                                            *)
SyncTo ==
    /\ tree' = [p \in DOMAIN tree |->
        IF p \notin Synced THEN tree[p]
        ELSE IF main[p] = Missing THEN Missing
        ELSE IF strategy = "symlink" THEN Link("main")
        ELSE IF Aliased(p) THEN tree[p]
        ELSE main[p]]
    /\ main' = [p \in DOMAIN main |->
        IF p \in Synced /\ main[p] # Missing /\ Aliased(p) THEN File("none", "none") ELSE main[p]]

\* DevcontainerModule::setup, or sync_feature of the command line, which has no policy.
Sync ==
    /\ pc = "sync"
    /\ \/ Guarded /\ call.policy = "preserve" /\ pc' = "settings" /\ UNCHANGED <<tree, main, call>>
       \/ Guarded /\ call.policy \in {"fail", "inspect"} /\ End /\ UNCHANGED <<tree, main>>
       \/ ~Guarded /\ SyncTo /\ pc' = (IF call.kind = "sync" THEN "record" ELSE "configure") /\ UNCHANGED call
    /\ UNCHANGED <<head, index, baseline, recorded, strategy, focus, edits, calls>>

\* configure_workspace_settings writes the feature's names into devcontainer.json;
\* a start whose module fails there is given up.
Configure ==
    /\ pc = "configure"
    /\ \/ strategy = "symlink" /\ pc' = "record" /\ UNCHANGED <<tree, call>>
       \/ /\ strategy = "copy" /\ tree["config"].kind = "file"
          /\ tree' = [tree EXCEPT !["config"].block = "ours"]
          /\ pc' = "record"
          /\ UNCHANGED call
       \/ strategy = "copy" /\ tree["config"] = Link("main") /\ End /\ UNCHANGED tree
       \/ strategy = "copy" /\ tree["config"] = Missing /\ pc' = "record" /\ UNCHANGED <<tree, call>>
    /\ UNCHANGED <<head, index, main, baseline, recorded, strategy, focus, edits, calls>>

\* write_manifest: the digests of what is there now.
Record ==
    /\ pc = "record"
    /\ baseline' = [p \in Synced |-> tree[p]] /\ recorded' = TRUE
    /\ IF call.kind = "sync" THEN End ELSE pc' = "settings" /\ UNCHANGED call
    /\ UNCHANGED <<files, strategy, focus, edits, calls>>

\* setup_vscode_workspace: the managed keys are set in what is there, the task
\* replaces what is there.
Settings ==
    /\ pc = "settings"
    /\ tree' = [p \in Paths |->
        CASE p = "settings" -> File(tree[p].own, "ours")
          [] p = "tasks" -> File("none", "ours")
          [] OTHER -> tree[p]]
    /\ End
    /\ UNCHANGED <<head, index, main, baseline, recorded, strategy, focus, edits, calls>>

Write == EnsureSpec \/ PrepareEnv \/ Sync \/ Configure \/ Record \/ Settings

\* Another start of the feature, or `devcontainer sync`.
Call(c) ==
    /\ pc = "idle" /\ calls < MaxCalls
    /\ c.kind \in {"restart", "sync"}
    /\ call' = c
    /\ pc' = IF c.kind = "sync" THEN "sync" ELSE "spec"
    /\ strategy' \in (IF StrategyChanges THEN Strategies ELSE {strategy})
    /\ calls' = calls + 1
    /\ UNCHANGED <<files, baseline, recorded, focus, edits>>

-----------------------------------------------------------------------------
(* The user.                                                                  *)
Uses(p) ==
    /\ p \in focus /\ edits < MaxEdits /\ (EditsAnytime \/ pc = "idle")
    /\ edits' = edits + 1
    /\ UNCHANGED <<baseline, recorded, pc, call, strategy, focus, calls>>

\* An edit of a link is one of what it links to.
Edit(p) ==
    /\ Uses(p)
    /\ \/ /\ tree[p].kind # "link"
          /\ tree' = [tree EXCEPT ![p] = File("mine", @.block)]
          /\ UNCHANGED main
       \/ /\ tree[p] = Link("main")
          /\ main' = [main EXCEPT ![p] = File("mine", @.block)]
          /\ UNCHANGED tree
    /\ UNCHANGED <<head, index>>

\* What BranchBox wrote is changed, or, but for the settings, added to: her own
\* settings are beside the managed ones.
EditBlock(p) ==
    /\ Uses(p) /\ p \in {"env", "settings", "tasks"} /\ PassesForOurs(tree[p].block)
    /\ \/ tree' = [tree EXCEPT ![p].block = "edited"]
       \/ p # "settings" /\ tree' = [tree EXCEPT ![p].block = "mixed"]
    /\ UNCHANGED <<head, index, main>>

Delete(p) == Uses(p) /\ tree[p] # Missing /\ tree' = [tree EXCEPT ![p] = Missing] /\ UNCHANGED <<head, index, main>>
Stage(p) == Uses(p) /\ index[p] # tree[p] /\ index' = [index EXCEPT ![p] = tree[p]] /\ UNCHANGED <<head, tree, main>>
Untrack(p) == Uses(p) /\ index[p] # Missing /\ index' = [index EXCEPT ![p] = Missing] /\ UNCHANGED <<head, tree, main>>
Commit(p) == Uses(p) /\ head # index /\ head' = index /\ UNCHANGED <<index, tree, main>>
EditMain(p) == Uses(p) /\ main' = [main EXCEPT ![p] = File("next", "none")] /\ UNCHANGED <<head, index, tree>>

User == \E p \in focus : Edit(p) \/ EditBlock(p) \/ Delete(p) \/ Stage(p) \/ Untrack(p) \/ Commit(p) \/ EditMain(p)

Next == Write \/ (\E c \in Calls : Call(c)) \/ User
Spec == Init /\ [][Next]_vars

-----------------------------------------------------------------------------
Contents == {Missing, Link("main"), Link("up")} \cup [kind : {"file"}, own : {"none", "base", "next", "mine"}, block : {"none", "ours", "edited", "mixed"}]

\* The types; there is a call just while its steps are under way.
TypeOK ==
    /\ {head, index, tree, main} \subseteq [Paths -> Contents]
    /\ baseline \in [Synced -> Contents]
    /\ pc \in {"idle", "spec", "env", "sync", "configure", "record", "settings"}
    /\ call \in Calls /\ (pc = "idle" <=> call = NoCall)
    /\ strategy \in Strategies /\ focus \in Focuses
    /\ edits \in 0..MaxEdits /\ calls \in 1..MaxCalls

\* The user's text on disk that would be gone with the worktree: neither committed
\* nor in the main worktree, or a line or task among those that BranchBox wrote. It
\* is not what she changed in those themselves, or beside the one task: ValueWork.
Work(view, p) ==
    /\ p \notin Reserved
    /\ \/ /\ view.tree[p].own = "mine" /\ "mine" \notin {view.head[p].own, view.main[p].own}
          /\ p = "tasks" => ~PassesForOurs(view.tree[p].block)
       \/ /\ p \in {"env", "tasks"} /\ view.tree[p].block = "mixed"
          /\ view.tree[p] \notin {view.head[p], view.main[p]}
    /\ p = "devcontainerEnv" => view.tree[p] # view.tree["env"]

ValueWork(view, p) ==
    \/ view.tree[p].block = "edited" /\ "edited" \notin {view.head[p].block, view.main[p].block}
    \/ p = "tasks" /\ view.tree[p].own = "mine" /\ "mine" \notin {view.head[p].own, view.main[p].own}

\* The user's text that only the index holds.
StagedWork(view, p) ==
    p \notin Specs \cup Reserved /\ view.index[p].own = "mine" /\ view.index[p] \notin {view.head[p], view.tree[p]}

Consented(request, p) == Discards(request) \/ (request.modules /\ ModuleArea(p))

\* A plan that is not refused loses no text of the user's that the request does not
\* give up (teardown_plan.rs:1010, 1303), be it on disk or staged, whatever the user
\* and git did since the start. It says nothing of ValueWork, what she changed in
\* the lines, settings and task that BranchBox wrote: PlanKeepsValues.
PlanKeepsWork ==
    pc = "idle" =>
        \A request \in Requests : PlanProceeds(View, request) =>
            \A p \in Paths \ Specs : Work(View, p) \/ StagedWork(View, p) => Consented(request, p)

\* Nor does it lose what she changed there: the rules take her own values for those
\* that the start wrote (teardown_plan.rs:1191, 1237). This fails, and no run claims it.
PlanKeepsValues ==
    pc = "idle" =>
        \A request \in Requests : PlanProceeds(View, request) =>
            \A p \in Paths \ Specs : ValueWork(View, p) => Consented(request, p)

\* What PlanKeepsWork says, of the last check before the removal, which sees the
\* worktree after the spec has been moved or copied (feature.rs:1976), but for a
\* file that git no longer tracks.
RecheckKeeps(p) ==
    \A request \in Requests :
        LET after == SpecMoved(View, request)
        IN RecheckProceeds(View, request) /\ (Work(after, p) \/ StagedWork(after, p)) =>
            Consented(request, p) \/ (p = "oldSpec" /\ Copied(View, request))
RecheckKeepsTracked == pc = "idle" => \A p \in Paths : index[p] # Missing \/ head[p] = Missing => RecheckKeeps(p)
RecheckKeepsWork == pc = "idle" => \A p \in Paths : RecheckKeeps(p)

\* Neither a start nor a sync changes the main worktree's devcontainer files
\* (devcontainer.rs:263).
MainKept == [][Write => \A p \in Synced : main'[p] = main[p]]_vars

\* A start under a policy other than overwrite changes no devcontainer file that
\* is not as the last sync left it (devcontainer.rs:458).
PolicyKeeps ==
    [][(Sync /\ strategy = "copy" /\ call.policy # "overwrite")
         => \A p \in Synced : tree[p] # baseline[p] => tree'[p] = tree[p]]_vars
==============================================================================
