----------------------------- MODULE TeardownPlan -----------------------------
(* What a teardown takes for the user's work                                  *)
(* (src/core/src/workflows/teardown_plan.rs): the changes that git status     *)
(* reports, the rules that recognize the files BranchBox generated, and the   *)
(* changes that block a removal.                                              *)
(*                                                                            *)
(* A view is what is read: the contents of each path at HEAD, in the index,   *)
(* in the worktree and in the main worktree, and the devcontainer baseline.   *)
EXTENDS Naturals, FiniteSets

CONSTANT MaxEntries   \* MAX_CLASSIFIED_ENTRIES

ASSUME MaxEntriesAssumption == MaxEntries \in Nat

(* A content is of the user's or the repository's text (`own`) and of the part *)
(* that BranchBox writes (`block`): the feature's section of .env, the managed *)
(* keys of settings.json, the feature-URL task, the front matter of a spec.   *)
(* Of a block the user changed the rules compare the keys of the variables and  *)
(* the labels of the tasks: it is "mixed" when she added one of her own, and    *)
(* "edited" when she changed what no rule looks at, the value of a managed      *)
(* variable or setting, a comment in the settings, the task's command. The      *)
(* `own` of tasks.json is what is beside its tasks, other keys and comments.    *)
Missing == [kind |-> "missing", own |-> "none", block |-> "none"]
File(own, block) == [kind |-> "file", own |-> own, block |-> block]
Link(target) == [kind |-> "link", own |-> target, block |-> "none"]

\* One path for each rule, in the order in which git lists them; "extra" is
\* another file of .devcontainer.
Place ==
    [branchboxEnv |-> 1, devcontainerEnv |-> 2, config |-> 3, extra |-> 4, env |-> 5,
     settings |-> 6, tasks |-> 7, oldSpec |-> 8, spec |-> 9, source |-> 10]
Paths == DOMAIN Place
Reserved == {"branchboxEnv"}
Synced == {"config", "extra"}
Specs == {"spec", "oldSpec"}

ModuleArea(path) == path \in {"branchboxEnv", "devcontainerEnv", "config", "extra"}

-----------------------------------------------------------------------------
(* git status --porcelain=v1 -z --untracked-files=all --no-renames: first the *)
(* paths that HEAD or the index knows, then the untracked ones.               *)
Letter(from, to) ==
    IF from = to THEN " "
    ELSE CASE from = Missing -> "A"
           [] to = Missing -> "D"
           [] Missing \notin {from, to} /\ from.kind # to.kind -> "T"
           [] OTHER -> "M"

Tracked(view, path) ==
    [path |-> path,
     x |-> Letter(view.head[path], view.index[path]),
     y |-> IF view.index[path] = Missing THEN " " ELSE Letter(view.index[path], view.tree[path])]
Untracked(path) == [path |-> path, x |-> "?", y |-> "?"]

Status(view) ==
    {e \in {Tracked(view, p) : p \in Paths} : e.x # " " \/ e.y # " "}
    \cup {Untracked(p) : p \in {q \in Paths : view.index[q] = Missing /\ view.tree[q] # Missing}}

Before(d, e) ==
    IF d.x = "?" <=> e.x = "?" THEN Place[d.path] < Place[e.path] ELSE e.x = "?"

UnstagedOnly(entry) == entry.x \in {" ", "?"}
PureDeletion(entry) == <<entry.x, entry.y>> \in {<<" ", "D">>, <<"D", " ">>}

-----------------------------------------------------------------------------
(* The rules R3 to R7.                                                        *)
\* R3: what the last sync left there; a link only if it is the one a sync makes.
SyncedBaseline(view, path) ==
    /\ path \in Synced
    /\ \/ view.tree[path].kind = "file"
       \/ view.tree[path] = Link("main") /\ view.main[path] # Missing
    /\ view.baseline[path] = view.tree[path]

\* R4: the main worktree's file.
DerivedFromMain(view, path) == view.tree[path] # Missing /\ view.main[path] = view.tree[path]

\* R5: the link to the worktree's .env, or a copy of it.
LinksWorktreeEnv(view, path) ==
    /\ path = "devcontainerEnv"
    /\ \/ view.tree[path] = Link("up")
       \/ view.tree[path].kind = "file" /\ view.tree["env"] = view.tree[path]

\* What passes for BranchBox's block: the values are not compared.
PassesForOurs(block) == block \in {"ours", "edited"}

\* R6: main's .env and, after it, no line but with a key that BranchBox manages.
OnlyFeatureBlock(view, path) ==
    /\ path = "env"
    /\ view.tree[path].kind = "file" /\ view.main[path].kind = "file"
    /\ view.tree[path].own = view.main[path].own
    /\ PassesForOurs(view.tree[path].block)

\* R7: the committed settings, or none, but for the managed keys and comments; one
\* task with the label of the feature-URL task, whatever it runs and is beside it.
Committed(view, entry) == IF entry.x = "?" THEN "none" ELSE view.head[entry.path].own
OnlyManagedSettings(view, entry) ==
    /\ entry.path = "settings"
    /\ view.tree["settings"].kind = "file"
    /\ view.tree["settings"].own = Committed(view, entry)
OnlyFeatureTask(view, path) ==
    path = "tasks" /\ view.tree[path].kind = "file" /\ PassesForOurs(view.tree[path].block)

Generated(view, entry) ==
    \/ SyncedBaseline(view, entry.path) \/ DerivedFromMain(view, entry.path)
    \/ LinksWorktreeEnv(view, entry.path) \/ OnlyFeatureBlock(view, entry.path)
    \/ OnlyManagedSettings(view, entry) \/ OnlyFeatureTask(view, entry.path)

\* The spec that the teardown moves, or one that is gone: `kept` is the former.
Preserved(view, path, kept) == path \in Specs /\ (kept = path \/ view.tree[path] = Missing)

\* Slip: staged changes are compared like the others.
VerdictStaged(view, entry, kept) ==
    CASE Preserved(view, entry.path, kept) -> "preserved"
      [] ~Preserved(view, entry.path, kept) /\ (entry.path \in Reserved \/ Generated(view, entry)) -> "generated"
      [] OTHER -> "user"

\* classify_entry.
Verdict(view, entry, kept) ==
    CASE Preserved(view, entry.path, kept) -> "preserved"
      [] /\ ~Preserved(view, entry.path, kept)
         /\ entry.path \in Reserved \/ (UnstagedOnly(entry) /\ Generated(view, entry)) -> "generated"
      [] OTHER -> "user"

(* classify_changes: after MaxEntries the rest counts as the user's.          *)
Listed(entries) == {e \in entries : Cardinality({d \in entries : Before(d, e)}) < MaxEntries}
Unlisted(entries) == Cardinality(entries) > MaxEntries

UserChanges(view, entries, kept) == {e \in Listed(entries) : Verdict(view, e, kept) = "user"}

-----------------------------------------------------------------------------
(* The decision.                                                              *)
Requests == [force : BOOLEAN, discard : BOOLEAN, modules : BOOLEAN, complete : BOOLEAN]
Discards(request) == request.discard \/ request.force

Blocking(changes, request) == {e \in changes : ~(request.modules /\ ModuleArea(e.path))}

\* determine_feature_spec: the first there is.
KeptSpec(view) ==
    CASE view.tree["spec"] # Missing -> "spec"
      [] view.tree["spec"] = Missing /\ view.tree["oldSpec"] # Missing -> "oldSpec"
      [] OTHER -> "none"

\* build_teardown_plan does not refuse for the sake of the changes.
PlanProceeds(view, request) ==
    \/ Discards(request)
    \/ /\ Blocking(UserChanges(view, Status(view), KeptSpec(view)), request) = {}
       /\ ~Unlisted(Status(view))

(* handle_spec_on_teardown: the spec is moved to the main worktree; one of a  *)
(* completed feature is copied, unless it is completed again.                 *)
Copied(view, request) == KeptSpec(view) = "oldSpec" /\ ~request.complete
SpecMoved(view, request) ==
    IF KeptSpec(view) = "none" \/ Copied(view, request) THEN view
    ELSE [view EXCEPT !.tree = [@ EXCEPT ![KeptSpec(view)] = Missing]]

(* recheck_before_removal: what is a pure deletion loses nothing; the others  *)
(* are told apart by their paths (Classification::content_changes).           *)
PureDeletions(changes) == {e.path : e \in {d \in changes : PureDeletion(d)}}

\* Slip: any deletion loses nothing.
ContentKept(changes) == {e \in changes : e.x # "D" /\ e.y # "D"}

ContentChanges(changes) == {e \in changes : e.path \notin PureDeletions(changes)}

RecheckProceeds(view, request) ==
    LET kept == IF Copied(view, request) THEN "oldSpec" ELSE "none"
        after == SpecMoved(view, request)
        changes == UserChanges(after, Status(after), kept)
    IN \/ Discards(request)
       \/ Blocking(ContentChanges(changes), request) = {} /\ ~Unlisted(Status(after))
==============================================================================
