--------------------------- MODULE StashTransfer ----------------------------
(***************************************************************************)
(* How a start moves the uncommitted changes of the main checkout into its *)
(* new worktree: capture_stash pushes them on git's stash, which all       *)
(* worktrees of the repository share, and apply_stash_to_worktree pops     *)
(* them once the worktree is set up.  Every git command is one step; the   *)
(* user edits, commits and stashes on her own.                             *)
(***************************************************************************)
EXTENDS Naturals, Sequences, FiniteSets

CONSTANTS
    Features, \* the features being started, each once
    Changes,  \* changes the user makes in the main checkout
    Excluded, \* those to files that stash_excluded_pathspecs names
    Beside,   \* whether starts run beside each other
    NoRef     \* nothing was stashed (StashState::default)

ASSUME StashTransferAssumption ==
    /\ Excluded \subseteq Changes
    /\ Beside \in BOOLEAN
    /\ NoRef \notin Nat

VARIABLES
    checkout, \* uncommitted changes in the main checkout
    stash,    \* the stash, newest entry first
    work,     \* [Features -> changes in the feature's worktree]
    at,       \* [Features -> the step its start is about to take]
    before,   \* [Features -> stash_before, an entry standing for its oid]
    ref,      \* [Features -> n of its reference "stash@{n}", or NoRef]
    warned,   \* features whose start has a warning about the stash
    made,     \* history: changes made and not committed
    taken     \* history: [Features -> the changes its start has stashed]

stashVars == <<checkout, stash, work, at, before, ref, warned, made, taken>>

CaptureSteps == {"lookBefore", "status", "push", "lookAfter", "list"}
Steps == CaptureSteps \cup {"idle", "setup", "apply", "done", "failed"}

(* refs/stash; no entry is empty, so {} says that there is none. *)
Top == IF stash = <<>> THEN {} ELSE Head(stash)

InitStash ==
    /\ checkout = {}
    /\ stash = <<>>
    /\ work = [f \in Features |-> {}]
    /\ at = [f \in Features |-> "idle"]
    /\ before = [f \in Features |-> {}]
    /\ ref = [f \in Features |-> NoRef]
    /\ warned = {}
    /\ made = {}
    /\ taken = [f \in Features |-> {}]

Resting == \A f \in Features : at[f] \in {"idle", "done", "failed"}

Goto(f, step) == at' = [at EXCEPT ![f] = step]

(***************************************************************************)
(* The start's part.                                                       *)
(***************************************************************************)
(* A new worktree has been made. *)
Begin(f) ==
    /\ at[f] = "idle"
    /\ Beside \/ Resting
    /\ Goto(f, "lookBefore")
    /\ UNCHANGED <<checkout, stash, work, before, ref, warned, made, taken>>

LookBefore(f) ==
    /\ at[f] = "lookBefore"
    /\ before' = [before EXCEPT ![f] = Top]
    /\ Goto(f, "status")
    /\ UNCHANGED <<checkout, stash, work, ref, warned, made, taken>>

(* The status shows the excluded files too. *)
ShowStatus(f) ==
    /\ at[f] = "status"
    /\ Goto(f, IF checkout = {} THEN "setup" ELSE "push")
    /\ UNCHANGED <<checkout, stash, work, before, ref, warned, made, taken>>

(* With nothing to save "git stash push" succeeds and makes no entry. *)
Push(f) ==
    /\ at[f] = "push"
    /\ LET saved == checkout \ Excluded
       IN  IF saved = {}
           THEN UNCHANGED <<checkout, stash, taken>>
           ELSE /\ stash' = <<saved>> \o stash
                /\ checkout' = checkout \ saved
                /\ taken' = [taken EXCEPT ![f] = saved]
    /\ Goto(f, "lookAfter")
    /\ UNCHANGED <<work, before, ref, warned, made>>

(* Slip: any entry is taken for the one just made. *)
LookAfterOnly(f) ==
    /\ at[f] = "lookAfter"
    /\ Goto(f, IF Top = {} THEN "setup" ELSE "list")
    /\ UNCHANGED <<checkout, stash, work, before, ref, warned, made, taken>>

(* An entry was made if there is another top than before. *)
LookAfter(f) ==
    /\ at[f] = "lookAfter"
    /\ Goto(f, IF Top \in {{}, before[f]} THEN "setup" ELSE "list")
    /\ UNCHANGED <<checkout, stash, work, before, ref, warned, made, taken>>

(* The first line of "git stash list" always names stash@{0}, and so does  *)
(* the default for an empty list.                                          *)
List(f) ==
    /\ at[f] = "list"
    /\ ref' = [ref EXCEPT ![f] = 0]
    /\ Goto(f, "setup")
    /\ UNCHANGED <<checkout, stash, work, before, warned, made, taken>>

(* Slip: the failure is passed over in silence. *)
CaptureFailsSilently(f) ==
    /\ at[f] \in CaptureSteps
    /\ Goto(f, "setup")
    /\ UNCHANGED <<checkout, stash, work, before, ref, warned, made, taken>>

(* A git command of capture_stash fails; the start warns and goes on. *)
CaptureFails(f) ==
    /\ at[f] \in CaptureSteps
    /\ warned' = warned \cup {f}
    /\ Goto(f, "setup")
    /\ UNCHANGED <<checkout, stash, work, before, ref, made, taken>>

(* Spec, adapter, environment and modules. *)
Setup(f) ==
    /\ at[f] = "setup"
    /\ Goto(f, "apply")
    /\ UNCHANGED <<checkout, stash, work, before, ref, warned, made, taken>>

(* An error of prepare_env ends the start, its warnings unprinted. *)
SetupFails(f) ==
    /\ at[f] = "setup"
    /\ warned' = warned \ {f}
    /\ Goto(f, "failed")
    /\ UNCHANGED <<checkout, stash, work, before, ref, made, taken>>

(* What "git stash pop stash@{n}" takes off the stash. *)
Without(n) == SubSeq(stash, 1, n) \o SubSeq(stash, n + 2, Len(stash))

Apply(f) ==
    /\ at[f] = "apply"
    /\ IF ref[f] = NoRef
       THEN UNCHANGED <<stash, work>>
       ELSE /\ ref[f] < Len(stash)
            /\ work' = [work EXCEPT ![f] = @ \cup stash[ref[f] + 1]]
            /\ stash' = Without(ref[f])
    /\ Goto(f, "done")
    /\ UNCHANGED <<checkout, before, ref, warned, made, taken>>

(* Slip: the entry is dropped although it did not apply. *)
ApplyAndDrop(f) ==
    /\ at[f] = "apply"
    /\ ref[f] # NoRef
    /\ stash' = Without(ref[f])
    /\ warned' = warned \cup {f}
    /\ Goto(f, "done")
    /\ UNCHANGED <<checkout, work, before, ref, made, taken>>

(* A conflict, or no such entry: git keeps what is on the stash. *)
ApplyFails(f) ==
    /\ at[f] = "apply"
    /\ ref[f] # NoRef
    /\ warned' = warned \cup {f}
    /\ Goto(f, "done")
    /\ UNCHANGED <<checkout, stash, work, before, ref, made, taken>>

(* The start dies. *)
Crash(f) ==
    /\ at[f] \in CaptureSteps \cup {"setup", "apply"}
    /\ warned' = warned \ {f}
    /\ Goto(f, "failed")
    /\ UNCHANGED <<checkout, stash, work, before, ref, made, taken>>

(***************************************************************************)
(* The user's part.                                                        *)
(***************************************************************************)
MakeChange(c) ==
    /\ c \notin made
    /\ made' = made \cup {c}
    /\ checkout' = checkout \cup {c}
    /\ UNCHANGED <<stash, work, at, before, ref, warned, taken>>

CommitChanges ==
    /\ checkout # {}
    /\ checkout' = {}
    /\ made' = made \ checkout
    /\ UNCHANGED <<stash, work, at, before, ref, warned, taken>>

(* "git stash" by hand, while no start runs. *)
UserStash ==
    /\ Resting
    /\ checkout # {}
    /\ stash' = <<checkout>> \o stash
    /\ checkout' = {}
    /\ UNCHANGED <<work, at, before, ref, warned, made, taken>>

NextStash ==
    \/ \E f \in Features :
        \/ Begin(f)
        \/ LookBefore(f)
        \/ ShowStatus(f)
        \/ Push(f)
        \/ LookAfter(f)
        \/ List(f)
        \/ CaptureFails(f)
        \/ Setup(f)
        \/ SetupFails(f)
        \/ Apply(f)
        \/ ApplyFails(f)
        \/ Crash(f)
    \/ \E c \in Changes : MakeChange(c)
    \/ CommitChanges
    \/ UserStash

SpecStash == InitStash /\ [][NextStash]_stashVars

(***************************************************************************)
(* Properties.                                                             *)
(***************************************************************************)
Stashed == UNION {stash[i] : i \in DOMAIN stash}
InWorktrees == UNION {work[f] : f \in Features}

(* The types of the variables. *)
StashTypeOK ==
    /\ checkout \subseteq Changes
    /\ stash \in Seq(SUBSET Changes)
    /\ work \in [Features -> SUBSET Changes]
    /\ at \in [Features -> Steps]
    /\ before \in [Features -> SUBSET Changes]
    /\ ref \in [Features -> {NoRef, 0}]
    /\ warned \subseteq Features
    /\ made \subseteq Changes
    /\ taken \in [Features -> SUBSET Changes]

(* No uncommitted change vanishes: whatever fails or dies on the way, it   *)
(* is in the main checkout, on the stash, or in a worktree.                *)
ChangesKept == made \subseteq checkout \cup Stashed \cup InWorktrees

(* A worktree gets only the changes that its own start has stashed, also   *)
(* with entries on the stash that a failed start or the user left there.   *)
OwnChangesOnly == \A f \in Features : work[f] \subseteq taken[f]

(* A start that ends well has brought everything it took out of the main   *)
(* checkout into its worktree, or says that it has not.                    *)
TakenIsDelivered ==
    \A f \in Features : at[f] = "done" => taken[f] \subseteq work[f] \/ f \in warned
=============================================================================
