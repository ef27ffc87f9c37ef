------------------------- MODULE MCFeatureLifecycle -------------------------
(* Requests for FeatureLifecycle: the flags of the CLI, and the agent's.   *)
EXTENDS FeatureLifecycle

CONSTANTS P1, P2

Start(kind, reuse, keep) == [kind |-> kind, reuse |-> reuse, keep |-> keep]

SbxStarts == {r \in StartRequest : r.kind = "sbx"}
InGuestStart == Start("in_guest", FALSE, FALSE)
ContainerStarts == {r \in StartRequest : r.kind = "container"}

(* The CLI refuses unmerged branches up front; the agent discards under    *)
(* --force only, and has no such preflight.                                *)
CliTeardowns == {r \in TeardownRequest : r.mergeable}
AgentTeardowns == {r \in TeardownRequest : ~ r.mergeable /\ r.discard = r.force}
AllTeardowns == CliTeardowns \cup AgentTeardowns

Teardown(force, deleteBranch) ==
    [discard |-> force, force |-> force, mergeable |-> TRUE, deleteBranch |-> deleteBranch]

\* One call at a time, with sandboxes and in-guest runtimes.
Alone ==
    [agents |-> {}, starts |-> SbxStarts \cup {InGuestStart}, teardowns |-> AllTeardowns,
     remoteBranch |-> TRUE, overlap |-> "none"]

\* Starts beside each other, in the agent's process and another; teardowns alone.
StartsTogether ==
    [agents |-> {P1}, starts |-> ContainerStarts \cup {InGuestStart},
     teardowns |-> {Teardown(FALSE, "keep"), Teardown(TRUE, "delete")},
     remoteBranch |-> TRUE, overlap |-> "starts"]

\* A start beside a teardown of the same feature.
Race ==
    [agents |-> {}, starts |-> ContainerStarts, teardowns |-> {Teardown(FALSE, "delete")},
     remoteBranch |-> TRUE, overlap |-> "all"]

\* A start of another provider that reuses a sandbox's worktree.
Providers ==
    [agents |-> {}, starts |-> SbxStarts \cup ContainerStarts, teardowns |-> {},
     remoteBranch |-> FALSE, overlap |-> "none"]

MCLifecycle == {Alone, StartsTogether}
MCRace == {Race}
MCProviders == {Providers}
=============================================================================
