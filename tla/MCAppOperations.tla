-------------------------- MODULE MCAppOperations --------------------------
(* Requests that meet in every way: on one feature, on one branch, writers  *)
(* of the registry, project-wide ones, an exec, and another project's.      *)
EXTENDS AppOperations

MCRequests ==
    {"start", "teardown", "tunnelOpen", "devcontainerUp", "prune", "deleteBranch", "exec",
     "elsewhere"}

MCKind == [q \in MCRequests |-> IF q = "elsewhere" THEN "applyConfig" ELSE q]
MCProject == [q \in MCRequests |-> IF q = "elsewhere" THEN "other" ELSE "this"]
MCTargets ==
    [q \in MCRequests |->
        CASE q \in {"start", "teardown", "exec"} -> {"a"}
          [] q \in {"tunnelOpen", "devcontainerUp"} -> {"b"}
          [] q = "prune" -> {"a", "b"}
          [] OTHER -> {}]
MCKeys ==
    [q \in MCRequests |-> IF q \in {"teardown", "prune", "deleteBranch"} THEN {"branch a"} ELSE {}]

\* Operations that wait for each other, and operations whose effect is to be shown.
MCScenarios ==
    {[requests |-> {"start", "tunnelOpen", "devcontainerUp", "prune", "exec"},
      dispatches |-> 3, events |-> {"cancel", "bootstrap"}, watching |-> {FALSE}],
     [requests |-> {"teardown", "prune", "deleteBranch", "elsewhere"}, dispatches |-> 3,
      events |-> {"cancel", "quit"}, watching |-> {FALSE}],
     [requests |-> {"start", "teardown"}, dispatches |-> 2,
      events |-> {"cancel", "terminal", "toggle", "bootstrap"}, watching |-> {TRUE, FALSE}]}
=============================================================================
