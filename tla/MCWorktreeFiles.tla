---------------------------- MODULE MCWorktreeFiles ----------------------------
(* The instances of WorktreeFiles: the paths that the user works on together. *)
EXTENDS WorktreeFiles

MCFocuses == {{"config", "extra"}, {"env", "devcontainerEnv"}, {"settings"}, {"tasks"}, {"spec", "oldSpec"}, {"branchboxEnv"}, {"extra", "source"}}
==============================================================================
