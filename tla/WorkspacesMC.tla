---------------------------- MODULE WorkspacesMC ----------------------------
(* Workspaces for TLC: handles and configuration fields are interchangeable. *)
EXTENDS Workspaces, TLC

Symmetry == Permutations(Handles) \cup Permutations(Fields)
=============================================================================
