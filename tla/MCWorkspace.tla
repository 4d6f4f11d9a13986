---------------------------- MODULE MCWorkspace ----------------------------
(* Instances of Workspace for TLC. *)
EXTENDS Workspace, TLC

\* Cells, notebooks and folders are interchangeable.
Symmetry == Permutations(CellUris) \cup Permutations(Notebooks) \cup Permutations(Folders)

=============================================================================
