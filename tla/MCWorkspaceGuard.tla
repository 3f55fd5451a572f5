--------------------------- MODULE MCWorkspaceGuard ---------------------------
(* Small instances of WorkspaceGuard for TLC. *)
EXTENDS WorkspaceGuard, TLC

(* Processes are interchangeable, and so are ticket names. *)
Symmetry == Permutations(Proc) \cup Permutations(Id)
=============================================================================
