------------------------- MODULE MCConnectRequest -------------------------
(* Workspaces and handlers are interchangeable. *)
EXTENDS ConnectRequest, TLC

Symmetry == Permutations(Workspaces) \cup Permutations(Jobs)
=============================================================================
