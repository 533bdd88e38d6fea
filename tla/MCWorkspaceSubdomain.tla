----------------------- MODULE MCWorkspaceSubdomain -----------------------
(* Workspaces, subdomains, records and handlers are interchangeable. *)
EXTENDS WorkspaceSubdomain, TLC

Symmetry == Permutations(Workspaces) \cup Permutations(Names)
              \cup Permutations(Records) \cup Permutations(Jobs)
=============================================================================
