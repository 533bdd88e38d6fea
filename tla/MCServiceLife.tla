--------------------------- MODULE MCServiceLife ---------------------------
(* ServiceLife for TLC. *)
EXTENDS ServiceLife, TLC

Symmetry ==
    Permutations(Services) \cup Permutations(Names) \cup Permutations(Subs) \cup Permutations(Jobs)

=============================================================================
