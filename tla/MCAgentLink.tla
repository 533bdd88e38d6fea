---------------------------- MODULE MCAgentLink ----------------------------
(***************************************************************************)
(* One agent for TLC.  Connections and jobs are interchangeable in the    *)
(* safety run; the liveness runs use no symmetry.                          *)
(***************************************************************************)
EXTENDS AgentLink, TLC

Symmetry == Permutations(Sockets) \cup Permutations(Jobs)
=============================================================================
