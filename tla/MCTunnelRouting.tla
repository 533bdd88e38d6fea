-------------------------- MODULE MCTunnelRouting --------------------------
(* The route cache for TLC; requests and operators are told apart by fairness. *)
EXTENDS TunnelRouting
=============================================================================
