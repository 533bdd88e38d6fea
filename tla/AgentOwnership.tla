--------------------------- MODULE AgentOwnership ---------------------------
(***************************************************************************)
(* What the connect handlers promise of an agent: at any time at most one  *)
(* workspace asks for it or has it, and a workspace comes to have it only  *)
(* by the Agent's acceptance of the request that stands.  Nothing else is  *)
(* promised: a request that was checked early replaces whoever holds the   *)
(* agent by then (ConnectRequest says when that may happen).               *)
(***************************************************************************)

CONSTANTS Workspaces, NoWorkspace

VARIABLES
    asker,          \* the workspace whose request stands
    owner           \* the workspace that has the agent

Init == asker = NoWorkspace /\ owner = NoWorkspace

Ask(w) == asker' = w /\ owner' = NoWorkspace

Accept ==
    /\ asker \in Workspaces
    /\ owner' = asker
    /\ asker' = NoWorkspace

\* The request is taken back or rejected, or the agent disconnected.
Free == asker' = NoWorkspace /\ owner' = NoWorkspace

Next == Accept \/ Free \/ \E w \in Workspaces : Ask(w)

Spec == Init /\ [][Next]_<<asker, owner>>

=============================================================================
