--------------------------- MODULE ConnectRequest ---------------------------
(***************************************************************************)
(* How an agent comes to belong to a workspace: a workspace asks for it,   *)
(* the Agent accepts or rejects, and the workspace cancels the request or  *)
(* disconnects the agent (WorkspaceService and AgentService).  The columns *)
(* agent_connection and agent_parent_workspace of one agent are all the    *)
(* state.  Each handler reads the row and writes it later; only the        *)
(* Agent's own answers are conditional on what the row holds by then.      *)
(***************************************************************************)
EXTENDS Naturals

CONSTANTS
    Workspaces,
    Jobs,           \* handlers at the same time
    NoWorkspace

ASSUME NoWorkspaceAssumption == NoWorkspace \notin Workspaces

VARIABLES
    connection,     \* agents.agent_connection
    parent,         \* agents.agent_parent_workspace
    deleted,        \* workspaces with workspace_deleted_at set
    jobs,           \* the suspended handlers
    told,           \* history: the Agent was sent the request the row holds
    lost,           \* history: the Hub stopped, or the database refused a query of the
                    \* handler, before the request was sent or taken back
    racers          \* history: handlers that had read the row before it was last taken

vars == <<connection, parent, deleted, jobs, told, lost, racers>>
agentRow == <<connection, parent>>

Kinds == {"request", "cancel", "disconnect", "accept", "reject"}

Job == [kind: Kinds \cup {"none"}, pc: {"idle", "agent", "write", "send", "rollback"},
        ws: Workspaces \cup {NoWorkspace}]

NoJob == [kind |-> "none", pc |-> "idle", ws |-> NoWorkspace]

TypeOK ==
    /\ connection \in {"unlinked", "requested", "linked"}
    /\ parent \in Workspaces \cup {NoWorkspace}
    /\ deleted \in SUBSET Workspaces
    /\ jobs \in [Jobs -> Job]
    /\ told \in BOOLEAN
    /\ lost \in BOOLEAN
    /\ racers \in SUBSET Jobs

Init ==
    /\ connection = "unlinked"
    /\ parent = NoWorkspace
    /\ deleted = {}
    /\ jobs = [j \in Jobs |-> NoJob]
    /\ told = FALSE
    /\ lost = FALSE
    /\ racers = {}

-----------------------------------------------------------------------------
(* Helpers *)

At(j, kind, pc) == jobs[j].kind = kind /\ jobs[j].pc = pc

Start(j, kind, pc, w) ==
    /\ jobs[j] = NoJob
    /\ jobs' = [jobs EXCEPT ![j] = [kind |-> kind, pc |-> pc, ws |-> w]]
    /\ UNCHANGED <<agentRow, deleted, told, lost, racers>>

Goto(j, pc) == jobs' = [jobs EXCEPT ![j].pc = pc]

Finish(j) == jobs' = [jobs EXCEPT ![j] = NoJob]

\* Handlers other than j that have read the row and have yet to write.
Pending(j) == {i \in Jobs \ {j} : jobs[i].pc \in {"write", "send", "rollback"}}

\* One update of both columns, whatever they hold.
Release ==
    /\ connection' = "unlinked"
    /\ parent' = NoWorkspace

-----------------------------------------------------------------------------
(* requestConnectWorkspaceAndAgent *)

requestConnect(j, w) ==
    /\ w \notin deleted
    /\ Start(j, "request", "agent", w)

\* An agent that is requested or linked is refused.
RequestRead(j) ==
    /\ At(j, "request", "agent")
    /\ IF connection = "unlinked" THEN Goto(j, "write") ELSE Finish(j)
    /\ UNCHANGED <<agentRow, deleted, told, lost, racers>>

\* Mutant: an agent that was linked meanwhile stays linked.
RequestKeepsLink(j) ==
    /\ At(j, "request", "write")
    /\ connection' = IF connection = "linked" THEN "linked" ELSE "requested"
    /\ parent' = jobs[j].ws
    /\ told' = FALSE
    /\ lost' = FALSE
    /\ racers' = Pending(j)
    /\ Goto(j, "send")
    /\ UNCHANGED deleted

RequestWrite(j) ==
    /\ At(j, "request", "write")
    /\ connection' = "requested"
    /\ parent' = jobs[j].ws
    /\ told' = FALSE
    /\ lost' = FALSE
    /\ racers' = Pending(j)
    /\ Goto(j, "send")
    /\ UNCHANGED deleted

\* sendToAgent delivers the prompt.
RequestSend(j) ==
    /\ At(j, "request", "send")
    /\ told' = (told \/ (connection = "requested" /\ parent = jobs[j].ws))
    /\ racers' = racers \ {j}
    /\ Finish(j)
    /\ UNCHANGED <<agentRow, deleted, lost>>

\* Mutant: an Agent that cannot be reached leaves the request standing.
SendFailsSilently(j) ==
    /\ At(j, "request", "send")
    /\ racers' = racers \ {j}
    /\ Finish(j)
    /\ UNCHANGED <<agentRow, deleted, told, lost>>

\* The Agent is not connected: the request is taken back.
RequestSendFails(j) ==
    /\ At(j, "request", "send")
    /\ Goto(j, "rollback")
    /\ UNCHANGED <<agentRow, deleted, told, lost, racers>>

RequestRollback(j) ==
    /\ At(j, "request", "rollback")
    /\ Release
    /\ racers' = racers \ {j}
    /\ Finish(j)
    /\ UNCHANGED <<deleted, told, lost>>

-----------------------------------------------------------------------------
(* cancelWorkspaceAgentConnectionRequest and disconnectWorkspaceAgent *)

\* The agent of this workspace, of which the caller is the owner.
IsOwn(w) == parent = w /\ w \notin deleted

cancelConnectionRequest(j, w) ==
    /\ IsOwn(w) /\ connection = "requested"
    /\ Start(j, "cancel", "write", w)

\* Mutant: any workspace may let go of the agent.
DisconnectFromAnyWorkspace(j, w) ==
    /\ w \notin deleted /\ connection = "linked"
    /\ Start(j, "disconnect", "write", w)

disconnectWorkspaceAgent(j, w) ==
    /\ IsOwn(w) /\ connection = "linked"
    /\ Start(j, "disconnect", "write", w)

\* The write of either; telling the Agent and the console follows and changes no row.
ReleaseWrite(j) ==
    /\ At(j, "cancel", "write") \/ At(j, "disconnect", "write")
    /\ Release
    /\ racers' = racers \ {j}
    /\ Finish(j)
    /\ UNCHANGED <<deleted, told, lost>>

-----------------------------------------------------------------------------
(* The Agent's answers.  Neither says which request it answers. *)

handleAcceptConnectRequest(j) ==
    /\ connection = "requested"
    /\ Start(j, "accept", "write", NoWorkspace)

handleRejectConnectRequest(j) ==
    /\ connection = "requested"
    /\ Start(j, "reject", "write", NoWorkspace)

AcceptWrite(j) ==
    /\ At(j, "accept", "write")
    /\ connection = "requested"
    /\ connection' = "linked"
    /\ racers' = Pending(j)
    /\ Finish(j)
    /\ UNCHANGED <<parent, deleted, told, lost>>

RejectWrite(j) ==
    /\ At(j, "reject", "write")
    /\ connection = "requested"
    /\ Release
    /\ racers' = racers \ {j}
    /\ Finish(j)
    /\ UNCHANGED <<deleted, told, lost>>

\* No row matches the condition any more: the update throws.
AnswerTooLate(j) ==
    /\ At(j, "accept", "write") \/ At(j, "reject", "write")
    /\ connection # "requested"
    /\ racers' = racers \ {j}
    /\ Finish(j)
    /\ UNCHANGED <<agentRow, deleted, told, lost>>

-----------------------------------------------------------------------------
\* The query that the job awaits is refused, or it is done and its answer is lost (then the
\* job has passed the write): the handler throws and nothing of it is undone.  A request
\* whose rollback is refused stands although the Agent was never told.
HandlerThrows(j) ==
    /\ jobs[j] # NoJob
    /\ lost' = (\/ lost
                \/ /\ jobs[j].pc \in {"send", "rollback"}
                   /\ connection = "requested" /\ parent = jobs[j].ws /\ ~told)
    /\ racers' = racers \ {j}
    /\ Finish(j)
    /\ UNCHANGED <<agentRow, deleted, told>>

\* The end of handleDeleteWorkspace, as far as agents see it: their rows stay as they are.
WorkspaceDeleted(w) ==
    /\ deleted' = deleted \cup {w}
    /\ UNCHANGED <<agentRow, jobs, told, lost, racers>>

HubRestart ==
    /\ jobs' = [j \in Jobs |-> NoJob]
    /\ lost' = (connection = "requested" /\ ~told)
    /\ racers' = {}
    /\ UNCHANGED <<agentRow, deleted, told>>

Next ==
    \/ \E j \in Jobs :
          \/ \E w \in Workspaces : \/ requestConnect(j, w)
                                   \/ cancelConnectionRequest(j, w)
                                   \/ disconnectWorkspaceAgent(j, w)
          \/ RequestRead(j) \/ RequestWrite(j) \/ RequestSend(j) \/ RequestSendFails(j)
          \/ RequestRollback(j) \/ ReleaseWrite(j)
          \/ handleAcceptConnectRequest(j) \/ handleRejectConnectRequest(j)
          \/ AcceptWrite(j) \/ RejectWrite(j) \/ AnswerTooLate(j) \/ HandlerThrows(j)
    \/ \E w \in Workspaces : WorkspaceDeleted(w)
    \/ HubRestart

Spec == Init /\ [][Next]_vars

-----------------------------------------------------------------------------
(* The promise: AgentOwnership *)

\* The workspace the row names, if the row is in this state.
HolderWhile(state) == IF connection = state THEN parent ELSE NoWorkspace

Ownership == INSTANCE AgentOwnership
                 WITH asker <- HolderWhile("requested"), owner <- HolderWhile("linked")

\* The handlers implement AgentOwnership, however they interleave: at most one workspace
\* asks for the agent or has it, and it goes from one workspace to another only through a
\* request of the other that the Agent accepts while it stands.
OwnershipIsImplemented == Ownership!Spec

-----------------------------------------------------------------------------
(* Properties *)

\* However requests, answers, cancellations and disconnections interleave, the agent
\* belongs to a workspace exactly when it is requested or linked.
TakenHasParent == connection = "unlinked" <=> parent = NoWorkspace

\* A request that stands was sent to the Agent, is about to be sent or taken back, or the
\* Hub stopped, or the database refused the handler, in between: no order of answers,
\* cancellations and other requests leaves an agent requested that was never asked.
RequestReachesAgent ==
    connection = "requested" =>
        \/ told
        \/ lost
        \/ \E j \in Jobs : jobs[j].ws = parent /\ jobs[j].pc \in {"send", "rollback"}

\* A workspace loses an agent it has linked only by its own disconnect, and one it has
\* requested by its own cancellation, the Agent's rejection or a prompt that could not be
\* sent; or else by a handler that had read the row before the workspace took it.
RowIsKept ==
    [][connection # "unlinked" /\ (parent' # parent \/ (connection = "linked" /\ connection' # "linked"))
         => \E j \in Jobs :
               /\ jobs'[j] # jobs[j]
               /\ \/ j \in racers
                  \/ jobs[j].kind = "reject" /\ connection = "requested"
                  \/ /\ jobs[j].ws = parent
                     /\ jobs[j].kind \in IF connection = "linked" THEN {"disconnect"}
                                         ELSE {"cancel", "request"}]_vars

=============================================================================
