------------------------ MODULE ConnectRequestProofs ------------------------
(***************************************************************************)
(* Proofs about ConnectRequest for any number of workspaces and handlers.  *)
(***************************************************************************)
EXTENDS ConnectRequest, TLAPS

USE NoWorkspaceAssumption

USE DEF agentRow

\* A suspended request names the workspace that made it.
RequestsNameWorkspace ==
    \A j \in Jobs : jobs[j].kind = "request" => jobs[j].ws \in Workspaces

\* A handler that read the row after it was last taken and has yet to write it is one
\* that may: the parent's own, or the Agent's answer to a request that stands.
NewcomersAreOwn ==
    \A j \in Jobs \ racers :
        jobs[j].pc \in {"write", "send", "rollback"} =>
            /\ connection = "linked" =>
                  jobs[j].kind = "disconnect" /\ jobs[j].ws = parent
            /\ connection = "requested" =>
                  \/ jobs[j].kind = "cancel" /\ jobs[j].ws = parent
                  \/ jobs[j].kind = "request" /\ jobs[j].pc # "write" /\ jobs[j].ws = parent
                  \/ jobs[j].kind \in {"accept", "reject"}

-----------------------------------------------------------------------------
(* How a handler's record changes *)

\* A handler that starts is well typed and leaves the row and the other handlers alone.
LEMMA StartTyped ==
  ASSUME TypeOK, NEW j \in Jobs, NEW kind \in Kinds, NEW pc \in {"agent", "write"},
         NEW w \in Workspaces \cup {NoWorkspace}, Start(j, kind, pc, w)
  PROVE  /\ TypeOK'
         /\ jobs[j].pc = "idle"
         /\ jobs'[j].kind = kind /\ jobs'[j].pc = pc /\ jobs'[j].ws = w
         /\ \A i \in Jobs \ {j} : jobs'[i] = jobs[i]
         /\ UNCHANGED <<connection, parent, told, lost, racers>>
<1>1. [kind |-> kind, pc |-> pc, ws |-> w] \in Job
  BY DEF Job
<1>2. jobs \in [Jobs -> Job] /\ jobs[j] = NoJob
  BY DEF TypeOK, Start
<1>. QED
  BY <1>1, <1>2 DEF TypeOK, Start, NoJob

\* A handler that goes on keeps its kind and its workspace.
LEMMA GotoTyped ==
  ASSUME jobs \in [Jobs -> Job], NEW j \in Jobs, NEW pc \in {"write", "send", "rollback"}, Goto(j, pc)
  PROVE  /\ jobs' \in [Jobs -> Job]
         /\ jobs'[j].kind = jobs[j].kind /\ jobs'[j].pc = pc /\ jobs'[j].ws = jobs[j].ws
         /\ \A i \in Jobs \ {j} : jobs'[i] = jobs[i]
BY DEF Goto, Job

\* A handler that ends is gone.
LEMMA FinishTyped ==
  ASSUME jobs \in [Jobs -> Job], NEW j \in Jobs, Finish(j)
  PROVE  /\ jobs' \in [Jobs -> Job]
         /\ jobs'[j].kind = "none" /\ jobs'[j].pc = "idle"
         /\ \A i \in Jobs \ {j} : jobs'[i] = jobs[i]
<1>1. NoJob \in Job
  BY DEF NoJob, Job
<1>. QED
  BY <1>1 DEF Finish, NoJob

-----------------------------------------------------------------------------
(* The invariant *)

\* What every step keeps: the state is well typed, the agent has a parent exactly when it
\* is taken, requests reach the Agent and handlers that came after the row was taken may
\* write it.
IndInv ==
    /\ TypeOK
    /\ RequestsNameWorkspace
    /\ TakenHasParent
    /\ RequestReachesAgent
    /\ NewcomersAreOwn

\* The empty row and no handler satisfy it.
LEMMA InitHolds == Init => IndInv
<1>1. NoJob \in Job
  BY DEF NoJob, Job
<1>2. Init => jobs \in [Jobs -> Job] /\ \A j \in Jobs : jobs[j].kind = "none" /\ jobs[j].pc = "idle"
  BY <1>1 DEF Init, NoJob
<1>3. Init => TypeOK
  BY <1>2 DEF Init, TypeOK
<1>. QED
  BY <1>2, <1>3 DEF Init, IndInv, RequestsNameWorkspace, TakenHasParent,
                    RequestReachesAgent, NewcomersAreOwn

USE DEF RequestsNameWorkspace, TakenHasParent, RequestReachesAgent, NewcomersAreOwn

\* Every handler's step, the deletion of a workspace and a restart of the Hub keep it.
LEMMA StepHolds == IndInv /\ [Next]_vars => IndInv'
<1> SUFFICES ASSUME IndInv, [Next]_vars PROVE IndInv'
  OBVIOUS
<1>inv. TypeOK /\ RequestsNameWorkspace /\ TakenHasParent /\ RequestReachesAgent /\ NewcomersAreOwn
  BY DEF IndInv
<1>typed. /\ jobs \in [Jobs -> Job]
          /\ connection \in {"unlinked", "requested", "linked"}
          /\ parent \in Workspaces \cup {NoWorkspace}
          /\ racers \in SUBSET Jobs
  BY <1>inv DEF TypeOK
<1>start. ASSUME NEW j \in Jobs, NEW kind \in Kinds, NEW pc \in {"agent", "write"},
                 NEW w \in Workspaces \cup {NoWorkspace}, Start(j, kind, pc, w),
                 kind = "request" => w \in Workspaces /\ pc = "agent",
                 pc = "write" => \/ kind = "cancel" /\ connection = "requested" /\ w = parent
                                 \/ kind = "disconnect" /\ connection = "linked" /\ w = parent
                                 \/ kind \in {"accept", "reject"} /\ connection = "requested"
          PROVE  IndInv'
  <2>1. /\ TypeOK'
        /\ jobs[j].pc = "idle"
        /\ jobs'[j].kind = kind /\ jobs'[j].pc = pc /\ jobs'[j].ws = w
        /\ \A i \in Jobs \ {j} : jobs'[i] = jobs[i]
        /\ UNCHANGED <<connection, parent, told, lost, racers>>
    BY <1>start, <1>inv, StartTyped
  <2>2. RequestsNameWorkspace' /\ TakenHasParent' /\ RequestReachesAgent'
    BY <1>start, <1>inv, <2>1
  <2>3. NewcomersAreOwn'
    BY <1>start, <1>inv, <2>1
  <2>. QED
    BY <2>1, <2>2, <2>3 DEF IndInv
<1>1. ASSUME NEW j \in Jobs, NEW w \in Workspaces, requestConnect(j, w) PROVE IndInv'
  BY <1>1, <1>start DEF requestConnect, Kinds
<1>2. ASSUME NEW j \in Jobs, NEW w \in Workspaces, cancelConnectionRequest(j, w) PROVE IndInv'
  BY <1>2, <1>start DEF cancelConnectionRequest, IsOwn, Kinds
<1>3. ASSUME NEW j \in Jobs, NEW w \in Workspaces, disconnectWorkspaceAgent(j, w) PROVE IndInv'
  BY <1>3, <1>start DEF disconnectWorkspaceAgent, IsOwn, Kinds
<1>4. ASSUME NEW j \in Jobs, handleAcceptConnectRequest(j) PROVE IndInv'
  BY <1>4, <1>start DEF handleAcceptConnectRequest, Kinds
<1>5. ASSUME NEW j \in Jobs, handleRejectConnectRequest(j) PROVE IndInv'
  BY <1>5, <1>start DEF handleRejectConnectRequest, Kinds
<1>6. ASSUME NEW j \in Jobs, RequestRead(j) PROVE IndInv'
  <2>1. CASE connection = "unlinked"
    <3>1. Goto(j, "write") /\ At(j, "request", "agent") /\ UNCHANGED <<agentRow, deleted, told, lost, racers>>
      BY <1>6, <2>1 DEF RequestRead
    <3>. QED
      BY <3>1, <2>1, <1>inv, <1>typed, GotoTyped DEF IndInv, TypeOK, At
  <2>2. CASE connection # "unlinked"
    <3>1. Finish(j) /\ At(j, "request", "agent") /\ UNCHANGED <<agentRow, deleted, told, lost, racers>>
      BY <1>6, <2>2 DEF RequestRead
    <3>. QED
      BY <3>1, <1>inv, <1>typed, FinishTyped DEF IndInv, TypeOK, At
  <2>. QED
    BY <2>1, <2>2
<1>7. ASSUME NEW j \in Jobs, RequestWrite(j) PROVE IndInv'
  <2>1. /\ jobs' \in [Jobs -> Job]
        /\ jobs'[j].kind = "request" /\ jobs'[j].pc = "send" /\ jobs'[j].ws = jobs[j].ws
        /\ \A i \in Jobs \ {j} : jobs'[i] = jobs[i]
    BY <1>7, <1>typed, GotoTyped DEF RequestWrite, At
  <2>2. jobs[j].ws \in Workspaces
    BY <1>7, <1>inv DEF RequestWrite, At
  <2>3. /\ connection' = "requested" /\ parent' = jobs[j].ws /\ ~told' /\ ~lost'
        /\ deleted' = deleted
        /\ racers' = {i \in Jobs \ {j} : jobs[i].pc \in {"write", "send", "rollback"}}
    BY <1>7 DEF RequestWrite, Pending
  <2>4. TypeOK'
    BY <1>7, <1>inv, <2>1, <2>2, <2>3 DEF TypeOK, RequestWrite
  <2>5. RequestsNameWorkspace' /\ TakenHasParent' /\ RequestReachesAgent'
    BY <1>inv, <2>1, <2>2, <2>3
  <2>6. NewcomersAreOwn'
    BY <2>1, <2>3
  <2>. QED
    BY <2>4, <2>5, <2>6 DEF IndInv
<1>8. ASSUME NEW j \in Jobs, RequestSend(j) PROVE IndInv'
  <2>1. /\ jobs' \in [Jobs -> Job]
        /\ jobs'[j].kind = "none" /\ jobs'[j].pc = "idle"
        /\ \A i \in Jobs \ {j} : jobs'[i] = jobs[i]
    BY <1>8, <1>typed, FinishTyped DEF RequestSend
  <2>2. TypeOK'
    BY <1>8, <1>inv, <2>1 DEF TypeOK, RequestSend
  <2>3. RequestReachesAgent'
    BY <1>8, <1>inv, <2>1 DEF RequestSend
  <2>. QED
    BY <1>8, <1>inv, <2>1, <2>2, <2>3 DEF IndInv, RequestSend
<1>9. ASSUME NEW j \in Jobs, RequestSendFails(j) PROVE IndInv'
  <2>1. /\ jobs' \in [Jobs -> Job]
        /\ jobs'[j].kind = "request" /\ jobs'[j].pc = "rollback" /\ jobs'[j].ws = jobs[j].ws
        /\ \A i \in Jobs \ {j} : jobs'[i] = jobs[i]
    BY <1>9, <1>typed, GotoTyped DEF RequestSendFails, At
  <2>2. TypeOK'
    BY <1>9, <1>inv, <2>1 DEF TypeOK, RequestSendFails
  <2>3. RequestReachesAgent'
    BY <1>9, <1>inv, <2>1 DEF RequestSendFails, At
  <2>. QED
    BY <1>9, <1>inv, <2>1, <2>2, <2>3 DEF IndInv, RequestSendFails, At
<1>10. ASSUME NEW j \in Jobs, Finish(j), Release, racers' = racers \ {j},
              UNCHANGED <<deleted, told, lost>>
       PROVE  IndInv'
  <2>1. /\ jobs' \in [Jobs -> Job]
        /\ jobs'[j].kind = "none" /\ jobs'[j].pc = "idle"
        /\ \A i \in Jobs \ {j} : jobs'[i] = jobs[i]
    BY <1>10, <1>typed, FinishTyped
  <2>. QED
    BY <1>10, <1>inv, <2>1 DEF IndInv, TypeOK, Release
<1>11. ASSUME NEW j \in Jobs, AcceptWrite(j) PROVE IndInv'
  <2>1. /\ jobs' \in [Jobs -> Job]
        /\ jobs'[j].kind = "none" /\ jobs'[j].pc = "idle"
        /\ \A i \in Jobs \ {j} : jobs'[i] = jobs[i]
    BY <1>11, <1>typed, FinishTyped DEF AcceptWrite
  <2>2. racers' = {i \in Jobs \ {j} : jobs[i].pc \in {"write", "send", "rollback"}}
    BY <1>11 DEF AcceptWrite, Pending
  <2>3. TypeOK'
    BY <1>11, <1>inv, <2>1, <2>2 DEF TypeOK, AcceptWrite
  <2>4. NewcomersAreOwn'
    BY <2>1, <2>2
  <2>. QED
    BY <1>11, <1>inv, <2>1, <2>3, <2>4 DEF IndInv, AcceptWrite
<1>12. ASSUME NEW j \in Jobs, AnswerTooLate(j) PROVE IndInv'
  <2>1. /\ jobs' \in [Jobs -> Job]
        /\ jobs'[j].kind = "none" /\ jobs'[j].pc = "idle"
        /\ \A i \in Jobs \ {j} : jobs'[i] = jobs[i]
    BY <1>12, <1>typed, FinishTyped DEF AnswerTooLate
  <2>. QED
    BY <1>12, <1>inv, <2>1 DEF IndInv, TypeOK, AnswerTooLate
<1>throws. ASSUME NEW j \in Jobs, HandlerThrows(j) PROVE IndInv'
  <2>1. /\ jobs' \in [Jobs -> Job]
        /\ jobs'[j].kind = "none" /\ jobs'[j].pc = "idle"
        /\ \A i \in Jobs \ {j} : jobs'[i] = jobs[i]
    BY <1>throws, <1>typed, FinishTyped DEF HandlerThrows
  <2>2. lost' \in BOOLEAN /\ (lost => lost')
    BY <1>throws DEF HandlerThrows
  <2>3. TypeOK'
    BY <1>throws, <1>inv, <2>1, <2>2 DEF TypeOK, HandlerThrows
  <2>4. RequestReachesAgent'
    BY <1>throws, <1>inv, <2>1 DEF HandlerThrows
  <2>. QED
    BY <1>throws, <1>inv, <2>1, <2>3, <2>4 DEF IndInv, HandlerThrows
<1>13. ASSUME NEW w \in Workspaces, WorkspaceDeleted(w) PROVE IndInv'
  BY <1>13, <1>inv DEF IndInv, TypeOK, WorkspaceDeleted
<1>14. ASSUME HubRestart PROVE IndInv'
  <2>1. NoJob \in Job
    BY DEF NoJob, Job
  <2>2. /\ jobs' \in [Jobs -> Job]
        /\ \A i \in Jobs : jobs'[i].kind = "none" /\ jobs'[i].pc = "idle"
    BY <1>14, <2>1 DEF HubRestart, NoJob
  <2>3. TypeOK'
    BY <1>14, <1>inv, <2>2 DEF TypeOK, HubRestart
  <2>. QED
    BY <1>14, <1>inv, <2>2, <2>3 DEF IndInv, HubRestart
<1>15. CASE UNCHANGED vars
  BY <1>15, <1>inv DEF IndInv, TypeOK, vars
<1>. QED
  BY <1>1, <1>2, <1>3, <1>4, <1>5, <1>6, <1>7, <1>8, <1>9, <1>10, <1>11, <1>12, <1>13, <1>14, <1>15,
     <1>throws
     DEF Next, RequestRollback, ReleaseWrite, RejectWrite

\* The inductive invariant holds throughout.
THEOREM Invariance == Spec => []IndInv
BY InitHolds, StepHolds, PTL DEF Spec

\* Type correctness, whatever the numbers of workspaces and handlers.
THEOREM TypeCorrect == Spec => []TypeOK
<1>1. IndInv => TypeOK
  BY DEF IndInv
<1>. QED
  BY <1>1, Invariance, PTL

\* The agent's row never names a workspace without a connection state or the reverse.
THEOREM ParentMatchesState == Spec => []TakenHasParent
<1>1. IndInv => TakenHasParent
  BY DEF IndInv
<1>. QED
  BY <1>1, Invariance, PTL

\* A standing request was sent, is about to be sent or taken back, or was cut off by a stop
\* of the Hub or by the database refusing the handler that was at it.
THEOREM RequestsAreSent == Spec => []RequestReachesAgent
<1>1. IndInv => RequestReachesAgent
  BY DEF IndInv
<1>. QED
  BY <1>1, Invariance, PTL

-----------------------------------------------------------------------------
(* Who may take the row away *)

\* The step that RowIsKept allows.
KeepsRow ==
    connection # "unlinked" /\ (parent' # parent \/ (connection = "linked" /\ connection' # "linked"))
      => \E j \in Jobs :
            /\ jobs'[j] # jobs[j]
            /\ \/ j \in racers
               \/ jobs[j].kind = "reject" /\ connection = "requested"
               \/ /\ jobs[j].ws = parent
                  /\ jobs[j].kind \in IF connection = "linked" THEN {"disconnect"}
                                      ELSE {"cancel", "request"}

\* Only four writes take a row away, and the invariant says whose they are.
LEMMA StepKeepsRow == IndInv /\ [Next]_vars => KeepsRow
<1> SUFFICES ASSUME IndInv, [Next]_vars, connection # "unlinked",
                    parent' # parent \/ (connection = "linked" /\ connection' # "linked")
             PROVE  KeepsRow
  BY DEF KeepsRow
<1>typed. /\ jobs \in [Jobs -> Job]
          /\ connection \in {"requested", "linked"}
          /\ NewcomersAreOwn
  BY DEF IndInv, TypeOK
<1>1. PICK j \in Jobs : RequestWrite(j) \/ RequestRollback(j) \/ ReleaseWrite(j) \/ RejectWrite(j)
  BY <1>typed DEF Next, vars, requestConnect, cancelConnectionRequest, disconnectWorkspaceAgent, Start,
        RequestRead, RequestSend, RequestSendFails, handleAcceptConnectRequest,
        handleRejectConnectRequest, AcceptWrite, AnswerTooLate, HandlerThrows,
        WorkspaceDeleted, HubRestart
<1>2. jobs'[j].pc # jobs[j].pc
  <2>1. CASE RequestWrite(j)
    BY <2>1, <1>typed, GotoTyped DEF RequestWrite, At
  <2>2. CASE RequestRollback(j) \/ ReleaseWrite(j) \/ RejectWrite(j)
    BY <2>2, <1>typed, FinishTyped DEF RequestRollback, ReleaseWrite, RejectWrite, At
  <2>. QED
    BY <1>1, <2>1, <2>2
<1>3. CASE j \in racers
  BY <1>2, <1>3 DEF KeepsRow
<1>4. CASE j \notin racers /\ connection = "linked"
  <2>1. jobs[j].kind = "disconnect" /\ jobs[j].ws = parent
    BY <1>1, <1>4, <1>typed DEF RequestWrite, RequestRollback, ReleaseWrite, RejectWrite, At
  <2>. QED
    BY <1>2, <1>4, <2>1 DEF KeepsRow
<1>5. CASE j \notin racers /\ connection = "requested"
  <2>1. \/ jobs[j].kind = "reject"
        \/ jobs[j].kind \in {"cancel", "request"} /\ jobs[j].ws = parent
    BY <1>1, <1>5, <1>typed DEF RequestWrite, RequestRollback, ReleaseWrite, RejectWrite, At
  <2>. QED
    BY <1>2, <1>5, <2>1 DEF KeepsRow
<1>. QED
  BY <1>3, <1>4, <1>5, <1>typed

\* A workspace loses the agent only by its own doing, by the Agent's rejection, by a prompt
\* that could not be sent, or to a handler that had read the row before it was taken.
THEOREM RowsAreKept == Spec => RowIsKept
<1>1. IndInv /\ [Next]_vars => [KeepsRow]_vars
  BY StepKeepsRow
<1>. QED
  BY <1>1, Invariance, PTL DEF Spec, RowIsKept, KeepsRow

-----------------------------------------------------------------------------
(* Refinement *)

holders == <<HolderWhile("requested"), HolderWhile("linked")>>

\* Every write of the row is a step of AgentOwnership and every other step leaves the
\* holders alone: a request asks, whoever held the agent; an acceptance makes the asker
\* the owner; the releases free it.
LEMMA StepImplements == IndInv /\ [Next]_vars => [Ownership!Next]_holders
<1> SUFFICES ASSUME IndInv, [Next]_vars PROVE [Ownership!Next]_holders
  OBVIOUS
<1>inv. RequestsNameWorkspace /\ TakenHasParent /\ parent \in Workspaces \cup {NoWorkspace}
  BY DEF IndInv, TypeOK
<1>1. ASSUME NEW j \in Jobs, RequestWrite(j) PROVE Ownership!Ask(jobs[j].ws) /\ jobs[j].ws \in Workspaces
  BY <1>1, <1>inv DEF RequestWrite, At, HolderWhile, Ownership!Ask
<1>2. ASSUME NEW j \in Jobs, AcceptWrite(j) PROVE Ownership!Accept
  BY <1>2, <1>inv DEF AcceptWrite, HolderWhile, Ownership!Accept
<1>3. ASSUME Release PROVE Ownership!Free
  BY <1>3 DEF Release, HolderWhile, Ownership!Free
<1>4. ASSUME UNCHANGED agentRow PROVE UNCHANGED holders
  BY <1>4 DEF holders, HolderWhile
<1>5. \/ UNCHANGED agentRow
      \/ Release
      \/ \E j \in Jobs : RequestWrite(j) \/ AcceptWrite(j)
  BY DEF Next, vars, requestConnect, cancelConnectionRequest, disconnectWorkspaceAgent, Start,
         RequestRead, RequestSend, RequestSendFails, RequestRollback, ReleaseWrite,
         handleAcceptConnectRequest, handleRejectConnectRequest, RejectWrite, AnswerTooLate,
         HandlerThrows, WorkspaceDeleted, HubRestart
<1>. QED
  BY <1>1, <1>2, <1>3, <1>4, <1>5 DEF Ownership!Next

\* The handlers implement AgentOwnership for any number of workspaces and handlers.
THEOREM Implementation == Spec => OwnershipIsImplemented
<1>1. Init => Ownership!Init
  BY DEF Init, HolderWhile, Ownership!Init
<1>2. IndInv /\ [Next]_vars => [Ownership!Next]_<<HolderWhile("requested"), HolderWhile("linked")>>
  BY StepImplements DEF holders
<1>. QED
  BY <1>1, <1>2, Invariance, PTL DEF Spec, OwnershipIsImplemented, Ownership!Spec

=============================================================================
