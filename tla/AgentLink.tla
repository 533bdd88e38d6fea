----------------------------- MODULE AgentLink -----------------------------
(***************************************************************************)
(* The Hub's view of one Agent: the Socket.IO connection registry          *)
(* (AgentGateway), the agent row's status, that of a service it runs       *)
(* (AgentService) and the self-update state machine (AgentUpdateService).  *)
(* Every map of the code is keyed by the agent's UUID and handlers of      *)
(* different agents share no state, so one agent is enough.                *)
(*                                                                         *)
(* Node runs one callback at a time, but every handler here awaits the     *)
(* database, so handlers interleave at each await.  A running handler is a *)
(* job: jobs[j].pc is the await it is suspended at, and one action runs it *)
(* to the next.  A database read and the write that depends on it are      *)
(* different actions, and so is in-memory work done between them.          *)
(***************************************************************************)

CONSTANTS
    Sockets,        \* Socket.IO connections the Agent opens, reused once forgotten
    Jobs,           \* handler invocations that may be suspended at the same time
    HasService,     \* whether the Agent runs a service at all
    NoSocket

ASSUME NoSocketAssumption == NoSocket \notin Sockets
ASSUME HasServiceAssumption == HasService \in BOOLEAN

VARIABLES
    sock,           \* state of each connection, as Socket.IO sees it
    data,           \* client.data: "fresh", "attached" (uuid set), "guarded" (secret set)
    ghost,          \* history: the linked socket had closed before register attached it
    link,           \* agentUuidToSocketId.get(uuid)
    offlineTimer,   \* offlineTimers.has(uuid)
    updateTimer,    \* AgentUpdateService.timers.has(uuid)
    status,         \* agents.agent_status
    phase,          \* agents.agent_update_phase
    service,        \* services.service_status: "offline", or "live" for what the Agent reports
    jobs,           \* the suspended handlers
    orphan,         \* history: disconnectAgent, or a query refused to a handler that was to
                    \* link the Agent or mark it offline, may have left the row of one that
                    \* is gone "online"
    adrift          \* history: phase was written by a handler whose read no longer held, or a
                    \* query was refused to the handler that was to end or to time the update

vars == <<sock, data, ghost, link, offlineTimer, updateTimer, status, phase, service,
          jobs, orphan, adrift>>

connVars == <<sock, data, ghost, link>>
rowVars == <<status, phase, service>>

Phases == {"idle", "requested", "pulling", "restarting", "succeeded", "failed", "rolled_back"}

\* IN_FLIGHT: no result yet, a lost socket is not "offline".
InFlight == {"requested", "pulling", "restarting"}

Kinds == {"register", "disconnect", "offline", "request", "progress", "failure", "expire",
          "report"}

Pcs == {"verify", "update", "attach", "secret", "read", "clear", "status", "write",
        "arm", "send", "emit", "retry", "services"}

NoJob == [kind |-> "none", pc |-> "done", sock |-> NoSocket, next |-> "idle"]

Job == [kind: Kinds \cup {"none"}, pc: Pcs \cup {"done"}, sock: Sockets \cup {NoSocket},
        next: Phases]

\* next is the update phase the job is going to write.
NewJob(kind, pc, s) == [kind |-> kind, pc |-> pc, sock |-> s, next |-> "idle"]

TypeOK ==
    /\ sock \in [Sockets -> {"closed", "open", "closing"}]
    /\ data \in [Sockets -> {"fresh", "attached", "guarded"}]
    /\ ghost \in BOOLEAN
    /\ link \in Sockets \cup {NoSocket}
    /\ offlineTimer \in BOOLEAN
    /\ updateTimer \in BOOLEAN
    /\ status \in {"online", "offline", "restarting"}
    /\ phase \in Phases
    /\ service \in {"live", "offline"}
    /\ jobs \in [Jobs -> Job]
    /\ orphan \in BOOLEAN
    /\ adrift \in BOOLEAN

\* The Hub has just started on a database that holds the agent: onModuleInit has run.
Init ==
    /\ sock = [s \in Sockets |-> "closed"]
    /\ data = [s \in Sockets |-> "fresh"]
    /\ ghost = FALSE
    /\ link = NoSocket
    /\ offlineTimer = FALSE
    /\ updateTimer = FALSE
    /\ status = "offline"
    /\ phase = "idle"
    /\ service = "offline"
    /\ jobs = [j \in Jobs |-> NoJob]
    /\ orphan = FALSE
    /\ adrift = FALSE

-----------------------------------------------------------------------------
(* Helpers *)

IsFree(j) == jobs[j] = NoJob

At(j, kind, pc) == jobs[j].kind = kind /\ jobs[j].pc = pc

Finish(j) == jobs' = [jobs EXCEPT ![j] = NoJob]

Goto(j, pc) == jobs' = [jobs EXCEPT ![j].pc = pc]

\* Suspend at pc, having decided to write phase p.
Decide(j, pc, p) == jobs' = [jobs EXCEPT ![j] = [@ EXCEPT !.pc = pc, !.next = p]]

\* Mutant: a socket that has yet to get its secret is ignored.
CurrentOnceGuarded(s) == data[s] = "guarded" /\ link = s

\* Mutant: every registered socket of the agent counts.
AnySocketIsCurrent(s) == data[s] # "fresh"

\* The socket registered, and the registry still points at it.
IsCurrent(s) == data[s] # "fresh" /\ link = s

(***************************************************************************)
(* The connection of s goes away and handleDisconnect runs up to its first *)
(* await, in job slot j.  Only the socket the registry points at tears the *)
(* link down: an older socket of the same agent returns early.  Nothing    *)
(* reads client.data of a closed socket again, so it is forgotten.         *)
(***************************************************************************)
handleDisconnect(s, j) ==
    /\ sock' = [sock EXCEPT ![s] = "closed"]
    /\ data' = [data EXCEPT ![s] = "fresh"]
    /\ IF IsCurrent(s)
       THEN /\ link' = NoSocket
            /\ jobs' = [jobs EXCEPT ![j] = NewJob("disconnect", "read", NoSocket)]
       ELSE /\ UNCHANGED link
            /\ Finish(j)
    /\ UNCHANGED <<ghost, offlineTimer, updateTimer, rowVars, orphan, adrift>>

\* transition(): an updateMany of the phase, then a second query for the console's event.
\* Two callers do something after that query and wait for it at pc "emit"; the others end
\* with it, answered or refused.  Writers that only move an update forward do so whatever
\* the row holds by then, which history records in adrift.
transition(p) ==
    /\ phase' = p
    /\ adrift' = (p \in InFlight \ {"requested"} /\ (adrift \/ phase \notin InFlight))

-----------------------------------------------------------------------------
(* Connections *)

\* The Agent opens a connection; a slot is reused once nothing remembers it.
Connect(s) ==
    /\ sock[s] = "closed"
    /\ link # s
    /\ \A j \in Jobs : jobs[j].sock # s
    /\ sock' = [sock EXCEPT ![s] = "open"]
    /\ data' = [data EXCEPT ![s] = "fresh"]
    /\ UNCHANGED <<ghost, link, offlineTimer, updateTimer, rowVars, jobs, orphan, adrift>>

\* The network drops the connection, or the 250 ms of disconnectAgent are over.
Drop(s, j) ==
    /\ sock[s] # "closed"
    /\ IsFree(j)
    /\ handleDisconnect(s, j)

\* disconnectAgent: tell the Agent to go, forget it now, close the socket in 250 ms.
disconnectAgent(s) ==
    /\ link = s
    /\ sock[s] # "closed"
    /\ sock' = [sock EXCEPT ![s] = "closing"]
    /\ link' = NoSocket
    /\ offlineTimer' = FALSE
    /\ orphan' = TRUE
    /\ UNCHANGED <<data, ghost, updateTimer, rowVars, jobs, adrift>>

-----------------------------------------------------------------------------
(* handleValidation: the register event *)

RegisterStart(s, j) ==
    /\ sock[s] # "closed"
    /\ IsFree(j)
    /\ jobs' = [jobs EXCEPT ![j] = NewJob("register", "verify", s)]
    /\ UNCHANGED <<connVars, offlineTimer, updateTimer, rowVars, orphan, adrift>>

\* Unsupported protocol or a signature that does not verify: client.disconnect(true).
RegisterRefuse(j) ==
    /\ At(j, "register", "verify")
    /\ sock[jobs[j].sock] # "closed"
    /\ handleDisconnect(jobs[j].sock, j)

\* The same refusal of a socket that is gone already.
RegisterRefuseClosed(j) ==
    /\ At(j, "register", "verify")
    /\ sock[jobs[j].sock] = "closed"
    /\ Finish(j)
    /\ UNCHANGED <<connVars, offlineTimer, updateTimer, rowVars, orphan, adrift>>

RegisterVerified(j) ==
    /\ At(j, "register", "verify")
    /\ Goto(j, "update")
    /\ UNCHANGED <<connVars, offlineTimer, updateTimer, rowVars, orphan, adrift>>

\* registerAgent of a known agent: the row goes online.
registerAgent(j) ==
    /\ At(j, "register", "update")
    /\ status' = "online"
    /\ Goto(j, "attach")
    /\ UNCHANGED <<connVars, offlineTimer, updateTimer, phase, service, orphan, adrift>>

\* Back from registerAgent: the registry now points at this socket, open or not.
\* A secret issued by this very registration is attached at once.
RegisterAttach(j) ==
    /\ At(j, "register", "attach")
    /\ offlineTimer' = FALSE
    /\ link' = jobs[j].sock
    /\ ghost' = (sock[jobs[j].sock] = "closed")
    /\ orphan' = FALSE
    /\ \E reissued \in BOOLEAN :
          /\ data' = [data EXCEPT ![jobs[j].sock] = IF reissued THEN "guarded" ELSE "attached"]
          /\ Goto(j, IF reissued THEN "read" ELSE "secret")
    /\ UNCHANGED <<sock, updateTimer, rowVars, adrift>>

RegisterSecret(j) ==
    /\ At(j, "register", "secret")
    /\ data' = [data EXCEPT ![jobs[j].sock] = "guarded"]
    /\ Goto(j, "read")
    /\ UNCHANGED <<sock, ghost, link, offlineTimer, updateTimer, rowVars, orphan, adrift>>

\* handleReconnect: whether the version that the payload reports is agent_update_target,
\* which is read nowhere else, decides what became of the update.
handleReconnect(j, matches) ==
    /\ At(j, "register", "read")
    /\ IF phase \in InFlight
       THEN Decide(j, "clear", IF matches THEN "succeeded" ELSE "rolled_back")
       ELSE Finish(j)
    /\ UNCHANGED <<connVars, offlineTimer, updateTimer, rowVars, orphan, adrift>>

-----------------------------------------------------------------------------
(* handleDisconnect past its first await, and the offline timer *)

\* isExpectedRestart reads the phase.
isExpectedRestart(j) ==
    /\ At(j, "disconnect", "read")
    /\ IF phase \in InFlight THEN Decide(j, "status", "restarting") ELSE Goto(j, "arm")
    /\ UNCHANGED <<connVars, offlineTimer, updateTimer, rowVars, orphan, adrift>>

MarkRestarting(j) ==
    /\ At(j, "disconnect", "status")
    /\ status' = "restarting"
    /\ Goto(j, "write")
    /\ UNCHANGED <<connVars, offlineTimer, updateTimer, phase, service, orphan, adrift>>

scheduleOffline(j) ==
    /\ At(j, "disconnect", "arm")
    /\ offlineTimer' = TRUE
    /\ Finish(j)
    /\ UNCHANGED <<connVars, updateTimer, rowVars, orphan, adrift>>

\* 3 s later: nothing to do if the agent is back.
OfflineTimerFires(j) ==
    /\ offlineTimer
    /\ IsFree(j)
    /\ offlineTimer' = FALSE
    /\ jobs' = [jobs EXCEPT ![j] = IF link = NoSocket
                                   THEN NewJob("offline", "read", NoSocket)
                                   ELSE NoJob]
    /\ UNCHANGED <<connVars, updateTimer, rowVars, orphan, adrift>>

\* markAgentOffline looks the workspace up before it writes.
ReadWorkspace(j) ==
    /\ At(j, "offline", "read")
    /\ Goto(j, "write")
    /\ UNCHANGED <<connVars, offlineTimer, updateTimer, rowVars, orphan, adrift>>

\* markAgentOffline: one retry after 500 ms, then it gives up with a log line; the
\* services follow in either case.
markAgentOffline(j) ==
    /\ At(j, "offline", "write") \/ At(j, "offline", "retry")
    /\ status' = "offline"
    /\ Goto(j, "services")
    /\ UNCHANGED <<connVars, offlineTimer, updateTimer, phase, service, orphan, adrift>>

\* Mutant: a failed write is not tried again.
NoOfflineRetry(j) ==
    /\ At(j, "offline", "write")
    /\ Goto(j, "services")
    /\ UNCHANGED <<connVars, offlineTimer, updateTimer, rowVars, orphan, adrift>>

MarkOfflineFails(j) ==
    /\ At(j, "offline", "write")
    /\ Goto(j, "retry")
    /\ UNCHANGED <<connVars, offlineTimer, updateTimer, rowVars, orphan, adrift>>

MarkOfflineGivesUp(j) ==
    /\ At(j, "offline", "retry")
    /\ Goto(j, "services")
    /\ orphan' = (link = NoSocket)
    /\ UNCHANGED <<connVars, offlineTimer, updateTimer, rowVars, adrift>>

markServicesOffline(j) ==
    /\ At(j, "offline", "services")
    /\ service' = "offline"
    /\ Finish(j)
    /\ UNCHANGED <<connVars, offlineTimer, updateTimer, status, phase, orphan, adrift>>

\* A failure is logged and swallowed.
MarkServicesFails(j) ==
    /\ At(j, "offline", "services")
    /\ Finish(j)
    /\ orphan' = (link = NoSocket)
    /\ UNCHANGED <<connVars, offlineTimer, updateTimer, rowVars, adrift>>

-----------------------------------------------------------------------------
(* service-status reports *)

\* handleServiceStatus looks the service's workspace up first.
handleServiceStatus(s, j) ==
    /\ HasService
    /\ sock[s] # "closed"
    /\ data[s] # "fresh"
    /\ IsFree(j)
    /\ jobs' = [jobs EXCEPT ![j] = NewJob("report", "write", NoSocket)]
    /\ UNCHANGED <<connVars, offlineTimer, updateTimer, rowVars, orphan, adrift>>

\* updateServiceStatus writes what was reported, if the database lets it.
updateServiceStatus(j) ==
    /\ At(j, "report", "write")
    /\ service' \in {service, "live"}
    /\ Finish(j)
    /\ UNCHANGED <<connVars, offlineTimer, updateTimer, status, phase, orphan, adrift>>

-----------------------------------------------------------------------------
(* Updates *)

\* sendToAgent delivers: a registered socket that is still there and has its secret.
CanSend == link # NoSocket /\ sock[link] # "closed" /\ data[link] = "guarded"

\* requestUpdate up to its checks of the row; a refusal changes nothing.
requestUpdate(j) ==
    /\ IsFree(j)
    /\ status = "online"
    /\ phase \notin InFlight
    /\ jobs' = [jobs EXCEPT ![j] = NewJob("request", "send", NoSocket)]
    /\ UNCHANGED <<connVars, offlineTimer, updateTimer, rowVars, orphan, adrift>>

\* assertInstallable refused the version, or there is nobody to send it to.
RequestRefused(j) ==
    /\ At(j, "request", "send")
    /\ Finish(j)
    /\ UNCHANGED <<connVars, offlineTimer, updateTimer, rowVars, orphan, adrift>>

\* The command leaves before the row says so.
RequestSend(j) ==
    /\ At(j, "request", "send")
    /\ CanSend
    /\ Decide(j, "write", "requested")
    /\ UNCHANGED <<connVars, offlineTimer, updateTimer, rowVars, orphan, adrift>>

RequestWrite(j) ==
    /\ At(j, "request", "write")
    /\ transition("requested")
    /\ Goto(j, "emit")
    /\ UNCHANGED <<connVars, offlineTimer, updateTimer, status, service, orphan>>

\* Mutant: the old timer is cleared after the new one is stored.
ArmThenClear(j) ==
    /\ At(j, "request", "emit")
    /\ updateTimer' = FALSE
    /\ Finish(j)
    /\ UNCHANGED <<connVars, offlineTimer, rowVars, orphan, adrift>>

\* Only once the second query of transition is answered is the timer armed.
armTimeout(j) ==
    /\ At(j, "request", "emit")
    /\ updateTimer' = TRUE
    /\ Finish(j)
    /\ UNCHANGED <<connVars, offlineTimer, rowVars, orphan, adrift>>

\* update-log: recordProgress reads the phase, and later writes it back.
recordProgress(s, j) ==
    /\ sock[s] # "closed"
    /\ data[s] # "fresh"
    /\ IsFree(j)
    /\ phase \in InFlight
    /\ jobs' = [jobs EXCEPT ![j] =
                  [NewJob("progress", "write", NoSocket)
                     EXCEPT !.next = IF phase = "requested" THEN "pulling" ELSE phase]]
    /\ UNCHANGED <<connVars, offlineTimer, updateTimer, rowVars, orphan, adrift>>

\* update-failed: the updater gave up, the Agent itself keeps running.  A report
\* that finds no update in flight is dropped.
recordFailure(s, j) ==
    /\ sock[s] # "closed"
    /\ data[s] # "fresh"
    /\ IsFree(j)
    /\ jobs' = [jobs EXCEPT ![j] =
                  IF phase \in InFlight
                  THEN [NewJob("failure", "clear", NoSocket) EXCEPT !.next = "failed"]
                  ELSE NoJob]
    /\ UNCHANGED <<connVars, offlineTimer, updateTimer, rowVars, orphan, adrift>>

\* clearTimeout, by recordFailure and handleReconnect once they know the update ended.
clearTimeout(j) ==
    /\ At(j, "failure", "clear") \/ At(j, "register", "clear")
    /\ updateTimer' = FALSE
    /\ Goto(j, "write")
    /\ UNCHANGED <<connVars, offlineTimer, rowVars, orphan, adrift>>

\* The transition that ends recordProgress, recordFailure, handleReconnect and
\* isExpectedRestart: what each decided from its own read.
WritePhase(j) ==
    /\ \E kind \in {"progress", "failure", "register", "disconnect"} : At(j, kind, "write")
    /\ transition(jobs[j].next)
    /\ Finish(j)
    /\ UNCHANGED <<connVars, offlineTimer, updateTimer, status, service, orphan>>

\* The query that the job awaits is refused, or it is done and its answer is lost (then the
\* job has passed the write).  Nothing of the handler is undone and nobody starts it again:
\* Nest logs what an Agent's event or a user's request throws, and Sentry (instrument.ts)
\* reports what a timer's callback or handleDisconnect does.
Refusable ==
    [register   |-> {"verify", "update", "attach", "secret", "read", "write"},
     disconnect |-> {"read", "status", "write"},
     offline    |-> {"read"},
     request    |-> {"write", "emit"},
     progress   |-> {"write"},
     failure    |-> {"write"},
     expire     |-> {"read", "write", "emit", "status"}]

\* Such a job was the one to end the update in flight, or to arm its timer.
WasToEnd(j) ==
    \/ At(j, "request", "emit")
    \/ At(j, "register", "write") \/ At(j, "failure", "write")
    \/ At(j, "expire", "read") \/ At(j, "expire", "write")

\* Or it was to link the Agent whose row it turned online, or to turn the row of one that
\* left.
WasToMark(j) ==
    \/ At(j, "register", "attach")
    \/ At(j, "disconnect", "read") \/ At(j, "disconnect", "status")
    \/ At(j, "offline", "read")

HandlerThrows(j) ==
    /\ \E kind \in DOMAIN Refusable : \E pc \in Refusable[kind] : At(j, kind, pc)
    /\ Finish(j)
    /\ adrift' = (adrift \/ (phase \in InFlight /\ WasToEnd(j)))
    /\ orphan' = (orphan \/ (link = NoSocket /\ WasToMark(j)))
    /\ UNCHANGED <<connVars, offlineTimer, updateTimer, rowVars>>

\* The user dismisses the result; the phase is not looked at.
acknowledge ==
    /\ transition("idle")
    /\ UNCHANGED <<connVars, offlineTimer, updateTimer, status, service, jobs, orphan>>

UpdateTimerFires(j) ==
    /\ updateTimer
    /\ IsFree(j)
    /\ updateTimer' = FALSE
    /\ jobs' = [jobs EXCEPT ![j] = NewJob("expire", "read", NoSocket)]
    /\ UNCHANGED <<connVars, offlineTimer, rowVars, orphan, adrift>>

\* Mutant: an agent that is restarting is not timed out.
ExpireSparesRestart(j) ==
    /\ At(j, "expire", "read")
    /\ IF phase \in {"requested", "pulling"} THEN Decide(j, "write", "failed") ELSE Finish(j)
    /\ UNCHANGED <<connVars, offlineTimer, updateTimer, rowVars, orphan, adrift>>

expire(j) ==
    /\ At(j, "expire", "read")
    /\ IF phase \in InFlight THEN Decide(j, "write", "failed") ELSE Finish(j)
    /\ UNCHANGED <<connVars, offlineTimer, updateTimer, rowVars, orphan, adrift>>

ExpireWrite(j) ==
    /\ At(j, "expire", "write")
    /\ transition("failed")
    /\ Goto(j, "emit")
    /\ UNCHANGED <<connVars, offlineTimer, updateTimer, status, service, orphan>>

\* Once transition is through.  isAgentConnected only asks the registry.
ExpireCheck(j) ==
    /\ At(j, "expire", "emit")
    /\ IF link = NoSocket THEN Goto(j, "status") ELSE Finish(j)
    /\ UNCHANGED <<connVars, offlineTimer, updateTimer, rowVars, orphan, adrift>>

\* Mutant: the update's phase is written to the status column.
ExpireFailsStatus(j) ==
    /\ At(j, "expire", "status")
    /\ status' = "failed"
    /\ Finish(j)
    /\ UNCHANGED <<connVars, offlineTimer, updateTimer, phase, service, orphan, adrift>>

ExpireOffline(j) ==
    /\ At(j, "expire", "status")
    /\ status' = "offline"
    /\ Finish(j)
    /\ UNCHANGED <<connVars, offlineTimer, updateTimer, phase, service, orphan, adrift>>

-----------------------------------------------------------------------------
\* The Hub process restarts: memory is gone, both onModuleInit hooks repair the row.
HubRestart ==
    /\ sock' = [s \in Sockets |-> "closed"]
    /\ data' = [s \in Sockets |-> "fresh"]
    /\ ghost' = FALSE
    /\ link' = NoSocket
    /\ offlineTimer' = FALSE
    /\ updateTimer' = FALSE
    /\ jobs' = [j \in Jobs |-> NoJob]
    /\ status' = "offline"
    /\ phase' = IF phase \in InFlight THEN "failed" ELSE phase
    /\ service' = "offline"
    /\ adrift' = FALSE
    /\ orphan' = FALSE

\* Every step of a handler that is already running.
JobStep(j) ==
    \/ RegisterRefuse(j) \/ RegisterRefuseClosed(j) \/ RegisterVerified(j)
    \/ registerAgent(j) \/ RegisterAttach(j) \/ RegisterSecret(j)
    \/ \E matches \in BOOLEAN : handleReconnect(j, matches)
    \/ isExpectedRestart(j) \/ MarkRestarting(j) \/ scheduleOffline(j) \/ ReadWorkspace(j)
    \/ markAgentOffline(j) \/ MarkOfflineFails(j) \/ MarkOfflineGivesUp(j)
    \/ markServicesOffline(j) \/ MarkServicesFails(j) \/ updateServiceStatus(j)
    \/ RequestRefused(j) \/ RequestSend(j) \/ RequestWrite(j) \/ armTimeout(j)
    \/ clearTimeout(j) \/ WritePhase(j) \/ HandlerThrows(j)
    \/ expire(j) \/ ExpireWrite(j) \/ ExpireCheck(j) \/ ExpireOffline(j)

\* What starts a handler: the Agent, the user, a timer.
Event(j) ==
    \/ OfflineTimerFires(j)
    \/ UpdateTimerFires(j)
    \/ requestUpdate(j)
    \/ \E s \in Sockets : \/ Drop(s, j)
                          \/ recordProgress(s, j)
                          \/ recordFailure(s, j)
                          \/ handleServiceStatus(s, j)
                          \/ RegisterStart(s, j)

Next ==
    \/ \E j \in Jobs : JobStep(j) \/ Event(j)
    \/ \E s \in Sockets : Connect(s) \/ disconnectAgent(s)
    \/ acknowledge
    \/ HubRestart

(***************************************************************************)
(* The database answers and Node runs its timers.  Timers are strongly     *)
(* fair because a free job slot, which the code does not need, may come    *)
(* and go.  Nothing is assumed of the Agent, the user or the network.      *)
(***************************************************************************)
Fairness ==
    /\ \A j \in Jobs : WF_vars(JobStep(j))
    /\ SF_vars(\E j \in Jobs : OfflineTimerFires(j))
    /\ SF_vars(\E j \in Jobs : UpdateTimerFires(j))

Spec == Init /\ [][Next]_vars

FairSpec == Spec /\ Fairness

-----------------------------------------------------------------------------
(* Properties *)

\* Somebody will end the update that is in flight: the 10 minute timer, the request
\* about to arm it, or a handler that is committed to writing a result.
Driven ==
    \/ updateTimer
    \/ \E j \in Jobs :
          \/ At(j, "request", "emit")
          \/ At(j, "expire", "read")
          \/ /\ jobs[j].kind \in {"register", "failure", "expire"}
             /\ jobs[j].pc \in {"clear", "write"}

\* No interleaving of requestUpdate, recordProgress, recordFailure, isExpectedRestart,
\* handleReconnect, acknowledge and expire leaves an update in flight with nobody to end
\* it, but for these: a handler writes a phase it read before the update ended, or the
\* database refuses the write of one that has cleared the timer, a query of expire(), or the
\* one between the write of a new update and the arming of its timer.
InFlightIsDriven == phase \in InFlight => adrift \/ Driven

\* The registry points at a socket that registered, and at a closed one only when it
\* closed while register was awaiting the database (handleDisconnect found nothing then).
LinkIsRegistered ==
    link # NoSocket => /\ data[link] # "fresh"
                       /\ sock[link] = "closed" => ghost

\* An agent that reconnects keeps its new link: only the end of the linked socket itself,
\* never the late disconnect of an older one, takes the registry entry away.
LinkSurvivesOldSocket ==
    [][link # NoSocket /\ link' = NoSocket => sock'[link] # "open"]_vars

\* An update that is in flight gets a result, unless its phase was written late or a query
\* was refused to the handler that was to end or to time it.
UpdateResolves == phase \in InFlight ~> (phase \notin InFlight \/ adrift)

Gone == \A s \in Sockets : sock[s] = "closed"

\* An agent that disappears for good stops being shown online (it reads offline, or
\* restarting during an update), unless the registry holds a ghost of it, disconnectAgent
\* removed it, or the database refused the write twice or, once, a query that no handler
\* tries again: its registration's, one of handleDisconnect's, markAgentOffline's first.
GoneAgentNotOnline ==
    <>[]Gone => <>[](status # "online" \/ link # NoSocket \/ orphan)

\* What markAgentOffline says of the services: the console is not left showing a live
\* service on an agent that is gone and offline, unless the database refused a write.
ServicesFollowAgent ==
    <>[](Gone /\ status = "offline") => <>[](service = "offline" \/ orphan)

\* What expire() says it avoids: an agent whose socket is attached, registered and open,
\* is not turned offline.
ConnectedNotTurnedOffline ==
    [][status # "offline" /\ status' = "offline"
         => link' = NoSocket \/ sock'[link'] = "closed"]_vars

=============================================================================
