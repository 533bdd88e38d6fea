-------------------------- MODULE AgentLinkProofs --------------------------
(***************************************************************************)
(* Proofs about AgentLink for any number of connections and of suspended   *)
(* handlers.  TypeOK is inductive; InFlightIsDriven is so                  *)
(* together with DecisionsHold, LinkIsRegistered with RegisteringKnown.    *)
(* Each step lemma has one step per action of Next, in its order.          *)
(***************************************************************************)
EXTENDS AgentLink, TLAPS

USE NoSocketAssumption, HasServiceAssumption

USE DEF connVars, rowVars

-----------------------------------------------------------------------------
(* Type correctness *)

\* A handler that ends leaves jobs well typed.
LEMMA FinishTyped ==
  ASSUME jobs \in [Jobs -> Job], NEW j \in Jobs, Finish(j)
  PROVE  jobs' \in [Jobs -> Job]
<1>1. NoJob \in Job
  BY DEF NoJob, Job, Phases
<1>. QED
  BY <1>1 DEF Finish

\* So does one that moves on to its next await,
LEMMA GotoTyped ==
  ASSUME jobs \in [Jobs -> Job], NEW j \in Jobs, NEW pc \in Pcs, Goto(j, pc)
  PROVE  jobs' \in [Jobs -> Job]
BY DEF Goto, Job

\* one that also decides which phase it is going to write,
LEMMA DecideTyped ==
  ASSUME jobs \in [Jobs -> Job], NEW j \in Jobs, NEW pc \in Pcs, NEW p \in Phases,
         Decide(j, pc, p)
  PROVE  jobs' \in [Jobs -> Job]
<1>1. jobs' = [jobs EXCEPT ![j] = [jobs[j] EXCEPT !.pc = pc, !.next = p]]
  BY DEF Decide
<1>2. jobs[j] \in Job
  OBVIOUS
<1>3. [jobs[j] EXCEPT !.pc = pc, !.next = p] \in Job
  BY <1>2 DEF Job
<1>. QED
  BY <1>1, <1>3

\* and one that starts.
LEMMA NewJobTyped ==
  ASSUME NEW kind \in Kinds, NEW pc \in Pcs, NEW s \in Sockets \cup {NoSocket}
  PROVE  NewJob(kind, pc, s) \in Job
BY DEF NewJob, Job, Phases

\* A connection that ends leaves the registry and the jobs well typed.
LEMMA DisconnectTyped ==
  ASSUME TypeOK, NEW s \in Sockets \cup {NoSocket}, NEW j \in Jobs, handleDisconnect(s, j)
  PROVE  TypeOK'
<1>1. jobs' \in [Jobs -> Job]
  <2>1. NewJob("disconnect", "read", NoSocket) \in Job
    BY NewJobTyped DEF Kinds, Pcs
  <2>. QED
    BY <2>1, FinishTyped DEF handleDisconnect, TypeOK
<1>2. /\ sock' \in [Sockets -> {"closed", "open", "closing"}]
      /\ data' \in [Sockets -> {"fresh", "attached", "guarded"}]
      /\ link' \in Sockets \cup {NoSocket}
  BY DEF handleDisconnect, TypeOK
<1>. QED
  BY <1>1, <1>2 DEF handleDisconnect, TypeOK

\* Every handler keeps the gateway's maps, the database rows and the jobs well typed.
LEMMA TypeStep == TypeOK /\ [Next]_vars => TypeOK'
<1> SUFFICES ASSUME TypeOK, [Next]_vars PROVE TypeOK'
  OBVIOUS
<1>1. ASSUME NEW j \in Jobs, RegisterRefuse(j) PROVE TypeOK'
  <2>1. jobs[j].sock \in Sockets \cup {NoSocket}
    BY DEF TypeOK, Job
  <2>. QED
    BY <1>1, <2>1, DisconnectTyped DEF RegisterRefuse
<1>2. ASSUME NEW j \in Jobs, RegisterRefuseClosed(j) PROVE TypeOK'
  <2>1. jobs' \in [Jobs -> Job]
    BY <1>2, FinishTyped DEF RegisterRefuseClosed, TypeOK
  <2>. QED
    BY <1>2, <2>1 DEF RegisterRefuseClosed, TypeOK
<1>3. ASSUME NEW j \in Jobs, RegisterVerified(j) PROVE TypeOK'
  <2>1. jobs' \in [Jobs -> Job]
    BY <1>3, GotoTyped DEF RegisterVerified, TypeOK, Pcs
  <2>. QED
    BY <1>3, <2>1 DEF RegisterVerified, TypeOK
<1>4. ASSUME NEW j \in Jobs, registerAgent(j) PROVE TypeOK'
  <2>1. jobs' \in [Jobs -> Job]
    BY <1>4, GotoTyped DEF registerAgent, TypeOK, Pcs
  <2>. QED
    BY <1>4, <2>1 DEF registerAgent, TypeOK
<1>5. ASSUME NEW j \in Jobs, RegisterAttach(j) PROVE TypeOK'
  <2>1. PICK reissued \in BOOLEAN : Goto(j, IF reissued THEN "read" ELSE "secret")
    BY <1>5 DEF RegisterAttach
  <2>2. (IF reissued THEN "read" ELSE "secret") \in Pcs
    BY DEF Pcs
  <2>3. jobs' \in [Jobs -> Job]
    BY <2>1, <2>2, GotoTyped DEF TypeOK
  <2>4. link' \in Sockets \cup {NoSocket}
    BY <1>5 DEF RegisterAttach, TypeOK, Job
  <2>5. data' \in [Sockets -> {"fresh", "attached", "guarded"}]
    BY <1>5 DEF RegisterAttach, TypeOK
  <2>. QED
    BY <1>5, <2>3, <2>4, <2>5 DEF RegisterAttach, TypeOK
<1>6. ASSUME NEW j \in Jobs, RegisterSecret(j) PROVE TypeOK'
  <2>1. jobs' \in [Jobs -> Job]
    BY <1>6, GotoTyped DEF RegisterSecret, TypeOK, Pcs
  <2>. QED
    BY <1>6, <2>1 DEF RegisterSecret, TypeOK
<1>7. ASSUME NEW j \in Jobs, NEW matches \in BOOLEAN, handleReconnect(j, matches) PROVE TypeOK'
  <2>1. jobs' \in [Jobs -> Job]
    BY <1>7, FinishTyped, DecideTyped DEF handleReconnect, TypeOK, Pcs, Phases
  <2>. QED
    BY <1>7, <2>1 DEF handleReconnect, TypeOK
<1>8. ASSUME NEW j \in Jobs, isExpectedRestart(j) PROVE TypeOK'
  <2>1. jobs' \in [Jobs -> Job]
    BY <1>8, GotoTyped, DecideTyped DEF isExpectedRestart, TypeOK, Pcs, Phases
  <2>. QED
    BY <1>8, <2>1 DEF isExpectedRestart, TypeOK
<1>9. ASSUME NEW j \in Jobs, MarkRestarting(j) PROVE TypeOK'
  <2>1. jobs' \in [Jobs -> Job]
    BY <1>9, GotoTyped DEF MarkRestarting, TypeOK, Pcs
  <2>. QED
    BY <1>9, <2>1 DEF MarkRestarting, TypeOK
<1>10. ASSUME NEW j \in Jobs, scheduleOffline(j) PROVE TypeOK'
  <2>1. jobs' \in [Jobs -> Job]
    BY <1>10, FinishTyped DEF scheduleOffline, TypeOK
  <2>. QED
    BY <1>10, <2>1 DEF scheduleOffline, TypeOK
<1>reads. ASSUME NEW j \in Jobs, ReadWorkspace(j) PROVE TypeOK'
  <2>1. jobs' \in [Jobs -> Job]
    BY <1>reads, GotoTyped DEF ReadWorkspace, TypeOK, Pcs
  <2>. QED
    BY <1>reads, <2>1 DEF ReadWorkspace, TypeOK
<1>11. ASSUME NEW j \in Jobs, markAgentOffline(j) PROVE TypeOK'
  <2>1. jobs' \in [Jobs -> Job]
    BY <1>11, GotoTyped DEF markAgentOffline, TypeOK, Pcs
  <2>. QED
    BY <1>11, <2>1 DEF markAgentOffline, TypeOK
<1>12. ASSUME NEW j \in Jobs, MarkOfflineFails(j) PROVE TypeOK'
  <2>1. jobs' \in [Jobs -> Job]
    BY <1>12, GotoTyped DEF MarkOfflineFails, TypeOK, Pcs
  <2>. QED
    BY <1>12, <2>1 DEF MarkOfflineFails, TypeOK
<1>13. ASSUME NEW j \in Jobs, MarkOfflineGivesUp(j) PROVE TypeOK'
  <2>1. jobs' \in [Jobs -> Job]
    BY <1>13, GotoTyped DEF MarkOfflineGivesUp, TypeOK, Pcs
  <2>. QED
    BY <1>13, <2>1 DEF MarkOfflineGivesUp, TypeOK
<1>14. ASSUME NEW j \in Jobs, markServicesOffline(j) PROVE TypeOK'
  <2>1. jobs' \in [Jobs -> Job]
    BY <1>14, FinishTyped DEF markServicesOffline, TypeOK
  <2>. QED
    BY <1>14, <2>1 DEF markServicesOffline, TypeOK
<1>15. ASSUME NEW j \in Jobs, MarkServicesFails(j) PROVE TypeOK'
  <2>1. jobs' \in [Jobs -> Job]
    BY <1>15, FinishTyped DEF MarkServicesFails, TypeOK
  <2>. QED
    BY <1>15, <2>1 DEF MarkServicesFails, TypeOK
<1>16. ASSUME NEW j \in Jobs, updateServiceStatus(j) PROVE TypeOK'
  <2>1. jobs' \in [Jobs -> Job]
    BY <1>16, FinishTyped DEF updateServiceStatus, TypeOK
  <2>. QED
    BY <1>16, <2>1 DEF updateServiceStatus, TypeOK
<1>17. ASSUME NEW j \in Jobs, RequestRefused(j) PROVE TypeOK'
  <2>1. jobs' \in [Jobs -> Job]
    BY <1>17, FinishTyped DEF RequestRefused, TypeOK
  <2>. QED
    BY <1>17, <2>1 DEF RequestRefused, TypeOK
<1>18. ASSUME NEW j \in Jobs, RequestSend(j) PROVE TypeOK'
  <2>1. jobs' \in [Jobs -> Job]
    BY <1>18, DecideTyped DEF RequestSend, TypeOK, Pcs, Phases
  <2>. QED
    BY <1>18, <2>1 DEF RequestSend, TypeOK
<1>19. ASSUME NEW j \in Jobs, RequestWrite(j) PROVE TypeOK'
  <2>1. jobs' \in [Jobs -> Job]
    BY <1>19, GotoTyped DEF RequestWrite, TypeOK, Pcs
  <2>. QED
    BY <1>19, <2>1 DEF RequestWrite, transition, TypeOK, Phases
<1>20. ASSUME NEW j \in Jobs, armTimeout(j) PROVE TypeOK'
  <2>1. jobs' \in [Jobs -> Job]
    BY <1>20, FinishTyped DEF armTimeout, TypeOK
  <2>. QED
    BY <1>20, <2>1 DEF armTimeout, TypeOK
<1>21. ASSUME NEW j \in Jobs, clearTimeout(j) PROVE TypeOK'
  <2>1. jobs' \in [Jobs -> Job]
    BY <1>21, GotoTyped DEF clearTimeout, TypeOK, Pcs
  <2>. QED
    BY <1>21, <2>1 DEF clearTimeout, TypeOK
<1>22. ASSUME NEW j \in Jobs, WritePhase(j) PROVE TypeOK'
  <2>1. phase' \in Phases
    BY <1>22 DEF WritePhase, transition, TypeOK, Job
  <2>. QED
    BY <1>22, <2>1, FinishTyped DEF WritePhase, transition, TypeOK
<1>throws. ASSUME NEW j \in Jobs, HandlerThrows(j) PROVE TypeOK'
  <2>1. jobs' \in [Jobs -> Job]
    BY <1>throws, FinishTyped DEF HandlerThrows, TypeOK
  <2>2. adrift' \in BOOLEAN /\ orphan' \in BOOLEAN
    BY <1>throws DEF HandlerThrows
  <2>. QED
    BY <1>throws, <2>1, <2>2 DEF HandlerThrows, TypeOK
<1>23. ASSUME NEW j \in Jobs, expire(j) PROVE TypeOK'
  <2>1. jobs' \in [Jobs -> Job]
    BY <1>23, FinishTyped, DecideTyped DEF expire, TypeOK, Pcs, Phases
  <2>. QED
    BY <1>23, <2>1 DEF expire, TypeOK
<1>24. ASSUME NEW j \in Jobs, ExpireWrite(j) PROVE TypeOK'
  <2>1. jobs' \in [Jobs -> Job]
    BY <1>24, GotoTyped DEF ExpireWrite, TypeOK, Pcs, Phases
  <2>. QED
    BY <1>24, <2>1 DEF ExpireWrite, TypeOK, transition, Phases
<1>25. ASSUME NEW j \in Jobs, ExpireCheck(j) PROVE TypeOK'
  <2>1. jobs' \in [Jobs -> Job]
    BY <1>25, FinishTyped, GotoTyped DEF ExpireCheck, TypeOK, Pcs
  <2>. QED
    BY <1>25, <2>1 DEF ExpireCheck, TypeOK
<1>26. ASSUME NEW j \in Jobs, ExpireOffline(j) PROVE TypeOK'
  <2>1. jobs' \in [Jobs -> Job]
    BY <1>26, FinishTyped DEF ExpireOffline, TypeOK
  <2>. QED
    BY <1>26, <2>1 DEF ExpireOffline, TypeOK
<1>27. ASSUME NEW j \in Jobs, OfflineTimerFires(j) PROVE TypeOK'
  <2>1. NewJob("offline", "read", NoSocket) \in Job
    BY NewJobTyped DEF Kinds, Pcs
  <2>2. NoJob \in Job
    BY DEF NoJob, Job, Phases
  <2>. QED
    BY <1>27, <2>1, <2>2 DEF OfflineTimerFires, TypeOK
<1>28. ASSUME NEW j \in Jobs, UpdateTimerFires(j) PROVE TypeOK'
  <2>1. NewJob("expire", "read", NoSocket) \in Job
    BY NewJobTyped DEF Kinds, Pcs
  <2>2. NoJob \in Job
    BY DEF NoJob, Job, Phases
  <2>. QED
    BY <1>28, <2>1, <2>2 DEF UpdateTimerFires, TypeOK
<1>29. ASSUME NEW j \in Jobs, requestUpdate(j) PROVE TypeOK'
  <2>1. NewJob("request", "send", NoSocket) \in Job
    BY NewJobTyped DEF Kinds, Pcs
  <2>2. NoJob \in Job
    BY DEF NoJob, Job, Phases
  <2>. QED
    BY <1>29, <2>1, <2>2 DEF requestUpdate, TypeOK
<1>30. ASSUME NEW s \in Sockets, NEW j \in Jobs, Drop(s, j) PROVE TypeOK'
  BY <1>30, DisconnectTyped DEF Drop
<1>31. ASSUME NEW s \in Sockets, NEW j \in Jobs, recordProgress(s, j) PROVE TypeOK'
  <2>1. NewJob("progress", "write", NoSocket) \in Job
    BY NewJobTyped DEF Kinds, Pcs
  <2>2. [NewJob("progress", "write", NoSocket)
           EXCEPT !.next = IF phase = "requested" THEN "pulling" ELSE phase] \in Job
    BY <2>1 DEF Job, TypeOK, Phases
  <2>3. NoJob \in Job
    BY DEF NoJob, Job, Phases
  <2>. QED
    BY <1>31, <2>2, <2>3 DEF recordProgress, TypeOK
<1>32. ASSUME NEW s \in Sockets, NEW j \in Jobs, recordFailure(s, j) PROVE TypeOK'
  <2>1. NewJob("failure", "clear", NoSocket) \in Job
    BY NewJobTyped DEF Kinds, Pcs
  <2>2. [NewJob("failure", "clear", NoSocket) EXCEPT !.next = "failed"] \in Job
    BY <2>1 DEF Job, TypeOK, Phases
  <2>3. NoJob \in Job
    BY DEF NoJob, Job, Phases
  <2>. QED
    BY <1>32, <2>2, <2>3 DEF recordFailure, TypeOK
<1>33. ASSUME NEW s \in Sockets, NEW j \in Jobs, handleServiceStatus(s, j) PROVE TypeOK'
  <2>1. NewJob("report", "write", NoSocket) \in Job
    BY NewJobTyped DEF Kinds, Pcs
  <2>2. NoJob \in Job
    BY DEF NoJob, Job, Phases
  <2>. QED
    BY <1>33, <2>1, <2>2 DEF handleServiceStatus, TypeOK
<1>34. ASSUME NEW s \in Sockets, NEW j \in Jobs, RegisterStart(s, j) PROVE TypeOK'
  <2>1. NewJob("register", "verify", s) \in Job
    BY NewJobTyped DEF Kinds, Pcs
  <2>2. NoJob \in Job
    BY DEF NoJob, Job, Phases
  <2>. QED
    BY <1>34, <2>1, <2>2 DEF RegisterStart, TypeOK
<1>35. ASSUME NEW s \in Sockets, Connect(s) PROVE TypeOK'
  BY <1>35 DEF Connect, TypeOK
<1>36. ASSUME NEW s \in Sockets, disconnectAgent(s) PROVE TypeOK'
  BY <1>36 DEF disconnectAgent, TypeOK
<1>37. ASSUME acknowledge PROVE TypeOK'
  BY <1>37 DEF acknowledge, transition, TypeOK, Phases
<1>38. ASSUME HubRestart PROVE TypeOK'
  <2>1. NoJob \in Job
    BY DEF NoJob, Job, Phases
  <2>. QED
    BY <1>38, <2>1 DEF HubRestart, TypeOK, Phases
<1>39. ASSUME UNCHANGED vars PROVE TypeOK'
  BY <1>39 DEF vars, TypeOK
<1>. QED
  BY <1>1, <1>2, <1>3, <1>4, <1>5, <1>6, <1>7, <1>8, <1>9, <1>10, <1>11, <1>12,
     <1>13, <1>14, <1>15, <1>16, <1>17, <1>18, <1>19, <1>20, <1>21, <1>22, <1>23, <1>24,
     <1>25, <1>26, <1>27, <1>28, <1>29, <1>30, <1>31, <1>32, <1>33, <1>34, <1>35, <1>36,
     <1>37, <1>38, <1>39, <1>reads, <1>throws
  DEF Next, JobStep, Event

\* Init satisfies it: the Hub that has just run its onModuleInit hooks.
LEMMA TypeInit == Init => TypeOK
<1>1. NoJob \in Job
  BY DEF NoJob, Job, Phases
<1>. QED
  BY <1>1 DEF Init, TypeOK, Phases

\* The connection registry, the timers, the agent row and the suspended handlers are
\* always well typed: no handler leaves a map or a column in a state the others cannot read.
THEOREM TypeCorrect == Spec => []TypeOK
BY TypeInit, TypeStep, PTL DEF Spec

-----------------------------------------------------------------------------
(* An update in flight is driven *)

\* A handler that has decided on a phase: the ones that end an update are not about to
\* put it in flight, the ones that move it forward do not start it again.
Decided(job) ==
    /\ job.kind \in {"register", "failure"} /\ job.pc \in {"clear", "write"}
         => job.next \notin InFlight
    /\ job.kind \in {"progress", "disconnect"} /\ job.pc = "write"
         => job.next \in {"pulling", "restarting"}
    /\ job.kind = "disconnect" /\ job.pc = "status" => job.next = "restarting"

DecisionsHold == \A j \in Jobs : Decided(jobs[j])

\* A handler that will end the update or see to it that a timer does.
Drives(job) ==
    \/ job.kind = "request" /\ job.pc = "emit"
    \/ job.kind = "expire" /\ job.pc = "read"
    \/ job.kind \in {"register", "failure", "expire"} /\ job.pc \in {"clear", "write"}

\* A handler that ends frees its slot and leaves the others alone.
LEMMA SlotFinish ==
  ASSUME jobs \in [Jobs -> Job], NEW j \in Jobs, Finish(j)
  PROVE  jobs'[j] = NoJob /\ \A i \in Jobs \ {j} : jobs'[i] = jobs[i]
BY DEF Finish

\* A handler that moves on keeps everything but its pc.
LEMMA SlotGoto ==
  ASSUME jobs \in [Jobs -> Job], NEW j \in Jobs, NEW pc, Goto(j, pc)
  PROVE  /\ jobs'[j].kind = jobs[j].kind
         /\ jobs'[j].pc = pc
         /\ jobs'[j].sock = jobs[j].sock
         /\ jobs'[j].next = jobs[j].next
         /\ \A i \in Jobs \ {j} : jobs'[i] = jobs[i]
BY DEF Goto, Job

\* A handler that decides keeps everything but its pc and the phase it will write.
LEMMA SlotDecide ==
  ASSUME jobs \in [Jobs -> Job], NEW j \in Jobs, NEW pc, NEW p, Decide(j, pc, p)
  PROVE  /\ jobs'[j].kind = jobs[j].kind
         /\ jobs'[j].pc = pc
         /\ jobs'[j].sock = jobs[j].sock
         /\ jobs'[j].next = p
         /\ \A i \in Jobs \ {j} : jobs'[i] = jobs[i]
<1>1. jobs' = [jobs EXCEPT ![j] = [jobs[j] EXCEPT !.pc = pc, !.next = p]]
  BY DEF Decide
<1>2. jobs[j] \in Job
  OBVIOUS
<1>3. jobs'[j] = [jobs[j] EXCEPT !.pc = pc, !.next = p]
  BY <1>1
<1>. QED
  BY <1>1, <1>2, <1>3 DEF Job

\* Every handler keeps the decisions of the suspended ones in order.
LEMMA DecisionsStep == TypeOK /\ DecisionsHold /\ [Next]_vars => DecisionsHold'
<1> SUFFICES ASSUME TypeOK, DecisionsHold, [Next]_vars PROVE DecisionsHold'
  OBVIOUS
<1>typed. jobs \in [Jobs -> Job] /\ phase \in Phases
  BY DEF TypeOK
<1>1. ASSUME NEW j \in Jobs, RegisterRefuse(j) PROVE DecisionsHold'
  BY <1>1, <1>typed, SlotFinish
  DEF RegisterRefuse, handleDisconnect, NewJob, NoJob, At, DecisionsHold, Decided, InFlight
<1>2. ASSUME NEW j \in Jobs, RegisterRefuseClosed(j) PROVE DecisionsHold'
  BY <1>2, <1>typed, SlotFinish
  DEF RegisterRefuseClosed, NoJob, At, DecisionsHold, Decided, InFlight
<1>3. ASSUME NEW j \in Jobs, RegisterVerified(j) PROVE DecisionsHold'
  BY <1>3, <1>typed, SlotGoto DEF RegisterVerified, At, DecisionsHold, Decided, InFlight
<1>4. ASSUME NEW j \in Jobs, registerAgent(j) PROVE DecisionsHold'
  BY <1>4, <1>typed, SlotGoto DEF registerAgent, At, DecisionsHold, Decided, InFlight
<1>5. ASSUME NEW j \in Jobs, RegisterAttach(j) PROVE DecisionsHold'
  BY <1>5, <1>typed, SlotGoto DEF RegisterAttach, At, DecisionsHold, Decided, InFlight
<1>6. ASSUME NEW j \in Jobs, RegisterSecret(j) PROVE DecisionsHold'
  BY <1>6, <1>typed, SlotGoto DEF RegisterSecret, At, DecisionsHold, Decided, InFlight
<1>7. ASSUME NEW j \in Jobs, NEW matches \in BOOLEAN, handleReconnect(j, matches) PROVE DecisionsHold'
  BY <1>7, <1>typed, SlotFinish, SlotDecide
  DEF handleReconnect, NoJob, At, DecisionsHold, Decided, InFlight
<1>8. ASSUME NEW j \in Jobs, isExpectedRestart(j) PROVE DecisionsHold'
  BY <1>8, <1>typed, SlotGoto, SlotDecide
  DEF isExpectedRestart, At, DecisionsHold, Decided, InFlight
<1>9. ASSUME NEW j \in Jobs, MarkRestarting(j) PROVE DecisionsHold'
  BY <1>9, <1>typed, SlotGoto DEF MarkRestarting, At, DecisionsHold, Decided, InFlight
<1>10. ASSUME NEW j \in Jobs, scheduleOffline(j) PROVE DecisionsHold'
  BY <1>10, <1>typed, SlotFinish DEF scheduleOffline, NoJob, At, DecisionsHold, Decided, InFlight
<1>reads. ASSUME NEW j \in Jobs, ReadWorkspace(j) PROVE DecisionsHold'
  BY <1>reads, <1>typed, SlotGoto DEF ReadWorkspace, At, DecisionsHold, Decided, InFlight
<1>11. ASSUME NEW j \in Jobs, markAgentOffline(j) PROVE DecisionsHold'
  BY <1>11, <1>typed, SlotGoto DEF markAgentOffline, At, DecisionsHold, Decided, InFlight
<1>12. ASSUME NEW j \in Jobs, MarkOfflineFails(j) PROVE DecisionsHold'
  BY <1>12, <1>typed, SlotGoto DEF MarkOfflineFails, At, DecisionsHold, Decided, InFlight
<1>13. ASSUME NEW j \in Jobs, MarkOfflineGivesUp(j) PROVE DecisionsHold'
  BY <1>13, <1>typed, SlotGoto DEF MarkOfflineGivesUp, At, DecisionsHold, Decided, InFlight
<1>14. ASSUME NEW j \in Jobs, markServicesOffline(j) PROVE DecisionsHold'
  BY <1>14, <1>typed, SlotFinish
  DEF markServicesOffline, NoJob, At, DecisionsHold, Decided, InFlight
<1>15. ASSUME NEW j \in Jobs, MarkServicesFails(j) PROVE DecisionsHold'
  BY <1>15, <1>typed, SlotFinish DEF MarkServicesFails, NoJob, At, DecisionsHold, Decided, InFlight
<1>16. ASSUME NEW j \in Jobs, updateServiceStatus(j) PROVE DecisionsHold'
  BY <1>16, <1>typed, SlotFinish
  DEF updateServiceStatus, NoJob, At, DecisionsHold, Decided, InFlight
<1>17. ASSUME NEW j \in Jobs, RequestRefused(j) PROVE DecisionsHold'
  BY <1>17, <1>typed, SlotFinish DEF RequestRefused, NoJob, At, DecisionsHold, Decided, InFlight
<1>18. ASSUME NEW j \in Jobs, RequestSend(j) PROVE DecisionsHold'
  BY <1>18, <1>typed, SlotDecide DEF RequestSend, At, DecisionsHold, Decided, InFlight
<1>19. ASSUME NEW j \in Jobs, RequestWrite(j) PROVE DecisionsHold'
  BY <1>19, <1>typed, SlotGoto DEF RequestWrite, At, DecisionsHold, Decided, InFlight
<1>20. ASSUME NEW j \in Jobs, armTimeout(j) PROVE DecisionsHold'
  BY <1>20, <1>typed, SlotFinish DEF armTimeout, NoJob, At, DecisionsHold, Decided, InFlight
<1>21. ASSUME NEW j \in Jobs, clearTimeout(j) PROVE DecisionsHold'
  BY <1>21, <1>typed, SlotGoto DEF clearTimeout, At, DecisionsHold, Decided, InFlight
<1>22. ASSUME NEW j \in Jobs, WritePhase(j) PROVE DecisionsHold'
  BY <1>22, <1>typed, SlotFinish DEF WritePhase, NoJob, At, DecisionsHold, Decided, InFlight
<1>throws. ASSUME NEW j \in Jobs, HandlerThrows(j) PROVE DecisionsHold'
  BY <1>throws, <1>typed, SlotFinish DEF HandlerThrows, NoJob, At, DecisionsHold, Decided, InFlight
<1>23. ASSUME NEW j \in Jobs, expire(j) PROVE DecisionsHold'
  BY <1>23, <1>typed, SlotFinish, SlotDecide DEF expire, NoJob, At, DecisionsHold, Decided, InFlight
<1>24. ASSUME NEW j \in Jobs, ExpireWrite(j) PROVE DecisionsHold'
  BY <1>24, <1>typed, SlotGoto DEF ExpireWrite, At, DecisionsHold, Decided, InFlight
<1>25. ASSUME NEW j \in Jobs, ExpireCheck(j) PROVE DecisionsHold'
  BY <1>25, <1>typed, SlotFinish, SlotGoto
  DEF ExpireCheck, NoJob, At, DecisionsHold, Decided, InFlight
<1>26. ASSUME NEW j \in Jobs, ExpireOffline(j) PROVE DecisionsHold'
  BY <1>26, <1>typed, SlotFinish DEF ExpireOffline, NoJob, At, DecisionsHold, Decided, InFlight
<1>27. ASSUME NEW j \in Jobs, OfflineTimerFires(j) PROVE DecisionsHold'
  BY <1>27, <1>typed DEF OfflineTimerFires, NoJob, NewJob, At, DecisionsHold, Decided, InFlight
<1>28. ASSUME NEW j \in Jobs, UpdateTimerFires(j) PROVE DecisionsHold'
  BY <1>28, <1>typed DEF UpdateTimerFires, NoJob, NewJob, At, DecisionsHold, Decided, InFlight
<1>29. ASSUME NEW j \in Jobs, requestUpdate(j) PROVE DecisionsHold'
  BY <1>29, <1>typed DEF requestUpdate, NoJob, NewJob, At, DecisionsHold, Decided, InFlight
<1>30. ASSUME NEW s \in Sockets, NEW j \in Jobs, Drop(s, j) PROVE DecisionsHold'
  BY <1>30, <1>typed, SlotFinish
  DEF Drop, handleDisconnect, NewJob, NoJob, At, DecisionsHold, Decided, InFlight
<1>31. ASSUME NEW s \in Sockets, NEW j \in Jobs, recordProgress(s, j) PROVE DecisionsHold'
  BY <1>31, <1>typed DEF recordProgress, NoJob, NewJob, At, DecisionsHold, Decided, InFlight
<1>32. ASSUME NEW s \in Sockets, NEW j \in Jobs, recordFailure(s, j) PROVE DecisionsHold'
  BY <1>32, <1>typed DEF recordFailure, NoJob, NewJob, At, DecisionsHold, Decided, InFlight
<1>33. ASSUME NEW s \in Sockets, NEW j \in Jobs, handleServiceStatus(s, j) PROVE DecisionsHold'
  BY <1>33, <1>typed DEF handleServiceStatus, NoJob, NewJob, At, DecisionsHold, Decided, InFlight
<1>34. ASSUME NEW s \in Sockets, NEW j \in Jobs, RegisterStart(s, j) PROVE DecisionsHold'
  BY <1>34, <1>typed DEF RegisterStart, NoJob, NewJob, At, DecisionsHold, Decided, InFlight
<1>35. ASSUME NEW s \in Sockets, Connect(s) PROVE DecisionsHold'
  BY <1>35 DEF Connect, DecisionsHold
<1>36. ASSUME NEW s \in Sockets, disconnectAgent(s) PROVE DecisionsHold'
  BY <1>36 DEF disconnectAgent, DecisionsHold
<1>37. ASSUME acknowledge PROVE DecisionsHold'
  BY <1>37 DEF acknowledge, DecisionsHold
<1>38. ASSUME HubRestart PROVE DecisionsHold'
  BY <1>38 DEF HubRestart, NoJob, DecisionsHold, Decided
<1>39. ASSUME UNCHANGED vars PROVE DecisionsHold'
  BY <1>39 DEF vars, DecisionsHold
<1>. QED
  BY <1>1, <1>2, <1>3, <1>4, <1>5, <1>6, <1>7, <1>8, <1>9, <1>10, <1>11, <1>12,
     <1>13, <1>14, <1>15, <1>16, <1>17, <1>18, <1>19, <1>20, <1>21, <1>22, <1>23, <1>24,
     <1>25, <1>26, <1>27, <1>28, <1>29, <1>30, <1>31, <1>32, <1>33, <1>34, <1>35, <1>36,
     <1>37, <1>38, <1>39, <1>reads, <1>throws
  DEF Next, JobStep, Event

\* Somebody drives the update: the timer, or one of the suspended handlers.
LEMMA DrivenIsDriver == Driven <=> updateTimer \/ \E j \in Jobs : Drives(jobs[j])
BY DEF Driven, Drives, At

\* The driver is still there after a step that keeps the timer and disturbs only a
\* handler that is none.
LEMMA DriverStays ==
  ASSUME Driven, updateTimer' = updateTimer, NEW j \in Jobs,
         ~Drives(jobs[j]) \/ Drives(jobs'[j]),
         \A i \in Jobs \ {j} : jobs'[i] = jobs[i]
  PROVE  Driven'
BY DrivenIsDriver DEF Driven, Drives, At

\* Every handler leaves an update in flight driven, or adrift.
LEMMA DrivenStep ==
  TypeOK /\ DecisionsHold /\ InFlightIsDriven /\ [Next]_vars => InFlightIsDriven'
<1> SUFFICES ASSUME TypeOK, DecisionsHold, InFlightIsDriven, [Next]_vars,
                    phase' \in InFlight, ~adrift'
             PROVE  Driven'
  BY DEF InFlightIsDriven
<1>typed. jobs \in [Jobs -> Job] /\ phase \in Phases /\ adrift \in BOOLEAN
  BY DEF TypeOK
<1>old. phase \in InFlight /\ ~adrift => Driven
  BY DEF InFlightIsDriven
<1>1. ASSUME NEW j \in Jobs, RegisterRefuse(j) PROVE Driven'
  BY <1>1, <1>typed, <1>old, SlotFinish, DriverStays
  DEF RegisterRefuse, At, Drives, handleDisconnect, NewJob, NoJob, IsFree
<1>2. ASSUME NEW j \in Jobs, RegisterRefuseClosed(j) PROVE Driven'
  BY <1>2, <1>typed, <1>old, SlotFinish, DriverStays DEF RegisterRefuseClosed, At, Drives, NoJob
<1>3. ASSUME NEW j \in Jobs, RegisterVerified(j) PROVE Driven'
  BY <1>3, <1>typed, <1>old, SlotGoto, DriverStays DEF RegisterVerified, At, Drives
<1>4. ASSUME NEW j \in Jobs, registerAgent(j) PROVE Driven'
  BY <1>4, <1>typed, <1>old, SlotGoto, DriverStays DEF registerAgent, At, Drives
<1>5. ASSUME NEW j \in Jobs, RegisterAttach(j) PROVE Driven'
  BY <1>5, <1>typed, <1>old, SlotGoto, DriverStays DEF RegisterAttach, At, Drives
<1>6. ASSUME NEW j \in Jobs, RegisterSecret(j) PROVE Driven'
  BY <1>6, <1>typed, <1>old, SlotGoto, DriverStays DEF RegisterSecret, At, Drives
<1>7. ASSUME NEW j \in Jobs, NEW matches \in BOOLEAN, handleReconnect(j, matches) PROVE Driven'
  BY <1>7, <1>typed, <1>old, SlotFinish, SlotDecide, DriverStays
  DEF handleReconnect, At, Drives, NoJob, InFlight
<1>8. ASSUME NEW j \in Jobs, isExpectedRestart(j) PROVE Driven'
  BY <1>8, <1>typed, <1>old, SlotGoto, SlotDecide, DriverStays DEF isExpectedRestart, At, Drives
<1>9. ASSUME NEW j \in Jobs, MarkRestarting(j) PROVE Driven'
  BY <1>9, <1>typed, <1>old, SlotGoto, DriverStays DEF MarkRestarting, At, Drives
<1>10. ASSUME NEW j \in Jobs, scheduleOffline(j) PROVE Driven'
  BY <1>10, <1>typed, <1>old, SlotFinish, DriverStays DEF scheduleOffline, At, Drives, NoJob
<1>reads. ASSUME NEW j \in Jobs, ReadWorkspace(j) PROVE Driven'
  BY <1>reads, <1>typed, <1>old, SlotGoto, DriverStays DEF ReadWorkspace, At, Drives
<1>11. ASSUME NEW j \in Jobs, markAgentOffline(j) PROVE Driven'
  BY <1>11, <1>typed, <1>old, SlotGoto, DriverStays DEF markAgentOffline, At, Drives
<1>12. ASSUME NEW j \in Jobs, MarkOfflineFails(j) PROVE Driven'
  BY <1>12, <1>typed, <1>old, SlotGoto, DriverStays DEF MarkOfflineFails, At, Drives
<1>13. ASSUME NEW j \in Jobs, MarkOfflineGivesUp(j) PROVE Driven'
  BY <1>13, <1>typed, <1>old, SlotGoto, DriverStays DEF MarkOfflineGivesUp, At, Drives
<1>14. ASSUME NEW j \in Jobs, markServicesOffline(j) PROVE Driven'
  BY <1>14, <1>typed, <1>old, SlotFinish, DriverStays DEF markServicesOffline, At, Drives, NoJob
<1>15. ASSUME NEW j \in Jobs, MarkServicesFails(j) PROVE Driven'
  BY <1>15, <1>typed, <1>old, SlotFinish, DriverStays DEF MarkServicesFails, At, Drives, NoJob
<1>16. ASSUME NEW j \in Jobs, updateServiceStatus(j) PROVE Driven'
  BY <1>16, <1>typed, <1>old, SlotFinish, DriverStays DEF updateServiceStatus, At, Drives, NoJob
<1>17. ASSUME NEW j \in Jobs, RequestRefused(j) PROVE Driven'
  BY <1>17, <1>typed, <1>old, SlotFinish, DriverStays DEF RequestRefused, At, Drives, NoJob
<1>18. ASSUME NEW j \in Jobs, RequestSend(j) PROVE Driven'
  BY <1>18, <1>typed, SlotDecide, <1>old, DriverStays DEF RequestSend, At, Drives
<1>19. ASSUME NEW j \in Jobs, RequestWrite(j) PROVE Driven'
  BY <1>19, <1>typed, SlotGoto DEF RequestWrite, Driven, At
<1>20. ASSUME NEW j \in Jobs, armTimeout(j) PROVE Driven'
  BY <1>20 DEF armTimeout, Driven
<1>21. ASSUME NEW j \in Jobs, clearTimeout(j) PROVE Driven'
  BY <1>21, <1>typed, SlotGoto DEF clearTimeout, Driven, At
<1>22. ASSUME NEW j \in Jobs, WritePhase(j) PROVE Driven'
  <2>1. phase' = jobs[j].next /\ jobs[j].kind \in {"progress", "failure", "register", "disconnect"}
        /\ jobs[j].pc = "write" /\ Decided(jobs[j])
    BY <1>22 DEF WritePhase, transition, At, DecisionsHold
  <2>2. jobs[j].kind \in {"progress", "disconnect"} /\ phase' \in {"pulling", "restarting"}
    BY <2>1 DEF Decided, InFlight
  <2>3. phase \in InFlight /\ ~adrift
    BY <1>22, <1>typed, <2>2 DEF WritePhase, transition, InFlight
  <2>4. ~Drives(jobs[j])
    BY <2>1, <2>2 DEF Drives
  <2>. QED
    BY <1>22, <1>typed, <1>old, <2>3, <2>4, SlotFinish, DriverStays DEF WritePhase
<1>throws. ASSUME NEW j \in Jobs, HandlerThrows(j) PROVE Driven'
  <2>1. ~WasToEnd(j) \/ phase \notin InFlight
    BY <1>throws DEF HandlerThrows
  <2>2. jobs[j].pc # "clear"
    BY <1>throws DEF HandlerThrows, Refusable, At
  <2>3. ~Drives(jobs[j]) \/ phase \notin InFlight
    BY <2>1, <2>2 DEF WasToEnd, Drives, At
  <2>. QED
    BY <1>throws, <2>3, <1>typed, <1>old, SlotFinish, DriverStays DEF HandlerThrows
<1>23. ASSUME NEW j \in Jobs, expire(j) PROVE Driven'
  BY <1>23, <1>typed, <1>old, SlotFinish, SlotDecide, DriverStays
  DEF expire, At, Drives, NoJob, InFlight
<1>24. ASSUME NEW j \in Jobs, ExpireWrite(j) PROVE Driven'
  BY <1>24 DEF ExpireWrite, transition, InFlight
<1>25. ASSUME NEW j \in Jobs, ExpireCheck(j) PROVE Driven'
  BY <1>25, <1>typed, <1>old, SlotFinish, SlotGoto, DriverStays DEF ExpireCheck, At, Drives, NoJob
<1>26. ASSUME NEW j \in Jobs, ExpireOffline(j) PROVE Driven'
  BY <1>26, <1>typed, <1>old, SlotFinish, DriverStays DEF ExpireOffline, At, Drives, NoJob
<1>27. ASSUME NEW j \in Jobs, OfflineTimerFires(j) PROVE Driven'
  BY <1>27, <1>typed, <1>old, DriverStays DEF OfflineTimerFires, At, Drives, NewJob, NoJob, IsFree
<1>28. ASSUME NEW j \in Jobs, UpdateTimerFires(j) PROVE Driven'
  BY <1>28, <1>typed DEF UpdateTimerFires, NewJob, Driven, At
<1>29. ASSUME NEW j \in Jobs, requestUpdate(j) PROVE Driven'
  BY <1>29, <1>typed, <1>old, DriverStays DEF requestUpdate, At, Drives, NewJob, NoJob, IsFree
<1>30. ASSUME NEW s \in Sockets, NEW j \in Jobs, Drop(s, j) PROVE Driven'
  BY <1>30, <1>typed, <1>old, SlotFinish, DriverStays
  DEF Drop, At, Drives, handleDisconnect, NewJob, NoJob, IsFree
<1>31. ASSUME NEW s \in Sockets, NEW j \in Jobs, recordProgress(s, j) PROVE Driven'
  BY <1>31, <1>typed, <1>old, DriverStays DEF recordProgress, At, Drives, NewJob, NoJob, IsFree
<1>32. ASSUME NEW s \in Sockets, NEW j \in Jobs, recordFailure(s, j) PROVE Driven'
  BY <1>32, <1>typed, <1>old, DriverStays DEF recordFailure, At, Drives, NewJob, NoJob, IsFree
<1>33. ASSUME NEW s \in Sockets, NEW j \in Jobs, handleServiceStatus(s, j) PROVE Driven'
  BY <1>33, <1>typed, <1>old, DriverStays DEF handleServiceStatus, At, Drives, NewJob, NoJob, IsFree
<1>34. ASSUME NEW s \in Sockets, NEW j \in Jobs, RegisterStart(s, j) PROVE Driven'
  BY <1>34, <1>typed, <1>old, DriverStays DEF RegisterStart, At, Drives, NewJob, NoJob, IsFree
<1>35. ASSUME NEW s \in Sockets, Connect(s) PROVE Driven'
  BY <1>35, <1>old DEF Connect, Driven, At
<1>36. ASSUME NEW s \in Sockets, disconnectAgent(s) PROVE Driven'
  BY <1>36, <1>old DEF disconnectAgent, Driven, At
<1>37. ASSUME acknowledge PROVE Driven'
  BY <1>37 DEF acknowledge, transition, InFlight
<1>38. ASSUME HubRestart PROVE Driven'
  BY <1>38 DEF HubRestart, InFlight
<1>39. ASSUME UNCHANGED vars PROVE Driven'
  BY <1>39, <1>old DEF vars, Driven, At
<1>. QED
  BY <1>1, <1>2, <1>3, <1>4, <1>5, <1>6, <1>7, <1>8, <1>9, <1>10, <1>11, <1>12,
     <1>13, <1>14, <1>15, <1>16, <1>17, <1>18, <1>19, <1>20, <1>21, <1>22, <1>23, <1>24,
     <1>25, <1>26, <1>27, <1>28, <1>29, <1>30, <1>31, <1>32, <1>33, <1>34, <1>35, <1>36,
     <1>37, <1>38, <1>39, <1>reads, <1>throws
  DEF Next, JobStep, Event

\* No interleaving of the update handlers leaves an update in flight that nobody will
\* end, except by writing a phase that was read before the update ended, or by a query that
\* the database refuses to the handler that was to end it or to arm its timer.
THEOREM UpdatesAreDriven == Spec => []InFlightIsDriven
<1>1. Init => DecisionsHold /\ InFlightIsDriven
  BY DEF Init, DecisionsHold, Decided, NoJob, InFlightIsDriven, InFlight
<1>. QED
  BY <1>1, TypeInit, TypeStep, DecisionsStep, DrivenStep, PTL DEF Spec

-----------------------------------------------------------------------------
(* The registry points at registered sockets *)

\* A register handler that has yet to attach is about a socket.
RegisteringKnown ==
    \A j \in Jobs :
        jobs[j].kind = "register" /\ jobs[j].pc \in {"verify", "update", "attach"}
          => jobs[j].sock \in Sockets

\* The end of a connection starts no register handler.
LEMMA DisconnectKnown ==
  ASSUME TypeOK, RegisteringKnown, NEW s \in Sockets, NEW j \in Jobs, handleDisconnect(s, j)
  PROVE  RegisteringKnown'
<1>typed. jobs \in [Jobs -> Job]
  BY DEF TypeOK
<1>. QED
  BY <1>typed, SlotFinish DEF handleDisconnect, NewJob, NoJob, RegisteringKnown

\* Every handler keeps the register handlers' sockets known.
LEMMA RegisteringStep == TypeOK /\ RegisteringKnown /\ [Next]_vars => RegisteringKnown'
<1> SUFFICES ASSUME TypeOK, RegisteringKnown, [Next]_vars PROVE RegisteringKnown'
  OBVIOUS
<1>typed. jobs \in [Jobs -> Job] /\ sock \in [Sockets -> {"closed", "open", "closing"}]
  BY DEF TypeOK
<1>1. ASSUME NEW j \in Jobs, RegisterRefuse(j) PROVE RegisteringKnown'
  <2>1. jobs[j].sock \in Sockets
    BY <1>1 DEF RegisterRefuse, At, RegisteringKnown
  <2>. QED
    BY <1>1, <2>1, DisconnectKnown DEF RegisterRefuse
<1>2. ASSUME NEW j \in Jobs, RegisterRefuseClosed(j) PROVE RegisteringKnown'
  BY <1>2, <1>typed, SlotFinish DEF RegisterRefuseClosed, At, NoJob, RegisteringKnown
<1>3. ASSUME NEW j \in Jobs, RegisterVerified(j) PROVE RegisteringKnown'
  BY <1>3, <1>typed, SlotGoto DEF RegisterVerified, At, RegisteringKnown
<1>4. ASSUME NEW j \in Jobs, registerAgent(j) PROVE RegisteringKnown'
  BY <1>4, <1>typed, SlotGoto DEF registerAgent, At, RegisteringKnown
<1>5. ASSUME NEW j \in Jobs, RegisterAttach(j) PROVE RegisteringKnown'
  BY <1>5, <1>typed, SlotGoto DEF RegisterAttach, At, RegisteringKnown
<1>6. ASSUME NEW j \in Jobs, RegisterSecret(j) PROVE RegisteringKnown'
  BY <1>6, <1>typed, SlotGoto DEF RegisterSecret, At, RegisteringKnown
<1>7. ASSUME NEW j \in Jobs, NEW matches \in BOOLEAN, handleReconnect(j, matches) PROVE RegisteringKnown'
  BY <1>7, <1>typed, SlotFinish, SlotDecide DEF handleReconnect, At, NoJob, RegisteringKnown
<1>8. ASSUME NEW j \in Jobs, isExpectedRestart(j) PROVE RegisteringKnown'
  BY <1>8, <1>typed, SlotGoto, SlotDecide DEF isExpectedRestart, At, RegisteringKnown
<1>9. ASSUME NEW j \in Jobs, MarkRestarting(j) PROVE RegisteringKnown'
  BY <1>9, <1>typed, SlotGoto DEF MarkRestarting, At, RegisteringKnown
<1>10. ASSUME NEW j \in Jobs, scheduleOffline(j) PROVE RegisteringKnown'
  BY <1>10, <1>typed, SlotFinish DEF scheduleOffline, At, NoJob, RegisteringKnown
<1>reads. ASSUME NEW j \in Jobs, ReadWorkspace(j) PROVE RegisteringKnown'
  BY <1>reads, <1>typed, SlotGoto DEF ReadWorkspace, At, RegisteringKnown
<1>11. ASSUME NEW j \in Jobs, markAgentOffline(j) PROVE RegisteringKnown'
  BY <1>11, <1>typed, SlotGoto DEF markAgentOffline, At, RegisteringKnown
<1>12. ASSUME NEW j \in Jobs, MarkOfflineFails(j) PROVE RegisteringKnown'
  BY <1>12, <1>typed, SlotGoto DEF MarkOfflineFails, At, RegisteringKnown
<1>13. ASSUME NEW j \in Jobs, MarkOfflineGivesUp(j) PROVE RegisteringKnown'
  BY <1>13, <1>typed, SlotGoto DEF MarkOfflineGivesUp, At, RegisteringKnown
<1>14. ASSUME NEW j \in Jobs, markServicesOffline(j) PROVE RegisteringKnown'
  BY <1>14, <1>typed, SlotFinish DEF markServicesOffline, At, NoJob, RegisteringKnown
<1>15. ASSUME NEW j \in Jobs, MarkServicesFails(j) PROVE RegisteringKnown'
  BY <1>15, <1>typed, SlotFinish DEF MarkServicesFails, At, NoJob, RegisteringKnown
<1>16. ASSUME NEW j \in Jobs, updateServiceStatus(j) PROVE RegisteringKnown'
  BY <1>16, <1>typed, SlotFinish DEF updateServiceStatus, At, NoJob, RegisteringKnown
<1>17. ASSUME NEW j \in Jobs, RequestRefused(j) PROVE RegisteringKnown'
  BY <1>17, <1>typed, SlotFinish DEF RequestRefused, At, NoJob, RegisteringKnown
<1>18. ASSUME NEW j \in Jobs, RequestSend(j) PROVE RegisteringKnown'
  BY <1>18, <1>typed, SlotDecide DEF RequestSend, At, RegisteringKnown
<1>19. ASSUME NEW j \in Jobs, RequestWrite(j) PROVE RegisteringKnown'
  BY <1>19, <1>typed, SlotGoto DEF RequestWrite, At, RegisteringKnown
<1>20. ASSUME NEW j \in Jobs, armTimeout(j) PROVE RegisteringKnown'
  BY <1>20, <1>typed, SlotFinish DEF armTimeout, At, NoJob, RegisteringKnown
<1>21. ASSUME NEW j \in Jobs, clearTimeout(j) PROVE RegisteringKnown'
  BY <1>21, <1>typed, SlotGoto DEF clearTimeout, At, RegisteringKnown
<1>22. ASSUME NEW j \in Jobs, WritePhase(j) PROVE RegisteringKnown'
  BY <1>22, <1>typed, SlotFinish DEF WritePhase, At, NoJob, RegisteringKnown
<1>throws. ASSUME NEW j \in Jobs, HandlerThrows(j) PROVE RegisteringKnown'
  BY <1>throws, <1>typed, SlotFinish DEF HandlerThrows, At, NoJob, RegisteringKnown
<1>23. ASSUME NEW j \in Jobs, expire(j) PROVE RegisteringKnown'
  BY <1>23, <1>typed, SlotFinish, SlotDecide DEF expire, At, NoJob, RegisteringKnown
<1>24. ASSUME NEW j \in Jobs, ExpireWrite(j) PROVE RegisteringKnown'
  BY <1>24, <1>typed, SlotGoto DEF ExpireWrite, At, RegisteringKnown
<1>25. ASSUME NEW j \in Jobs, ExpireCheck(j) PROVE RegisteringKnown'
  BY <1>25, <1>typed, SlotFinish, SlotGoto DEF ExpireCheck, At, NoJob, RegisteringKnown
<1>26. ASSUME NEW j \in Jobs, ExpireOffline(j) PROVE RegisteringKnown'
  BY <1>26, <1>typed, SlotFinish DEF ExpireOffline, At, NoJob, RegisteringKnown
<1>27. ASSUME NEW j \in Jobs, OfflineTimerFires(j) PROVE RegisteringKnown'
  BY <1>27, <1>typed DEF OfflineTimerFires, At, NewJob, NoJob, RegisteringKnown
<1>28. ASSUME NEW j \in Jobs, UpdateTimerFires(j) PROVE RegisteringKnown'
  BY <1>28, <1>typed DEF UpdateTimerFires, At, NewJob, NoJob, RegisteringKnown
<1>29. ASSUME NEW j \in Jobs, requestUpdate(j) PROVE RegisteringKnown'
  BY <1>29, <1>typed DEF requestUpdate, At, NewJob, NoJob, RegisteringKnown
<1>30. ASSUME NEW s \in Sockets, NEW j \in Jobs, Drop(s, j) PROVE RegisteringKnown'
  BY <1>30, DisconnectKnown DEF Drop
<1>31. ASSUME NEW s \in Sockets, NEW j \in Jobs, recordProgress(s, j) PROVE RegisteringKnown'
  BY <1>31, <1>typed DEF recordProgress, At, NewJob, NoJob, RegisteringKnown
<1>32. ASSUME NEW s \in Sockets, NEW j \in Jobs, recordFailure(s, j) PROVE RegisteringKnown'
  BY <1>32, <1>typed DEF recordFailure, At, NewJob, NoJob, RegisteringKnown
<1>33. ASSUME NEW s \in Sockets, NEW j \in Jobs, handleServiceStatus(s, j) PROVE RegisteringKnown'
  BY <1>33, <1>typed DEF handleServiceStatus, At, NewJob, NoJob, RegisteringKnown
<1>34. ASSUME NEW s \in Sockets, NEW j \in Jobs, RegisterStart(s, j) PROVE RegisteringKnown'
  BY <1>34, <1>typed DEF RegisterStart, At, NewJob, NoJob, RegisteringKnown
<1>35. ASSUME NEW s \in Sockets, Connect(s) PROVE RegisteringKnown'
  BY <1>35, <1>typed DEF Connect, At, RegisteringKnown
<1>36. ASSUME NEW s \in Sockets, disconnectAgent(s) PROVE RegisteringKnown'
  BY <1>36, <1>typed DEF disconnectAgent, At, RegisteringKnown
<1>37. ASSUME acknowledge PROVE RegisteringKnown'
  BY <1>37, <1>typed DEF acknowledge, At, RegisteringKnown
<1>38. ASSUME HubRestart PROVE RegisteringKnown'
  BY <1>38 DEF HubRestart, NoJob, RegisteringKnown
<1>39. ASSUME UNCHANGED vars PROVE RegisteringKnown'
  BY <1>39 DEF vars, RegisteringKnown
<1>. QED
  BY <1>1, <1>2, <1>3, <1>4, <1>5, <1>6, <1>7, <1>8, <1>9, <1>10, <1>11, <1>12,
     <1>13, <1>14, <1>15, <1>16, <1>17, <1>18, <1>19, <1>20, <1>21, <1>22, <1>23, <1>24,
     <1>25, <1>26, <1>27, <1>28, <1>29, <1>30, <1>31, <1>32, <1>33, <1>34, <1>35, <1>36,
     <1>37, <1>38, <1>39, <1>reads, <1>throws
  DEF Next, JobStep, Event

\* Every handler leaves the registry pointing at a registered socket.
LEMMA LinkStep ==
  TypeOK /\ RegisteringKnown /\ LinkIsRegistered /\ [Next]_vars => LinkIsRegistered'
<1> SUFFICES ASSUME TypeOK, RegisteringKnown, LinkIsRegistered, [Next]_vars
             PROVE  LinkIsRegistered'
  OBVIOUS
<1>typed. /\ sock \in [Sockets -> {"closed", "open", "closing"}]
          /\ data \in [Sockets -> {"fresh", "attached", "guarded"}]
          /\ link \in Sockets \cup {NoSocket}
  BY DEF TypeOK
<1>gone. ASSUME NEW s \in Sockets, NEW j \in Jobs, handleDisconnect(s, j) PROVE LinkIsRegistered'
  BY <1>typed, <1>gone DEF handleDisconnect, IsCurrent, LinkIsRegistered
<1>1. ASSUME NEW j \in Jobs, RegisterRefuse(j) PROVE LinkIsRegistered'
  <2>1. jobs[j].sock \in Sockets
    BY <1>1 DEF RegisterRefuse, At, RegisteringKnown
  <2>. QED
    BY <1>1, <2>1, <1>gone DEF RegisterRefuse
<1>2. ASSUME NEW j \in Jobs, RegisterRefuseClosed(j) PROVE LinkIsRegistered'
  BY <1>2 DEF RegisterRefuseClosed, LinkIsRegistered
<1>3. ASSUME NEW j \in Jobs, RegisterVerified(j) PROVE LinkIsRegistered'
  BY <1>3 DEF RegisterVerified, LinkIsRegistered
<1>4. ASSUME NEW j \in Jobs, registerAgent(j) PROVE LinkIsRegistered'
  BY <1>4 DEF registerAgent, LinkIsRegistered
<1>5. ASSUME NEW j \in Jobs, RegisterAttach(j) PROVE LinkIsRegistered'
  <2>1. jobs[j].sock \in Sockets
    BY <1>5 DEF RegisterAttach, At, RegisteringKnown
  <2>2. data'[jobs[j].sock] # "fresh"
    BY <1>5, <2>1, <1>typed DEF RegisterAttach
  <2>. QED
    BY <1>5, <2>1, <2>2 DEF RegisterAttach, LinkIsRegistered
<1>6. ASSUME NEW j \in Jobs, RegisterSecret(j) PROVE LinkIsRegistered'
  BY <1>6, <1>typed DEF RegisterSecret, LinkIsRegistered
<1>7. ASSUME NEW j \in Jobs, NEW matches \in BOOLEAN, handleReconnect(j, matches) PROVE LinkIsRegistered'
  BY <1>7 DEF handleReconnect, LinkIsRegistered
<1>8. ASSUME NEW j \in Jobs, isExpectedRestart(j) PROVE LinkIsRegistered'
  BY <1>8 DEF isExpectedRestart, LinkIsRegistered
<1>9. ASSUME NEW j \in Jobs, MarkRestarting(j) PROVE LinkIsRegistered'
  BY <1>9 DEF MarkRestarting, LinkIsRegistered
<1>10. ASSUME NEW j \in Jobs, scheduleOffline(j) PROVE LinkIsRegistered'
  BY <1>10 DEF scheduleOffline, LinkIsRegistered
<1>reads. ASSUME NEW j \in Jobs, ReadWorkspace(j) PROVE LinkIsRegistered'
  BY <1>reads DEF ReadWorkspace, LinkIsRegistered
<1>11. ASSUME NEW j \in Jobs, markAgentOffline(j) PROVE LinkIsRegistered'
  BY <1>11 DEF markAgentOffline, LinkIsRegistered
<1>12. ASSUME NEW j \in Jobs, MarkOfflineFails(j) PROVE LinkIsRegistered'
  BY <1>12 DEF MarkOfflineFails, LinkIsRegistered
<1>13. ASSUME NEW j \in Jobs, MarkOfflineGivesUp(j) PROVE LinkIsRegistered'
  BY <1>13 DEF MarkOfflineGivesUp, LinkIsRegistered
<1>14. ASSUME NEW j \in Jobs, markServicesOffline(j) PROVE LinkIsRegistered'
  BY <1>14 DEF markServicesOffline, LinkIsRegistered
<1>15. ASSUME NEW j \in Jobs, MarkServicesFails(j) PROVE LinkIsRegistered'
  BY <1>15 DEF MarkServicesFails, LinkIsRegistered
<1>16. ASSUME NEW j \in Jobs, updateServiceStatus(j) PROVE LinkIsRegistered'
  BY <1>16 DEF updateServiceStatus, LinkIsRegistered
<1>17. ASSUME NEW j \in Jobs, RequestRefused(j) PROVE LinkIsRegistered'
  BY <1>17 DEF RequestRefused, LinkIsRegistered
<1>18. ASSUME NEW j \in Jobs, RequestSend(j) PROVE LinkIsRegistered'
  BY <1>18 DEF RequestSend, LinkIsRegistered
<1>19. ASSUME NEW j \in Jobs, RequestWrite(j) PROVE LinkIsRegistered'
  BY <1>19 DEF RequestWrite, LinkIsRegistered
<1>20. ASSUME NEW j \in Jobs, armTimeout(j) PROVE LinkIsRegistered'
  BY <1>20 DEF armTimeout, LinkIsRegistered
<1>21. ASSUME NEW j \in Jobs, clearTimeout(j) PROVE LinkIsRegistered'
  BY <1>21 DEF clearTimeout, LinkIsRegistered
<1>22. ASSUME NEW j \in Jobs, WritePhase(j) PROVE LinkIsRegistered'
  BY <1>22 DEF WritePhase, LinkIsRegistered
<1>throws. ASSUME NEW j \in Jobs, HandlerThrows(j) PROVE LinkIsRegistered'
  BY <1>throws DEF HandlerThrows, LinkIsRegistered
<1>23. ASSUME NEW j \in Jobs, expire(j) PROVE LinkIsRegistered'
  BY <1>23 DEF expire, LinkIsRegistered
<1>24. ASSUME NEW j \in Jobs, ExpireWrite(j) PROVE LinkIsRegistered'
  BY <1>24 DEF ExpireWrite, LinkIsRegistered
<1>25. ASSUME NEW j \in Jobs, ExpireCheck(j) PROVE LinkIsRegistered'
  BY <1>25 DEF ExpireCheck, LinkIsRegistered
<1>26. ASSUME NEW j \in Jobs, ExpireOffline(j) PROVE LinkIsRegistered'
  BY <1>26 DEF ExpireOffline, LinkIsRegistered
<1>27. ASSUME NEW j \in Jobs, OfflineTimerFires(j) PROVE LinkIsRegistered'
  BY <1>27 DEF OfflineTimerFires, LinkIsRegistered
<1>28. ASSUME NEW j \in Jobs, UpdateTimerFires(j) PROVE LinkIsRegistered'
  BY <1>28 DEF UpdateTimerFires, LinkIsRegistered
<1>29. ASSUME NEW j \in Jobs, requestUpdate(j) PROVE LinkIsRegistered'
  BY <1>29 DEF requestUpdate, LinkIsRegistered
<1>30. ASSUME NEW s \in Sockets, NEW j \in Jobs, Drop(s, j) PROVE LinkIsRegistered'
  BY <1>30, <1>gone DEF Drop
<1>31. ASSUME NEW s \in Sockets, NEW j \in Jobs, recordProgress(s, j) PROVE LinkIsRegistered'
  BY <1>31 DEF recordProgress, LinkIsRegistered
<1>32. ASSUME NEW s \in Sockets, NEW j \in Jobs, recordFailure(s, j) PROVE LinkIsRegistered'
  BY <1>32 DEF recordFailure, LinkIsRegistered
<1>33. ASSUME NEW s \in Sockets, NEW j \in Jobs, handleServiceStatus(s, j) PROVE LinkIsRegistered'
  BY <1>33 DEF handleServiceStatus, LinkIsRegistered
<1>34. ASSUME NEW s \in Sockets, NEW j \in Jobs, RegisterStart(s, j) PROVE LinkIsRegistered'
  BY <1>34 DEF RegisterStart, LinkIsRegistered
<1>35. ASSUME NEW s \in Sockets, Connect(s) PROVE LinkIsRegistered'
  BY <1>35, <1>typed DEF Connect, LinkIsRegistered
<1>36. ASSUME NEW s \in Sockets, disconnectAgent(s) PROVE LinkIsRegistered'
  BY <1>36, <1>typed DEF disconnectAgent, LinkIsRegistered
<1>37. ASSUME acknowledge PROVE LinkIsRegistered'
  BY <1>37 DEF acknowledge, LinkIsRegistered
<1>38. ASSUME HubRestart PROVE LinkIsRegistered'
  BY <1>38, <1>typed DEF HubRestart, LinkIsRegistered
<1>39. ASSUME UNCHANGED vars PROVE LinkIsRegistered'
  BY <1>39 DEF vars, LinkIsRegistered
<1>. QED
  BY <1>1, <1>2, <1>3, <1>4, <1>5, <1>6, <1>7, <1>8, <1>9, <1>10, <1>11, <1>12,
     <1>13, <1>14, <1>15, <1>16, <1>17, <1>18, <1>19, <1>20, <1>21, <1>22, <1>23, <1>24,
     <1>25, <1>26, <1>27, <1>28, <1>29, <1>30, <1>31, <1>32, <1>33, <1>34, <1>35, <1>36,
     <1>37, <1>38, <1>39, <1>reads, <1>throws
  DEF Next, JobStep, Event

\* The registry never leads sendToAgent to a socket that did not register, and to a closed
\* one only if it closed while its register handler was waiting for the database.
THEOREM LinkedSocketsAreRegistered == Spec => []LinkIsRegistered
<1>1. Init => RegisteringKnown /\ LinkIsRegistered
  BY DEF Init, RegisteringKnown, NoJob, LinkIsRegistered
<1>. QED
  BY <1>1, TypeInit, TypeStep, RegisteringStep, LinkStep, PTL DEF Spec

\* A step that takes the registry entry away ends the socket it pointed at.
LEMMA OldSocketStep ==
  TypeOK /\ RegisteringKnown /\ [Next]_vars
    => (link # NoSocket /\ link' = NoSocket => sock'[link] # "open")
<1> SUFFICES ASSUME TypeOK, RegisteringKnown, [Next]_vars, link # NoSocket, link' = NoSocket
             PROVE  sock'[link] # "open"
  OBVIOUS
<1>typed. sock \in [Sockets -> {"closed", "open", "closing"}] /\ link \in Sockets
  BY DEF TypeOK
<1>gone. ASSUME NEW s \in Sockets, NEW j \in Jobs, handleDisconnect(s, j)
         PROVE  sock'[link] # "open"
  BY <1>typed, <1>gone DEF handleDisconnect, IsCurrent
<1>1. ASSUME NEW j \in Jobs, RegisterRefuse(j) PROVE sock'[link] # "open"
  <2>1. jobs[j].sock \in Sockets
    BY <1>1 DEF RegisterRefuse, At, RegisteringKnown
  <2>. QED
    BY <1>1, <2>1, <1>gone DEF RegisterRefuse
<1>2. ASSUME NEW j \in Jobs, RegisterRefuseClosed(j) PROVE sock'[link] # "open"
  BY <1>2 DEF RegisterRefuseClosed
<1>3. ASSUME NEW j \in Jobs, RegisterVerified(j) PROVE sock'[link] # "open"
  BY <1>3 DEF RegisterVerified
<1>4. ASSUME NEW j \in Jobs, registerAgent(j) PROVE sock'[link] # "open"
  BY <1>4 DEF registerAgent
<1>5. ASSUME NEW j \in Jobs, RegisterAttach(j) PROVE sock'[link] # "open"
  BY <1>5 DEF RegisterAttach, At, RegisteringKnown
<1>6. ASSUME NEW j \in Jobs, RegisterSecret(j) PROVE sock'[link] # "open"
  BY <1>6 DEF RegisterSecret
<1>7. ASSUME NEW j \in Jobs, NEW matches \in BOOLEAN, handleReconnect(j, matches) PROVE sock'[link] # "open"
  BY <1>7 DEF handleReconnect
<1>8. ASSUME NEW j \in Jobs, isExpectedRestart(j) PROVE sock'[link] # "open"
  BY <1>8 DEF isExpectedRestart
<1>9. ASSUME NEW j \in Jobs, MarkRestarting(j) PROVE sock'[link] # "open"
  BY <1>9 DEF MarkRestarting
<1>10. ASSUME NEW j \in Jobs, scheduleOffline(j) PROVE sock'[link] # "open"
  BY <1>10 DEF scheduleOffline
<1>reads. ASSUME NEW j \in Jobs, ReadWorkspace(j) PROVE sock'[link] # "open"
  BY <1>reads DEF ReadWorkspace
<1>11. ASSUME NEW j \in Jobs, markAgentOffline(j) PROVE sock'[link] # "open"
  BY <1>11 DEF markAgentOffline
<1>12. ASSUME NEW j \in Jobs, MarkOfflineFails(j) PROVE sock'[link] # "open"
  BY <1>12 DEF MarkOfflineFails
<1>13. ASSUME NEW j \in Jobs, MarkOfflineGivesUp(j) PROVE sock'[link] # "open"
  BY <1>13 DEF MarkOfflineGivesUp
<1>14. ASSUME NEW j \in Jobs, markServicesOffline(j) PROVE sock'[link] # "open"
  BY <1>14 DEF markServicesOffline
<1>15. ASSUME NEW j \in Jobs, MarkServicesFails(j) PROVE sock'[link] # "open"
  BY <1>15 DEF MarkServicesFails
<1>16. ASSUME NEW j \in Jobs, updateServiceStatus(j) PROVE sock'[link] # "open"
  BY <1>16 DEF updateServiceStatus
<1>17. ASSUME NEW j \in Jobs, RequestRefused(j) PROVE sock'[link] # "open"
  BY <1>17 DEF RequestRefused
<1>18. ASSUME NEW j \in Jobs, RequestSend(j) PROVE sock'[link] # "open"
  BY <1>18 DEF RequestSend
<1>19. ASSUME NEW j \in Jobs, RequestWrite(j) PROVE sock'[link] # "open"
  BY <1>19 DEF RequestWrite
<1>20. ASSUME NEW j \in Jobs, armTimeout(j) PROVE sock'[link] # "open"
  BY <1>20 DEF armTimeout
<1>21. ASSUME NEW j \in Jobs, clearTimeout(j) PROVE sock'[link] # "open"
  BY <1>21 DEF clearTimeout
<1>22. ASSUME NEW j \in Jobs, WritePhase(j) PROVE sock'[link] # "open"
  BY <1>22 DEF WritePhase
<1>throws. ASSUME NEW j \in Jobs, HandlerThrows(j) PROVE sock'[link] # "open"
  BY <1>throws DEF HandlerThrows
<1>23. ASSUME NEW j \in Jobs, expire(j) PROVE sock'[link] # "open"
  BY <1>23 DEF expire
<1>24. ASSUME NEW j \in Jobs, ExpireWrite(j) PROVE sock'[link] # "open"
  BY <1>24 DEF ExpireWrite
<1>25. ASSUME NEW j \in Jobs, ExpireCheck(j) PROVE sock'[link] # "open"
  BY <1>25 DEF ExpireCheck
<1>26. ASSUME NEW j \in Jobs, ExpireOffline(j) PROVE sock'[link] # "open"
  BY <1>26 DEF ExpireOffline
<1>27. ASSUME NEW j \in Jobs, OfflineTimerFires(j) PROVE sock'[link] # "open"
  BY <1>27 DEF OfflineTimerFires
<1>28. ASSUME NEW j \in Jobs, UpdateTimerFires(j) PROVE sock'[link] # "open"
  BY <1>28 DEF UpdateTimerFires
<1>29. ASSUME NEW j \in Jobs, requestUpdate(j) PROVE sock'[link] # "open"
  BY <1>29 DEF requestUpdate
<1>30. ASSUME NEW s \in Sockets, NEW j \in Jobs, Drop(s, j) PROVE sock'[link] # "open"
  BY <1>30, <1>gone DEF Drop
<1>31. ASSUME NEW s \in Sockets, NEW j \in Jobs, recordProgress(s, j) PROVE sock'[link] # "open"
  BY <1>31 DEF recordProgress
<1>32. ASSUME NEW s \in Sockets, NEW j \in Jobs, recordFailure(s, j) PROVE sock'[link] # "open"
  BY <1>32 DEF recordFailure
<1>33. ASSUME NEW s \in Sockets, NEW j \in Jobs, handleServiceStatus(s, j) PROVE sock'[link] # "open"
  BY <1>33 DEF handleServiceStatus
<1>34. ASSUME NEW s \in Sockets, NEW j \in Jobs, RegisterStart(s, j) PROVE sock'[link] # "open"
  BY <1>34 DEF RegisterStart
<1>35. ASSUME NEW s \in Sockets, Connect(s) PROVE sock'[link] # "open"
  BY <1>35 DEF Connect
<1>36. ASSUME NEW s \in Sockets, disconnectAgent(s) PROVE sock'[link] # "open"
  BY <1>36, <1>typed DEF disconnectAgent
<1>37. ASSUME acknowledge PROVE sock'[link] # "open"
  BY <1>37 DEF acknowledge
<1>38. ASSUME HubRestart PROVE sock'[link] # "open"
  BY <1>38, <1>typed DEF HubRestart
<1>39. ASSUME UNCHANGED vars PROVE sock'[link] # "open"
  BY <1>39 DEF vars
<1>. QED
  BY <1>1, <1>2, <1>3, <1>4, <1>5, <1>6, <1>7, <1>8, <1>9, <1>10, <1>11, <1>12,
     <1>13, <1>14, <1>15, <1>16, <1>17, <1>18, <1>19, <1>20, <1>21, <1>22, <1>23, <1>24,
     <1>25, <1>26, <1>27, <1>28, <1>29, <1>30, <1>31, <1>32, <1>33, <1>34, <1>35, <1>36,
     <1>37, <1>38, <1>39, <1>reads, <1>throws
  DEF Next, JobStep, Event

\* An agent that has reconnected keeps its link: the late disconnect of an older socket
\* never removes the registry entry of a socket that is open.
THEOREM ReconnectedAgentKeepsLink == Spec => LinkSurvivesOldSocket
<1>1. Init => RegisteringKnown
  BY DEF Init, RegisteringKnown, NoJob
<1>2. TypeOK /\ RegisteringKnown /\ [Next]_vars
        => [link # NoSocket /\ link' = NoSocket => sock'[link] # "open"]_vars
  BY OldSocketStep
<1>. QED
  BY <1>1, <1>2, TypeInit, TypeStep, RegisteringStep, PTL DEF Spec, LinkSurvivesOldSocket

=============================================================================
