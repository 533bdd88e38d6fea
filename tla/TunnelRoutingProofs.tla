------------------------ MODULE TunnelRoutingProofs ------------------------
(***************************************************************************)
(* Proofs about TunnelRouting for any number of requests, operators and    *)
(* targets and any time to live.                                           *)
(***************************************************************************)
EXTENDS TunnelRouting, TLAPS

USE NoTargetAssumption, RouteTTLAssumption

USE DEF rows

\* A lookup that succeeded found an agent, on a row that was not blocked.
LookupsHold ==
    \A r \in Requests : req[r].pc = "found" => req[r].target \in Targets /\ ~req[r].blocked

\* An answered request is well typed.
LEMMA AnswerTyped ==
  ASSUME req \in [Requests -> Request], NEW r \in Requests,
         NEW outcome \in Failures \cup {"success"}, NEW t \in Targets \cup {NoTarget},
         Answer(r, outcome, t)
  PROVE  req' \in [Requests -> Request]
<1>1. [Idle EXCEPT !.target = t, !.outcome = outcome] \in Request
  BY DEF Idle, Request
<1>. QED
  BY <1>1 DEF Answer

\* So is one that was dispatched to an agent, or failed to be.
LEMMA DispatchTyped ==
  ASSUME req \in [Requests -> Request], NEW r \in Requests, NEW t \in Targets \cup {NoTarget},
         NEW pooled \in BOOLEAN, NEW delivered \in BOOLEAN,
         dispatchToAgent(r, t, pooled, delivered)
  PROVE  req' \in [Requests -> Request]
BY AnswerTyped DEF dispatchToAgent, Failures

\* A live cache entry.
LEMMA EntryTyped == TypeOK /\ cache # NoEntry => cache \in CacheEntry
BY DEF TypeOK

\* Every step of a request, of an operator, of the clock and of the other handlers keeps
\* the state well typed.
LEMMA TypeStep == TypeOK /\ LookupsHold /\ [Next]_vars => TypeOK'
<1> SUFFICES ASSUME TypeOK, LookupsHold, [Next]_vars PROVE TypeOK'
  OBVIOUS
<1>typed. req \in [Requests -> Request] /\ route \in Targets \cup {NoTarget}
  BY DEF TypeOK
<1>1. ASSUME NEW r \in Requests, NEW pooled \in BOOLEAN, NEW delivered \in BOOLEAN,
             CacheHit(r, pooled, delivered)
      PROVE  TypeOK'
  <2>1. cache.target \in Targets
    BY <1>1, EntryTyped DEF CacheHit, CacheEntry
  <2>2. req' \in [Requests -> Request]
    BY <1>1, <1>typed, <2>1, DispatchTyped DEF CacheHit
  <2>. QED
    BY <1>1, <2>2 DEF CacheHit, TypeOK
<1>2. ASSUME NEW r \in Requests, sendProxyInfo(r) PROVE TypeOK'
  <2>1. [Idle EXCEPT !.pc = "workspace"] \in Request
    BY DEF Idle, Request
  <2>. QED
    BY <1>2, <2>1 DEF sendProxyInfo, TypeOK
<1>3. ASSUME NEW r \in Requests, WorkspaceQuery(r) PROVE TypeOK'
  <2>1. req' \in [Requests -> Request]
    <3>1. CASE active
      <4>1. [Idle EXCEPT !.pc = "endpoint"] \in Request
        BY DEF Idle, Request
      <4>. QED
        BY <1>3, <3>1, <4>1, <1>typed DEF WorkspaceQuery
    <3>2. CASE ~active
      BY <1>3, <3>2, <1>typed, AnswerTyped DEF WorkspaceQuery, Failures
    <3>. QED
      BY <3>1, <3>2
  <2>. QED
    BY <1>3, <2>1 DEF WorkspaceQuery, TypeOK
<1>4. ASSUME NEW r \in Requests, EndpointQuery(r) PROVE TypeOK'
  <2>1. req' \in [Requests -> Request]
    <3>1. CASE Verdict = "found"
      <4>1. [pc |-> "found", target |-> route, outcome |-> "none", blocked |-> block # "none"]
              \in Request
        BY <1>typed DEF Request
      <4>. QED
        BY <1>4, <3>1, <4>1, <1>typed DEF EndpointQuery
    <3>2. CASE Verdict # "found"
      <4>1. Verdict \in Failures
        BY <3>2 DEF Verdict, Failures
      <4>. QED
        BY <1>4, <3>2, <4>1, <1>typed, AnswerTyped DEF EndpointQuery
    <3>. QED
      BY <3>1, <3>2
  <2>. QED
    BY <1>4, <2>1 DEF EndpointQuery, TypeOK
<1>5. ASSUME NEW o \in Ops, OpStart(o) PROVE TypeOK'
  BY <1>5 DEF OpStart, TypeOK
<1>6. ASSUME NEW o \in Ops, NEW mode \in Modes, handleBlockServiceTraffic(o, mode) PROVE TypeOK'
  BY <1>6 DEF handleBlockServiceTraffic, TypeOK
<1>7. ASSUME NEW o \in Ops, handleUnblockServiceTraffic(o) PROVE TypeOK'
  BY <1>7 DEF handleUnblockServiceTraffic, TypeOK
<1>8. ASSUME NEW o \in Ops, invalidateRouteCache(o) PROVE TypeOK'
  BY <1>8 DEF invalidateRouteCache, TypeOK
<1>9. ASSUME Tick PROVE TypeOK'
  <2>1. cache' \in CacheEntry \cup {NoEntry}
    BY <1>9, EntryTyped DEF Tick, CacheEntry
  <2>. QED
    BY <1>9, <2>1 DEF Tick, TypeOK
<1>10. ASSUME RowsChange PROVE TypeOK'
  BY <1>10 DEF RowsChange, TypeOK
<1>11. ASSUME NEW r \in Requests, NEW pooled \in BOOLEAN, NEW delivered \in BOOLEAN,
              StoreRoute(r, pooled, delivered)
       PROVE  TypeOK'
  <2>1. req[r].target \in Targets
    BY <1>11 DEF StoreRoute, LookupsHold
  <2>2. req' \in [Requests -> Request]
    BY <1>11, <1>typed, <2>1, DispatchTyped DEF StoreRoute
  <2>3. cache' \in CacheEntry
    BY <1>11, <2>1, <1>typed DEF StoreRoute, CacheEntry
  <2>. QED
    BY <1>11, <2>2, <2>3 DEF StoreRoute, TypeOK
<1>12. ASSUME NEW r \in Requests, QueryFails(r) PROVE TypeOK'
  <2>1. req' \in [Requests -> Request]
    BY <1>12, <1>typed, AnswerTyped DEF QueryFails, Failures
  <2>. QED
    BY <1>12, <2>1 DEF QueryFails, TypeOK
<1>13. ASSUME UNCHANGED vars PROVE TypeOK'
  BY <1>13 DEF vars, TypeOK
<1>. QED
  BY <1>1, <1>2, <1>3, <1>4, <1>5, <1>6, <1>7, <1>8, <1>9, <1>10, <1>11, <1>12, <1>13
  DEF Next, RequestStep, OpStep

\* Every step keeps the lookups that succeeded in order.
LEMMA LookupsStep == TypeOK /\ LookupsHold /\ [Next]_vars => LookupsHold'
<1> SUFFICES ASSUME TypeOK, LookupsHold, [Next]_vars PROVE LookupsHold'
  OBVIOUS
<1>typed. req \in [Requests -> Request] /\ route \in Targets \cup {NoTarget}
  BY DEF TypeOK
<1>answered. ASSUME NEW r \in Requests, NEW outcome, NEW t, Answer(r, outcome, t)
             PROVE  LookupsHold'
  BY <1>typed, <1>answered DEF Answer, Idle, LookupsHold
<1>1. ASSUME NEW r \in Requests, NEW pooled \in BOOLEAN, NEW delivered \in BOOLEAN,
             CacheHit(r, pooled, delivered)
      PROVE  LookupsHold'
  BY <1>1, <1>answered DEF CacheHit, dispatchToAgent
<1>2. ASSUME NEW r \in Requests, sendProxyInfo(r) PROVE LookupsHold'
  BY <1>2, <1>typed DEF sendProxyInfo, Idle, LookupsHold
<1>3. ASSUME NEW r \in Requests, WorkspaceQuery(r) PROVE LookupsHold'
  <2>1. CASE active
    BY <1>3, <2>1, <1>typed DEF WorkspaceQuery, Idle, LookupsHold
  <2>2. CASE ~active
    BY <1>3, <2>2, <1>answered DEF WorkspaceQuery
  <2>. QED
    BY <2>1, <2>2
<1>4. ASSUME NEW r \in Requests, EndpointQuery(r) PROVE LookupsHold'
  <2>1. CASE Verdict = "found"
    <3>1. route \in Targets /\ block = "none"
      BY <2>1, <1>typed DEF Verdict, TypeOK, Modes
    <3>2. req' = [req EXCEPT ![r] = [pc |-> "found", target |-> route, outcome |-> "none",
                                     blocked |-> block # "none"]]
      BY <1>4, <2>1 DEF EndpointQuery
    <3>3. req'[r].target = route /\ req'[r].blocked = FALSE
      BY <3>1, <3>2, <1>typed
    <3>4. \A q \in Requests \ {r} : req'[q] = req[q]
      BY <3>2, <1>typed
    <3>. QED
      BY <3>1, <3>3, <3>4 DEF LookupsHold
  <2>2. CASE Verdict # "found"
    BY <1>4, <2>2, <1>answered DEF EndpointQuery
  <2>. QED
    BY <2>1, <2>2
<1>5. ASSUME NEW r \in Requests, NEW pooled \in BOOLEAN, NEW delivered \in BOOLEAN,
             StoreRoute(r, pooled, delivered)
      PROVE  LookupsHold'
  BY <1>5, <1>answered DEF StoreRoute, dispatchToAgent
<1>6. ASSUME NEW r \in Requests, QueryFails(r) PROVE LookupsHold'
  BY <1>6, <1>answered DEF QueryFails
<1>7. ASSUME UNCHANGED req PROVE LookupsHold'
  BY <1>7 DEF LookupsHold
<1>. QED
  BY <1>1, <1>2, <1>3, <1>4, <1>5, <1>6, <1>7
  DEF Next, RequestStep, OpStep, OpStart, handleBlockServiceTraffic,
      handleUnblockServiceTraffic, invalidateRouteCache, Tick, RowsChange, vars

\* Every step keeps a route that bypasses a block late, or about to be cleared.
LEMMA LateStep ==
  TypeOK /\ LookupsHold /\ BlockedRouteIsLate /\ [Next]_vars => BlockedRouteIsLate'
<1> SUFFICES ASSUME TypeOK, LookupsHold, BlockedRouteIsLate, [Next]_vars,
                    block' # "none", cache' # NoEntry
             PROVE  cache'.late \/ Clearing'
  BY DEF BlockedRouteIsLate
<1>old. block # "none" /\ cache # NoEntry => cache.late \/ Clearing
  BY DEF BlockedRouteIsLate
<1>typed. op \in [Ops -> {"idle", "block", "unblock", "clear"}]
  BY DEF TypeOK
<1>1. ASSUME UNCHANGED <<block, cache, op>> PROVE cache'.late \/ Clearing'
  BY <1>1, <1>old DEF Clearing
<1>2. ASSUME NEW r \in Requests, NEW pooled \in BOOLEAN, NEW delivered \in BOOLEAN,
             StoreRoute(r, pooled, delivered)
      PROVE  cache'.late \/ Clearing'
  BY <1>2 DEF StoreRoute, LookupsHold
<1>3. ASSUME NEW o \in Ops, OpStart(o) PROVE cache'.late \/ Clearing'
  BY <1>3, <1>old, <1>typed DEF OpStart, Clearing
<1>4. ASSUME NEW o \in Ops, NEW mode \in Modes, handleBlockServiceTraffic(o, mode)
      PROVE  cache'.late \/ Clearing'
  BY <1>4, <1>typed DEF handleBlockServiceTraffic, Clearing
<1>5. ASSUME NEW o \in Ops, handleUnblockServiceTraffic(o) PROVE cache'.late \/ Clearing'
  BY <1>5 DEF handleUnblockServiceTraffic
<1>6. ASSUME NEW o \in Ops, invalidateRouteCache(o) PROVE cache'.late \/ Clearing'
  BY <1>6 DEF invalidateRouteCache
<1>7. ASSUME Tick PROVE cache'.late \/ Clearing'
  BY <1>7, <1>old, EntryTyped DEF Tick, CacheEntry, Clearing
<1>. QED
  BY <1>1, <1>2, <1>3, <1>4, <1>5, <1>6, <1>7
  DEF Next, RequestStep, OpStep, CacheHit, sendProxyInfo, WorkspaceQuery, EndpointQuery,
      QueryFails, RowsChange, vars

\* A step that sends a request past a block leaves a late entry behind.
LEMMA TrafficStep ==
  TypeOK /\ LookupsHold /\ BlockedRouteIsLate /\ [Next]_vars
    => \A r \in Requests :
          /\ block # "none" /\ ~Clearing
          /\ req'[r] # req[r] /\ req'[r].outcome = "success"
          => cache'.late
<1> SUFFICES ASSUME TypeOK, LookupsHold, BlockedRouteIsLate, [Next]_vars, NEW q \in Requests,
                    block # "none", ~Clearing, req'[q] # req[q], req'[q].outcome = "success"
             PROVE  cache'.late
  OBVIOUS
<1>typed. req \in [Requests -> Request] /\ block \in Modes \cup {"none"}
  BY DEF TypeOK
<1>1. ASSUME NEW r \in Requests, NEW pooled \in BOOLEAN, NEW delivered \in BOOLEAN,
             CacheHit(r, pooled, delivered)
      PROVE  cache'.late
  BY <1>1 DEF CacheHit, BlockedRouteIsLate
<1>2. ASSUME NEW r \in Requests, NEW pooled \in BOOLEAN, NEW delivered \in BOOLEAN,
             StoreRoute(r, pooled, delivered)
      PROVE  cache'.late
  BY <1>2 DEF StoreRoute, LookupsHold
<1>answered. ASSUME NEW r \in Requests, NEW outcome, NEW t, outcome # "success", Answer(r, outcome, t)
             PROVE  FALSE
  BY <1>typed, <1>answered DEF Answer, Idle
<1>3. ASSUME NEW r \in Requests, sendProxyInfo(r) PROVE FALSE
  BY <1>3, <1>typed DEF sendProxyInfo, Idle
<1>4. ASSUME NEW r \in Requests, WorkspaceQuery(r) PROVE FALSE
  <2>1. CASE active
    BY <1>4, <2>1, <1>typed DEF WorkspaceQuery, Idle
  <2>2. CASE ~active
    BY <1>4, <2>2, <1>answered DEF WorkspaceQuery
  <2>. QED
    BY <2>1, <2>2
<1>5. ASSUME NEW r \in Requests, EndpointQuery(r) PROVE FALSE
  <2>1. CASE Verdict = "found"
    BY <1>5, <2>1, <1>typed DEF EndpointQuery
  <2>2. CASE Verdict # "found"
    <3>1. Verdict # "success"
      BY DEF Verdict
    <3>. QED
      BY <1>5, <2>2, <3>1, <1>answered DEF EndpointQuery
  <2>. QED
    BY <2>1, <2>2
<1>6. ASSUME NEW r \in Requests, QueryFails(r) PROVE FALSE
  BY <1>6, <1>answered DEF QueryFails
<1>. QED
  BY <1>1, <1>2, <1>3, <1>4, <1>5, <1>6
  DEF Next, RequestStep, OpStep, OpStart, handleBlockServiceTraffic,
      handleUnblockServiceTraffic, invalidateRouteCache, Tick, RowsChange, vars

\* Init satisfies all of it: nothing is cached or blocked yet.
LEMMA Starts == Init => TypeOK /\ LookupsHold /\ BlockedRouteIsLate
<1>1. Idle \in Request
  BY DEF Idle, Request
<1>. QED
  BY <1>1 DEF Init, TypeOK, LookupsHold, Idle, BlockedRouteIsLate

\* The rows, the cache and the suspended requests are always well typed; in particular an
\* entry that is in the cache leads to an agent and has time left to live.
THEOREM RoutingTypeCorrect == Spec => []TypeOK
BY Starts, TypeStep, LookupsStep, PTL DEF Spec

\* However blocks, unblocks and lookups interleave, once the operators have returned a
\* cached route bypasses a block only if its lookup read the row before the block.
THEOREM BlocksAreKept == Spec => []BlockedRouteIsLate
BY Starts, TypeStep, LookupsStep, LateStep, PTL DEF Spec

\* However blocks, unblocks and lookups interleave, no request but for the late ones is
\* routed past a block, of either mode, once the operators have returned.
THEOREM BlocksStopTraffic == Spec => BlockedTrafficIsLate
<1>1. TypeOK /\ LookupsHold /\ BlockedRouteIsLate /\ [Next]_vars
        => [\A r \in Requests :
              /\ block # "none" /\ ~Clearing
              /\ req'[r] # req[r] /\ req'[r].outcome = "success"
              => cache'.late]_vars
  BY TrafficStep
<1>. QED
  BY <1>1, Starts, TypeStep, LookupsStep, LateStep, PTL DEF Spec, BlockedTrafficIsLate

=============================================================================
