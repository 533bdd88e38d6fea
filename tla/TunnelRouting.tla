--------------------------- MODULE TunnelRouting ---------------------------
(***************************************************************************)
(* TunnelService: how the Hub answers the gateway's question "where does   *)
(* this host lead", with its 5 s route cache, against handlers that block  *)
(* and unblock the service's traffic.  The cache is keyed by host and      *)
(* cleared as a whole, so one host is enough.                              *)
(*                                                                         *)
(* A query is read by the database at one moment and its continuation runs *)
(* at a later one, and the same holds for the operator's write: the cache  *)
(* and the row can disagree in between.                                    *)
(***************************************************************************)
EXTENDS Naturals

CONSTANTS
    Requests,       \* sendProxyInfo invocations at the same time
    Ops,            \* block and unblock invocations at the same time
    Targets,        \* agents the host may lead to
    RouteTTL,       \* ROUTE_CACHE_TTL_MS, in ticks
    NoTarget

ASSUME NoTargetAssumption == NoTarget \notin Targets
ASSUME RouteTTLAssumption == RouteTTL \in Nat \ {0}

VARIABLES
    active,         \* workspaces: the subdomain exists and is active
    route,          \* service_endpoints: what the host leads to
    linked,         \* agents: linked and not deleted
    block,          \* services: service_traffic_blocked_at and _block_mode
    cache,          \* routeCache.get(routeKey)
    req,            \* the suspended and the answered requests
    op              \* the suspended operators

vars == <<active, route, linked, block, cache, req, op>>
rows == <<active, route, linked, block>>

Modes == {"notice", "hidden"}

Failures == {"workspace_not_found", "service_not_found", "service_blocked", "agent_not_found",
             "agent_offline", "db_error"}

\* left is the time the entry has to live, late a history bit: the row was blocked after
\* the lookup read it and before it stored the entry.
CacheEntry == [target: Targets, left: 1..RouteTTL, late: BOOLEAN]

NoEntry == [target |-> NoTarget, left |-> 0, late |-> FALSE]

Idle == [pc |-> "idle", target |-> NoTarget, outcome |-> "none", blocked |-> FALSE]

\* blocked is history too: what the endpoint query read.
Request == [pc: {"idle", "workspace", "endpoint", "found"}, target: Targets \cup {NoTarget},
            outcome: Failures \cup {"none", "success"}, blocked: BOOLEAN]

TypeOK ==
    /\ active \in BOOLEAN
    /\ route \in Targets \cup {NoTarget}
    /\ linked \in BOOLEAN
    /\ block \in Modes \cup {"none"}
    /\ cache \in CacheEntry \cup {NoEntry}
    /\ req \in [Requests -> Request]
    /\ op \in [Ops -> {"idle", "block", "unblock", "clear"}]

Init ==
    /\ active \in BOOLEAN
    /\ route \in Targets \cup {NoTarget}
    /\ linked \in BOOLEAN
    /\ block = "none"
    /\ cache = NoEntry
    /\ req = [r \in Requests |-> Idle]
    /\ op = [o \in Ops |-> "idle"]

-----------------------------------------------------------------------------
(* sendProxyInfo *)

Answer(r, outcome, t) ==
    req' = [req EXCEPT ![r] = [Idle EXCEPT !.target = t, !.outcome = outcome]]

\* dispatchToAgent: nothing is sent to an agent whose pool the gateway will use, and
\* otherwise delivered says whether sendToAgent found it.
dispatchToAgent(r, t, preferPooled, delivered) ==
    IF preferPooled \/ delivered THEN Answer(r, "success", t) ELSE Answer(r, "agent_offline", t)

\* Mutant: a hit renews the entry.
CacheHitRenews(r, preferPooled, delivered) ==
    /\ req[r].pc = "idle"
    /\ cache # NoEntry
    /\ dispatchToAgent(r, cache.target, preferPooled, delivered)
    /\ cache' = [cache EXCEPT !.left = RouteTTL]
    /\ UNCHANGED <<rows, op>>

\* A live entry answers without looking at the database.
CacheHit(r, preferPooled, delivered) ==
    /\ req[r].pc = "idle"
    /\ cache # NoEntry
    /\ dispatchToAgent(r, cache.target, preferPooled, delivered)
    /\ UNCHANGED <<rows, cache, op>>

sendProxyInfo(r) ==
    /\ req[r].pc = "idle"
    /\ cache = NoEntry
    /\ req' = [req EXCEPT ![r] = [Idle EXCEPT !.pc = "workspace"]]
    /\ UNCHANGED <<rows, cache, op>>

WorkspaceQuery(r) ==
    /\ req[r].pc = "workspace"
    /\ IF active
       THEN req' = [req EXCEPT ![r] = [Idle EXCEPT !.pc = "endpoint"]]
       ELSE Answer(r, "workspace_not_found", NoTarget)
    /\ UNCHANGED <<rows, cache, op>>

\* Mutant: a hidden block is overlooked.
VerdictWithoutHidden ==
    CASE route = NoTarget -> "service_not_found"
      [] route # NoTarget /\ block = "notice" -> "service_blocked"
      [] route # NoTarget /\ block # "notice" /\ ~linked -> "agent_not_found"
      [] OTHER -> "found"

\* What the one endpoint query says: a hidden block looks like a missing service, and a
\* block is told before the agent is looked at.
Verdict ==
    CASE route = NoTarget -> "service_not_found"
      [] route # NoTarget /\ block = "hidden" -> "service_not_found"
      [] route # NoTarget /\ block = "notice" -> "service_blocked"
      [] route # NoTarget /\ block = "none" /\ ~linked -> "agent_not_found"
      [] OTHER -> "found"

\* Only a successful lookup gets as far as the cache.
EndpointQuery(r) ==
    /\ req[r].pc = "endpoint"
    /\ IF Verdict = "found"
       THEN req' = [req EXCEPT ![r] = [pc |-> "found", target |-> route, outcome |-> "none",
                                       blocked |-> block # "none"]]
       ELSE Answer(r, Verdict, NoTarget)
    /\ UNCHANGED <<rows, cache, op>>

\* A query is refused: db_error, and nothing is cached.
QueryFails(r) ==
    /\ req[r].pc \in {"workspace", "endpoint"}
    /\ Answer(r, "db_error", NoTarget)
    /\ UNCHANGED <<rows, cache, op>>

\* The continuation: the route is cached whatever has happened to the row since.
StoreRoute(r, preferPooled, delivered) ==
    /\ req[r].pc = "found"
    /\ cache' = [target |-> req[r].target, left |-> RouteTTL,
                 late |-> block # "none" /\ ~req[r].blocked]
    /\ dispatchToAgent(r, req[r].target, preferPooled, delivered)
    /\ UNCHANGED <<rows, op>>

\* A tick of the clock; an entry that has expired is never looked at again.
Tick ==
    /\ cache # NoEntry
    /\ cache' = IF cache.left = 1 THEN NoEntry ELSE [cache EXCEPT !.left = @ - 1]
    /\ UNCHANGED <<rows, req, op>>

-----------------------------------------------------------------------------
(* Operators *)

\* handleBlockServiceTraffic and handleUnblockServiceTraffic, having found the service.
OpStart(o) ==
    /\ op[o] = "idle"
    /\ op' \in {[op EXCEPT ![o] = "block"], [op EXCEPT ![o] = "unblock"]}
    /\ UNCHANGED <<rows, cache, req>>

\* A block overwrites whatever block there is.
handleBlockServiceTraffic(o, mode) ==
    /\ op[o] = "block"
    /\ block' = mode
    /\ op' = [op EXCEPT ![o] = "clear"]
    /\ UNCHANGED <<active, route, linked, cache, req>>

handleUnblockServiceTraffic(o) ==
    /\ op[o] = "unblock"
    /\ block' = "none"
    /\ op' = [op EXCEPT ![o] = "clear"]
    /\ UNCHANGED <<active, route, linked, cache, req>>

\* Mutant: the handler returns without clearing the cache.
ReturnWithoutClear(o) ==
    /\ op[o] = "clear"
    /\ op' = [op EXCEPT ![o] = "idle"]
    /\ UNCHANGED <<rows, cache, req>>

invalidateRouteCache(o) ==
    /\ op[o] = "clear"
    /\ cache' = NoEntry
    /\ op' = [op EXCEPT ![o] = "idle"]
    /\ UNCHANGED <<rows, req>>

\* Other handlers commit a change of the rows.  None of them touches the cache.
RowsChange ==
    /\ \/ active' = ~active /\ UNCHANGED <<route, linked>>
       \/ route' \in Targets \cup {NoTarget} /\ UNCHANGED <<active, linked>>
       \/ linked' = ~linked /\ UNCHANGED <<active, route>>
    /\ UNCHANGED <<block, cache, req, op>>

-----------------------------------------------------------------------------
RequestStep(r) ==
    \/ WorkspaceQuery(r)
    \/ EndpointQuery(r)
    \/ QueryFails(r)
    \/ \E pooled, delivered \in BOOLEAN : StoreRoute(r, pooled, delivered)

OpStep(o) ==
    \/ \E mode \in Modes : handleBlockServiceTraffic(o, mode)
    \/ handleUnblockServiceTraffic(o)
    \/ invalidateRouteCache(o)

Next ==
    \/ \E r \in Requests :
          \/ \E pooled, delivered \in BOOLEAN : CacheHit(r, pooled, delivered)
          \/ sendProxyInfo(r)
          \/ RequestStep(r)
    \/ \E o \in Ops : OpStart(o) \/ OpStep(o)
    \/ Tick
    \/ RowsChange

\* The database answers and time passes.
Fairness ==
    /\ \A r \in Requests : WF_vars(RequestStep(r))
    /\ \A o \in Ops : WF_vars(OpStep(o))
    /\ WF_vars(Tick)

Spec == Init /\ [][Next]_vars

FairSpec == Spec /\ Fairness

-----------------------------------------------------------------------------
(* Properties *)

\* An operator has written the row and has yet to clear the cache.
Clearing == \E o \in Ops : op[o] = "clear"

\* Once the block's handler has returned no cached route bypasses it, whatever the order of
\* blocks, unblocks and lookups, but for a route whose lookup had read the row before the
\* block and stored it after.
BlockedRouteIsLate == block # "none" /\ cache # NoEntry => cache.late \/ Clearing

\* A request is told where to go past a block only by such a late lookup, its own or that
\* of the request that left the cache entry: notice and hidden blocks stop all others.
BlockedTrafficIsLate ==
    [][\A r \in Requests :
          /\ block # "none" /\ ~Clearing
          /\ req'[r] # req[r] /\ req'[r].outcome = "success"
          => cache'.late]_vars

\* A block that stays takes hold in the end: the routes that slipped in expire and no
\* request renews them.
BlockTakesHold == <>[](block # "none") => <>[](cache = NoEntry)

=============================================================================
