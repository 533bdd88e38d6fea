---------------------------- MODULE ServiceLife ----------------------------
(***************************************************************************)
(* ServiceService: the rows of a workspace's services and of their         *)
(* endpoints, and the handlers that deploy, redeploy, command, rename and  *)
(* delete them.  Every query and every command to the Agent is a step of   *)
(* its own, so two handlers of the same service, or of services that want  *)
(* the same subdomain, interleave at each of them.                         *)
(*                                                                         *)
(* A handler that is refused before it has changed anything is no step.    *)
(* Whether an Agent is linked, online and reached is a free choice: the    *)
(* agents' rows belong to AgentLink and ConnectRequest.                    *)
(***************************************************************************)
EXTENDS Naturals, Sequences

CONSTANTS
    Services,       \* rows that may come to exist (autoincrement)
    Names,          \* service_name
    Subs,           \* subdomains of endpoints
    Jobs,           \* handlers at the same time
    MaxEndpoints,   \* endpoints a request may ask for
    MaxHandlers,    \* bound: handlers that start in one behaviour
    NoService, NoName, NoSub

ASSUME ServiceConstants ==
    /\ NoService \notin Services /\ NoName \notin Names /\ NoSub \notin Subs
    /\ MaxEndpoints \in Nat \ {0}
    /\ MaxHandlers \in Nat

VARIABLES
    services,       \* the rows of services
    endpoints,      \* per service the endpoint_subdomain of its rows, by endpoint_index
    jobs,           \* the suspended handlers
    started,        \* how many handlers have started
    deployed,       \* services whose last order to an Agent was to deploy them
    overtaken,      \* history: handlers whose check or read another's write has overtaken
    raced,          \* history: subdomains written by a handler whose check was overtaken
    bare            \* history: services whose endpoints a handler failed to write

serviceVars == <<services, endpoints, jobs, started, deployed, overtaken, raced, bare>>
history == <<overtaken, raced, bare>>

\* service_status as far as any handler looks at it: 'removed', or one of the others.
Status == {"present", "removed"}

Row == [state: {"none", "live", "deleted"}, name: Names \cup {NoName}, status: Status,
        subdomain: Subs \cup {NoSub}]

NoRow == [state |-> "none", name |-> NoName, status |-> "present", subdomain |-> NoSub]

Subdomain == Subs \cup {NoSub}

EndpointLists == UNION {[1..n -> Subdomain] : n \in 1..MaxEndpoints}

Ops == {"create", "redeploy", "delete", "command", "subdomain", "endpoints"}

Pcs == {"insert", "check", "clear", "fill", "send", "fail", "stop", "plan", "name",
        "update", "write", "taken", "primary", "point", "mirror"}

Job == [op: Ops \cup {"none"}, pc: Pcs \cup {"idle"}, svc: Services \cup {NoService},
        name: Names \cup {NoName}, renames: BOOLEAN, list: EndpointLists \cup {<<>>},
        sub: Subdomain, prim: {"none", "some", "gone"}, scope: {"containers", "service"}]

NoJob == [op |-> "none", pc |-> "idle", svc |-> NoService, name |-> NoName,
          renames |-> FALSE, list |-> <<>>, sub |-> NoSub, prim |-> "none", scope |-> "containers"]

\* The subdomains a list makes public.
Public(list) == {list[i] : i \in DOMAIN list} \ {NoSub}

\* It makes none public twice.
Distinct(list) == \A i, k \in DOMAIN list : i # k /\ list[i] = list[k] => list[i] = NoSub

ServiceTypeOK ==
    /\ services \in [Services -> Row]
    /\ endpoints \in [Services -> Seq(Subdomain)]
    /\ jobs \in [Jobs -> Job]
    /\ started \in 0..MaxHandlers
    /\ deployed \in SUBSET Services
    /\ overtaken \in SUBSET Jobs
    /\ raced \in SUBSET Subs
    /\ bare \in SUBSET Services

\* Some services have been created and deployed, with different names and subdomains.
ServiceInit ==
    /\ deployed \in SUBSET Services
    /\ \E name \in [deployed -> Names], list \in [deployed -> {l \in EndpointLists : Distinct(l)}] :
          /\ \A s, t \in deployed : s # t => name[s] # name[t] /\ Public(list[s]) \cap Public(list[t]) = {}
          /\ services = [s \in Services |-> IF s \in deployed
                           THEN [NoRow EXCEPT !.state = "live", !.name = name[s]] ELSE NoRow]
          /\ endpoints = [s \in Services |-> IF s \in deployed THEN list[s] ELSE <<>>]
    /\ jobs = [j \in Jobs |-> NoJob]
    /\ started = 0
    /\ overtaken = {}
    /\ raced = {}
    /\ bare = {}

-----------------------------------------------------------------------------
(* Helpers *)

At(j, op, pc) == jobs[j].op = op /\ jobs[j].pc = pc

Start(j, job) ==
    /\ jobs[j] = NoJob
    /\ started < MaxHandlers
    /\ jobs' = [jobs EXCEPT ![j] = job]
    /\ started' = started + 1

Goto(j, pc) == jobs' = [jobs EXCEPT ![j].pc = pc]

\* The handler returns or throws; its history goes with it.
Finish(j) ==
    /\ jobs' = [jobs EXCEPT ![j] = NoJob]
    /\ overtaken' = overtaken \ {j}

Svc(j) == jobs[j].svc

Published(s) == Public(endpoints[s])

\* The first subdomain a list makes public, or else the given one.
FirstPublic(list, otherwise) ==
    LET public == {i \in DOMAIN list : list[i] # NoSub} IN
    IF public = {} THEN otherwise ELSE list[CHOOSE i \in public : \A k \in public : i <= k]

\* Mutant: deleted services are found too.
FindsDeleted(s) == services[s].state # "none"

\* findOwnedServiceAndAgent finds no deleted service.
Found(s) == services[s].state = "live"

\* START, STOP and the three container commands are refused for a removed service.
Commandable(s) == Found(s) /\ services[s].status # "removed"

\* The name belongs to another service that is neither deleted nor removed.
NameTaken(n, s) ==
    \E t \in Services \ {s} : Found(t) /\ services[t].status # "removed" /\ services[t].name = n

\* An endpoint of another service, deleted or not, has one of these subdomains.
SubdomainTaken(subs, s) == \E t \in Services \ {s} : Published(t) \cap subs # {}

\* Handlers other than j that are past the check of a subdomain and have yet to write it.
Checked(j) == {i \in Jobs \ {j} : jobs[i].pc \in {"clear", "fill", "primary", "point"}}

\* History: j writes these subdomains.  Whoever has checked them already did so too early.
Publishes(j, subs) ==
    /\ raced' = IF j \in overtaken THEN raced \cup subs ELSE raced
    /\ overtaken' = overtaken \cup Checked(j)

-----------------------------------------------------------------------------
(* replaceServiceEndpoints *)

\* The list asked for, or one endpoint per port mapping of which the first keeps the
\* subdomain the service has.  Only a subdomain that is left out is NoSub: String turns an
\* explicit null into a name like any other.
normalizeEndpoints(list, ports, existing) ==
    IF list # <<>> THEN list ELSE [i \in 1..ports |-> IF i = 1 THEN existing ELSE NoSub]

\* Mutant: the old endpoints are deleted before the new ones are looked at.
ClearBeforeCheck(j) ==
    LET list == jobs[j].list IN
    /\ jobs[j].pc = "check"
    /\ IF SubdomainTaken(Public(list), Svc(j))
       THEN Finish(j) /\ endpoints' = [endpoints EXCEPT ![Svc(j)] = <<>>]
       ELSE Goto(j, "clear") /\ UNCHANGED <<overtaken, endpoints>>
    /\ UNCHANGED <<started, services, deployed, raced, bare>>

\* A conflict ends the handler: a service that is just being created is left without
\* endpoints, every other one keeps those it has.
CheckEndpoints(j) ==
    LET list == jobs[j].list IN
    /\ jobs[j].pc = "check"
    /\ IF ~Distinct(list) \/ SubdomainTaken(Public(list), Svc(j))
       THEN /\ Finish(j)
            /\ bare' = IF endpoints[Svc(j)] = <<>> THEN bare \cup {Svc(j)} ELSE bare
       ELSE Goto(j, "clear") /\ UNCHANGED <<overtaken, bare>>
    /\ UNCHANGED <<started, services, endpoints, deployed, raced>>

\* deleteMany: an endpoint another handler has picked is gone.
ClearEndpoints(j) ==
    /\ jobs[j].pc = "clear"
    /\ endpoints' = [endpoints EXCEPT ![Svc(j)] = <<>>]
    /\ jobs' = [i \in Jobs |->
                  IF i = j THEN [jobs[i] EXCEPT !.pc = "fill"]
                  ELSE IF Svc(i) = Svc(j) /\ jobs[i].prim = "some" THEN [jobs[i] EXCEPT !.prim = "gone"]
                  ELSE jobs[i]]
    /\ UNCHANGED <<started, services, deployed, history>>

\* createMany adds to whatever is there by now.
FillEndpoints(j) ==
    /\ jobs[j].pc = "fill"
    /\ endpoints' = [endpoints EXCEPT ![Svc(j)] = @ \o jobs[j].list]
    /\ Publishes(j, Public(jobs[j].list))
    /\ bare' = bare \ {Svc(j)}
    /\ jobs' = [jobs EXCEPT ![j] = [NoJob EXCEPT
                  !.op = jobs[j].op, !.svc = Svc(j),
                  !.pc = IF jobs[j].op = "endpoints" THEN "mirror" ELSE "send",
                  !.sub = IF jobs[j].op = "endpoints" THEN FirstPublic(jobs[j].list, NoSub) ELSE NoSub]]
    /\ UNCHANGED <<started, services, deployed>>

-----------------------------------------------------------------------------
(* handleCreateService *)

handleCreateService(j, n, list) ==
    /\ ~NameTaken(n, NoService)
    /\ Start(j, [NoJob EXCEPT !.op = "create", !.pc = "insert", !.name = n, !.list = list])
    /\ UNCHANGED <<services, endpoints, deployed, history>>

\* The row, and the upsert of the default component, which no other handler here looks at.
CreateRow(j, s) ==
    /\ At(j, "create", "insert")
    /\ services[s] = NoRow
    /\ services' = [services EXCEPT ![s] = [NoRow EXCEPT !.state = "live", !.name = jobs[j].name]]
    /\ jobs' = [jobs EXCEPT ![j] = [@ EXCEPT !.svc = s, !.name = NoName, !.pc = "check"]]
    /\ UNCHANGED <<started, endpoints, deployed, history>>

\* DEPLOY or REDEPLOY reaches the Agent.
SendDeploy(j) ==
    /\ jobs[j].pc = "send"
    /\ deployed' = deployed \cup {Svc(j)}
    /\ Finish(j)
    /\ UNCHANGED <<started, services, endpoints, raced, bare>>

\* The Agent cannot be reached.
SendFails(j) ==
    /\ jobs[j].pc = "send"
    /\ Goto(j, "fail")
    /\ UNCHANGED <<started, services, endpoints, deployed, history>>

\* 'failed' replaces whatever the status is, 'removed' too.
MarkFailed(j) ==
    /\ jobs[j].pc = "fail"
    /\ services' = [services EXCEPT ![Svc(j)].status = "present"]
    /\ Finish(j)
    /\ UNCHANGED <<started, endpoints, deployed, raced, bare>>

-----------------------------------------------------------------------------
(* handleRedeployService *)

\* A name that is left out is the one just read.  The endpoints may be left out too; moves
\* says that the target is another Agent than the one the service is on, which is online.
handleRedeployService(j, s, n, list, moves) ==
    /\ Found(s)
    /\ Start(j, [NoJob EXCEPT !.op = "redeploy", !.pc = IF moves THEN "stop" ELSE "plan", !.svc = s,
                              !.name = n, !.renames = (n # services[s].name), !.list = list,
                              !.sub = services[s].subdomain])
    /\ UNCHANGED <<services, endpoints, deployed, history>>

\* handleStopService on the old Agent reads the service again, and what it throws ends
\* the redeployment.
RedeployStops(j, sent) ==
    /\ At(j, "redeploy", "stop")
    /\ IF ~Commandable(Svc(j)) THEN Finish(j)
       ELSE Goto(j, IF sent THEN "plan" ELSE "fail") /\ UNCHANGED overtaken
    /\ UNCHANGED <<started, services, endpoints, deployed, raced, bare>>

\* The existing subdomain is the first public one, or else the one in the service's row.
RedeployPlan(j, ports) ==
    /\ At(j, "redeploy", "plan")
    /\ jobs' = [jobs EXCEPT ![j] =
                  [@ EXCEPT !.list = normalizeEndpoints(jobs[j].list, ports,
                                         FirstPublic(endpoints[Svc(j)], jobs[j].sub)),
                            !.sub = NoSub,
                            !.pc = IF jobs[j].renames THEN "name" ELSE "update"]]
    /\ UNCHANGED <<started, services, endpoints, deployed, history>>

RedeployName(j) ==
    /\ At(j, "redeploy", "name")
    /\ IF NameTaken(jobs[j].name, Svc(j)) THEN Finish(j) ELSE Goto(j, "update") /\ UNCHANGED overtaken
    /\ UNCHANGED <<started, services, endpoints, deployed, raced, bare>>

\* The name is written even if it is only the one read at the start; status and deleted_at
\* stay as they are.  The default component follows as above.
RedeployUpdate(j) ==
    /\ At(j, "redeploy", "update")
    /\ services' = [services EXCEPT ![Svc(j)].name = jobs[j].name]
    /\ jobs' = [jobs EXCEPT ![j] = [@ EXCEPT !.pc = "check", !.name = NoName, !.renames = FALSE]]
    /\ UNCHANGED <<started, endpoints, deployed, history>>

-----------------------------------------------------------------------------
(* Commands, deletion *)

\* One that is delivered changes nothing.
CommandFails(j, s) ==
    /\ Commandable(s)
    /\ Start(j, [NoJob EXCEPT !.op = "command", !.pc = "fail", !.svc = s])
    /\ UNCHANGED <<services, endpoints, deployed, history>>

\* DELETE is sent before the row is written; an Agent that cannot be reached ends the handler.
handleDeleteService(j, s, scope) ==
    /\ Found(s)
    /\ deployed' = deployed \ {s}
    /\ Start(j, [NoJob EXCEPT !.op = "delete", !.pc = "write", !.svc = s, !.scope = scope])
    /\ UNCHANGED <<services, endpoints, history>>

\* Deleting only the containers stores deleted_at = null, whatever it holds.
DeleteWrite(j) ==
    /\ At(j, "delete", "write")
    /\ services' = [services EXCEPT ![Svc(j)] =
                      [@ EXCEPT !.status = "removed",
                                !.state = IF jobs[j].scope = "service" THEN "deleted" ELSE "live"]]
    /\ jobs' = [jobs EXCEPT ![j] = NoJob]
    /\ overtaken' = (overtaken \cup {i \in Jobs : Svc(i) = Svc(j)}) \ {j}
    /\ UNCHANGED <<started, endpoints, deployed, raced, bare>>

-----------------------------------------------------------------------------
(* handleUpdateServiceSubdomain, handleUpdateServiceEndpoints *)

handleUpdateServiceSubdomain(j, s, x) ==
    /\ Found(s)
    /\ Start(j, [NoJob EXCEPT !.op = "subdomain", !.pc = "taken", !.svc = s, !.sub = x])
    /\ UNCHANGED <<services, endpoints, deployed, history>>

\* Mutant: only the service's own endpoints are looked at.
SubdomainUnchecked(j) ==
    /\ At(j, "subdomain", "taken")
    /\ Goto(j, "primary")
    /\ UNCHANGED <<started, services, endpoints, deployed, history>>

SubdomainCheck(j) ==
    /\ At(j, "subdomain", "taken")
    /\ IF SubdomainTaken({jobs[j].sub} \ {NoSub}, Svc(j)) THEN Finish(j)
       ELSE Goto(j, "primary") /\ UNCHANGED overtaken
    /\ UNCHANGED <<started, services, endpoints, deployed, raced, bare>>

FindPrimary(j) ==
    /\ At(j, "subdomain", "primary")
    /\ jobs' = [jobs EXCEPT ![j] = [@ EXCEPT !.pc = "point",
                                             !.prim = IF endpoints[Svc(j)] = <<>> THEN "none" ELSE "some"]]
    /\ UNCHANGED <<started, services, endpoints, deployed, history>>

\* The primary endpoint is changed, or one is made for a subdomain that is not null.
PointPrimary(j) ==
    LET s == Svc(j)
        x == jobs[j].sub
    IN
    /\ At(j, "subdomain", "point")
    /\ jobs[j].prim # "gone"
    /\ endpoints' = [endpoints EXCEPT ![s] = IF jobs[j].prim = "some" THEN [@ EXCEPT ![1] = x]
                                             ELSE IF x = NoSub THEN @ ELSE Append(@, x)]
    /\ Publishes(j, {x} \ {NoSub})
    /\ bare' = IF endpoints'[s] = <<>> THEN bare ELSE bare \ {s}
    /\ jobs' = [jobs EXCEPT ![j] = [@ EXCEPT !.pc = "mirror", !.prim = "none"]]
    /\ UNCHANGED <<started, services, deployed>>

\* The endpoint was deleted meanwhile: the update throws.
PrimaryGone(j) ==
    /\ At(j, "subdomain", "point")
    /\ jobs[j].prim = "gone"
    /\ Finish(j)
    /\ UNCHANGED <<started, services, endpoints, deployed, raced, bare>>

handleUpdateServiceEndpoints(j, s, list, ports) ==
    /\ Found(s)
    /\ Start(j, [NoJob EXCEPT !.op = "endpoints", !.pc = "check", !.svc = s,
                              !.list = normalizeEndpoints(list, ports, services[s].subdomain)])
    /\ UNCHANGED <<services, endpoints, deployed, history>>

\* The service's own column follows: the new subdomain, or the first public one of the list.
MirrorSubdomain(j) ==
    /\ jobs[j].pc = "mirror"
    /\ services' = [services EXCEPT ![Svc(j)].subdomain = jobs[j].sub]
    /\ Finish(j)
    /\ UNCHANGED <<started, endpoints, deployed, raced, bare>>

-----------------------------------------------------------------------------
(* The Agent and failures *)

\* updateServiceStatus, on the Agent's report (its handler is in AgentLink).  That the service
\* is not deleted was looked up before, and workspaceIndexCache remembers it for a while.
StatusReport(s, status) ==
    /\ services[s].state # "none"
    /\ services' = [services EXCEPT ![s].status = status]
    /\ UNCHANGED <<started, endpoints, jobs, deployed, history>>

\* A query fails or the Hub stops: the handler ends where it stands.
StepFails(j) ==
    /\ jobs[j] # NoJob
    /\ Finish(j)
    /\ bare' = IF Svc(j) # NoService /\ endpoints[Svc(j)] = <<>> THEN bare \cup {Svc(j)} ELSE bare
    /\ UNCHANGED <<started, services, endpoints, deployed, raced>>

ServiceNext ==
    \/ \E j \in Jobs :
          \/ \E n \in Names, list \in EndpointLists : handleCreateService(j, n, list)
          \/ \E s \in Services :
                \/ CreateRow(j, s) \/ CommandFails(j, s)
                \/ \E scope \in {"containers", "service"} : handleDeleteService(j, s, scope)
                \/ \E x \in Subdomain : handleUpdateServiceSubdomain(j, s, x)
                \/ \E list \in EndpointLists \cup {<<>>} :
                      \/ \E ports \in 1..MaxEndpoints : handleUpdateServiceEndpoints(j, s, list, ports)
                      \/ \E n \in Names, moves \in BOOLEAN :
                            handleRedeployService(j, s, n, list, moves)
          \/ CheckEndpoints(j) \/ ClearEndpoints(j) \/ FillEndpoints(j)
          \/ SendDeploy(j) \/ SendFails(j) \/ MarkFailed(j)
          \/ (\E sent \in BOOLEAN : RedeployStops(j, sent))
          \/ (\E ports \in 1..MaxEndpoints : RedeployPlan(j, ports))
          \/ RedeployName(j) \/ RedeployUpdate(j) \/ DeleteWrite(j)
          \/ SubdomainCheck(j) \/ FindPrimary(j) \/ PointPrimary(j) \/ PrimaryGone(j)
          \/ MirrorSubdomain(j) \/ StepFails(j)
    \/ \E s \in Services, status \in Status : StatusReport(s, status)

ServiceSpec == ServiceInit /\ [][ServiceNext]_serviceVars

-----------------------------------------------------------------------------
(* Properties *)

\* Two services publish the same subdomain only if a handler wrote it after another had
\* overtaken its check: the unique index does not refuse it, since it spans the column
\* endpoint_deleted_at, which is NULL.
SubdomainSharedByRace ==
    \A s, t \in Services : s # t => Published(s) \cap Published(t) \subseteq raced

\* A service is without endpoints only while a handler is about to write them, or because
\* one failed on the way: a refused redeployment or change of endpoints keeps the old ones.
EndpointsAreKept ==
    \A s \in Services : services[s].state # "none" /\ endpoints[s] = <<>> =>
        \/ s \in bare
        \/ \E j \in Jobs : Svc(j) = s /\ (jobs[j].op = "create" \/ jobs[j].pc = "fill")

\* Once a service is deleted nothing brings it back, renames it, changes its endpoints or
\* orders an Agent to deploy it, except handlers that had read it before.  (Its status may
\* still follow the Agent's reports.)
DeletionIsFinal ==
    [][\A s \in Services : services[s].state = "deleted" =>
          \/ UNCHANGED <<services[s].state, services[s].name, services[s].subdomain,
                         endpoints[s], s \in deployed>>
          \/ \E j \in overtaken : Svc(j) = s /\ jobs'[j] # jobs[j]]_serviceVars

=============================================================================
