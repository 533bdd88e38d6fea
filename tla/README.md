# OPTiCS-Hub: TLA+ verification project

OPTiCS-Hub is the control plane of a deployment platform. Agents run on the
users' hosts and keep a Socket.IO connection to the Hub; the Hub tells them what
to deploy, shows their state on a web console, and routes public HTTP traffic to
them through a reverse tunnel. The repository builds two processes: the **Hub**
(NestJS, MySQL through Prisma) and the **gateway** (plain Node, `tunnel/` and
`proxy/`), which asks the Hub over HTTP where a request should go.

Everything here is single-threaded JavaScript, and almost nothing is sequential:
every handler awaits the database, another process or a timer, and any other
handler may run at every await. What the modules model is that interleaving.
Paths below are relative to the repository root.

## 1. Inventory

| Component | State | Operations | Hard because | Correct when |
| --- | --- | --- | --- | --- |
| Agent connection registry, `src/agent/agent.gateway.ts` | `agentUuidToSocketId`, `offlineTimers`, `client.data` of each socket | `handleValidation` (register), `handleDisconnect`, `disconnectAgent`, `sendToAgent`, `scheduleOffline`, relays | register awaits the database four times; old and new sockets of one agent overlap; disconnect events are late | the registry follows the newest registered socket; an agent that is gone stops being online |
| Agent rows, `src/agent/agent.service.ts` | `agents.agent_status`, `services.service_status`, signing secrets | `registerAgent`, `markAgentOffline`, `updateServiceStatus`, `onModuleInit` | writes decided before and applied after a reconnect; failed writes are retried once; a secret is issued once and told once | status says what the registry says; services follow; the Agent has the secret its row has |
| Agent remote update, `src/agent/agent-update.service.ts` | `agent_update_phase`, `agent_update_target`, `timers` | request, progress, failure, expected restart, reconnect, acknowledge, timeout | seven handlers read and write one phase column around a 10 minute in-memory timer; the Hub may restart | an update in flight always has somebody who will end it |
| Public proxy, `proxy/server.ts` | one client socket, its token, what was written to it | `onData`, `onClose` | two HTTP questions to the Hub, a race between pool, token, timer and the client leaving | each request gets a tunnel of its own or one error page |
| Control server and token registry, `tunnel/server.ts`, `tunnel/registry.ts` | `localClientSocket` with a 10 s timer per token | `register`, `claim`, `release`, dialling in | the Agent may dial before, during, after the timeout, or never | tokens expire; one token joins one pair |
| Preconnect pool, `tunnel/preconnect.ts` | `pools`: agent to `Set` of idle sockets | `handlePreconnect`, `claimPreconnected`, close handlers | verification is an HTTP call during which the socket may die; close handlers outlive their `Set` | bounded, reachable, never handing a socket out twice |
| Hub routing, `src/tunnel/tunnel.service.ts` | `routeCache` (5 s), `signingSecretCache` (60 s), `replayGuard` | `sendProxyInfo`, `dispatchToAgent`, `verifyPreconnect`, `invalidateRouteCache` | cache entries are stored after the row may have changed | a blocked service gets no traffic; an Agent with the right secret is accepted |
| Services, `src/services/service.service.ts` | `services`, `service_endpoints`, traffic blocks | deploy, redeploy, start, stop, delete, subdomain, endpoints, block, unblock | several queries and a command to the Agent per handler, no transaction; uniqueness is checked and written in different queries | subdomains are not shared, endpoints are not lost, a deleted service stays deleted |
| Workspaces and DNS, `src/workspaces/workspace.service.ts`, `src/utility/cloudflare.util.ts` | `workspaces` rows, records at Cloudflare | create, toggle, rename, delete | check-then-act on a global limit and on uniqueness; a remote record per row | active subdomains are unique, limited, and have exactly one record |
| Connect requests, `workspace.service.ts` and `agent.service.ts` | `agent_connection`, `agent_parent_workspace` | request, cancel, accept, reject, disconnect | five handlers, three of which write whatever the row holds by then | a workspace loses its agent only by its own doing or the Agent's; a standing request was sent |
| Console gateway, `src/agent/console.gateway.ts` | `terminalSessions`, `metricRequests`, `consumedTerminalTokens` | terminal open, input, close, metrics request, broadcast | a session ties two sockets that end independently; opening one awaits the database | a session has both its ends; nothing is left behind |
| Authentication, `src/auth/` | `refresh_token`, `verification`, `user_permission`, cookies | login, refresh, logout, verification codes | one browser refreshes several times at once with one token; answers are lost or late; a cooldown is checked, then written, then the mail is sent | who is logged in stays so; who is told to wait has a code that works |
| Two-factor authentication, `src/auth/2fa.service.ts` | `user_totp_secret`, `user_totp_active`, `last_used_totp_step` | set up, confirm, use, remove | read, verify, write: overlapping calls write over each other | a code is accepted once; 2FA is on only with a confirmed secret |
| Signatures, `src/global/hash.util.ts` | `ReplayGuard` nonces per socket | `sign`, `verify` | the window is measured on two clocks, the nonces are forgotten by a third measure | a packet is handled once |
| Release catalog, `src/releases/` | `agent_releases`, `syncing` | synchronise, block, unblock, what can be installed | one request per page and per release, each of which may fail while GitHub changes | what can be installed is withdrawn only for a reason |
| Traffic, `src/traffic/` | `traffic_daily`, `syncing` | hourly run, first back-fill, pruning | days fail one by one, midnight passes during a run | no gaps, no unfinished days |
| Mailer, HTTP plumbing, error pages | none | | | the outcome of a mail is in `MailVerification`; the rest is pure I/O or constant tables |

How they interact. The gateway calls the Hub (`/v1/tunnel/connect`,
`/v1/tunnel/preconnect`). The Hub answers from `sendProxyInfo` and, when the
gateway has no pooled socket, sends `tunnel-connect` to the Agent through
`sendToAgent`; the Agent then dials the control server with the token. The agent
gateway, the agent service and the update service call each other directly and
share the `agents` row. `handleBlockServiceTraffic` writes the `services` row and
clears the routing cache in memory.

## 2. Modules

| Module | Models | TLC |
| --- | --- | --- |
| `AgentLink` | connection registry, agent row, service status, update state machine, for one agent | `MCAgentLink`, four configurations |
| `AgentLinkProofs` | theorems about `AgentLink` | |
| `TunnelGateway` | the gateway process, for one agent | `TunnelGateway.cfg` |
| `TunnelPairing` | what the gateway promises: a client gets one connection, or one page | instantiated by `TunnelGateway` |
| `TunnelGatewayProofs` | theorems about `TunnelGateway`, the refinement included | |
| `TunnelRouting` | `sendProxyInfo`, its cache, blocks and unblocks, for one host | `MCTunnelRouting` |
| `TunnelRoutingProofs` | theorems about `TunnelRouting` | |
| `ConnectRequest` | request, cancel, accept, reject, disconnect, for one agent | `MCConnectRequest` |
| `AgentOwnership` | what those handlers promise: one asker or one owner at a time | instantiated by `ConnectRequest` |
| `ConnectRequestProofs` | theorems about `ConnectRequest`, the refinement included | |
| `WorkspaceSubdomain` | create, toggle, rename, remove, delete, and the zone at Cloudflare | `MCWorkspaceSubdomain` |
| `WorkspaceSubdomainProofs` | theorems about `WorkspaceSubdomain` | |
| `ServiceLife` | deploy, redeploy, command, delete, subdomain and endpoints of a workspace's services | `MCServiceLife` |
| `ServiceLifeProofs` | theorems about `ServiceLife` | |
| `AuthSession` | refresh tokens and the cookies of a user's browsers | `MCCredentials` |
| `MailVerification` | the verification codes of one address | `MCCredentials` |
| `TwoFactor` | the TOTP secret and last used step of one user | `MCCredentials` |
| `ConsoleTerminal` | terminal sessions, metric requests and one-time terminal tokens | `MCCredentials` |
| `PacketGuard` | the time window and the nonces of one `ReplayGuard` | `MCCredentials` |
| `AgentSecret` | how one Agent comes by its signing secret | `MCCredentials` |
| `PreconnectVerdict` | `verifyPreconnect` and its secret cache, for one Agent | `MCCredentials` |
| `CredentialProofs` | theorems about the seven modules of `MCCredentials` | |
| `ReleaseCatalog` | `agent_releases` against GitHub | `MCMirrors`, two configurations |
| `TrafficSync` | `traffic_daily` against Cloudflare | `MCMirrors` |
| `MirrorProofs` | theorems about `ReleaseCatalog` and `TrafficSync` | |

**AgentLink.** A running handler is a *job* with a program counter, the await it
is suspended at; one action runs it to the next await. All in-memory work between
two awaits is one atomic action, and a database read and the write that depends on
it are always different actions. `link` is `agentUuidToSocketId.get(uuid)`, `data`
is how far `client.data` has been filled, `offlineTimer` and `updateTimer` are the
presence of the two timers, and `status`, `phase`, `service` are columns. Versions are
data: whether the one an Agent reports is the target is a free choice.
`Drop` and the register refusals contain the whole synchronous part of
`handleDisconnect`. Three variables are history only: `ghost` (the
linked socket had closed before its registration attached it), `orphan` (a gone agent may
still read online, because `disconnectAgent` removed it or the database refused what was
to turn it offline) and `adrift` (the phase was written by a handler whose read no longer
held, or a query of the handler that was to end the update, or to arm its timer, was
refused). No action's guard reads them. `HubRestart` loses all memory and runs both
`onModuleInit` hooks.

A refused query ends its handler where it stands and undoes nothing (`HandlerThrows`;
`Refusable` lists the awaits). For Agent events and user requests Nest catches the
exception. In a timer callback and in `handleDisconnect` nobody does, but the process goes
on: `src/instrument.ts` installs Sentry, whose default `unhandledRejection` handler only
reports. (Without it the process would end there, which is a `HubRestart` and is modelled,
too.) `transition` writes the phase and then reads the row once more for the console, so a
refusal can also come after the phase was written: a request is then at `emit`, its row in
flight, its timer not armed. Only `markAgentOffline`, its retry and `updateServiceStatus`
catch a refused write themselves. Agents are independent
(all maps and rows are keyed by UUID), so one is modelled. Creating a new agent row
is the same handler on a row nobody else can see yet (`AgentSecret` has it).

**TunnelGateway.** A client is one public connection with its token; a conn is one
TCP connection from the Agent. `wire` separates a socket that is dying (destroyed
or ended, so not claimable) from one whose `close` event has run, since close
handlers run later. `members` is keyed by the identity of the `Set` object, because
close handlers hold on to the `Set` they were created with (`home`) even after the
map has another one. `resp` is what the client has received: nothing, a page, the
Agent's bytes, an empty response, or a page after bytes (`mixed`). `told` follows the
`tunnel-connect` command. `doomed` is history. The Hub's verdicts are free choices;
`PreconnectVerdict` and `TunnelRouting` say how they come about.

**TunnelPairing** has no token, `Set`, timer or question to the Hub, only which
connections wait for a client, which client was given which, and what each client has
read. A connection is offered while there is room, lost, claimed by a client that has read
nothing, or dialled for one client; a client reads the Agent's bytes, a page, the end of
its answer, or leaves. `TunnelGateway` instantiates it: `Stage` reads off a connection
whether it is fresh, idle, given or gone, `peer` says whom it was given to and `resp` what
the client has read. That every run of the gateway is one of it is
`PairingIsImplemented`, checked and proved.

**TunnelRouting.** The database answers a query at one moment (`WorkspaceQuery`,
`EndpointQuery`) and the continuation runs at a later one (`StoreRoute`); an operator
writes the row first and clears the cache after. Time is in ticks of the entry's
life. `RowsChange` stands for every other handler that changes the rows a lookup
reads; none of them touches the cache. A refused query ends the lookup with `db_error`
(`QueryFails`) and stores nothing. `late` and `blocked` are history.

**ConnectRequest.** The state is the two columns of one agent's row and the suspended
handlers. `request`, `cancel` and `disconnect` read the row and later write it
whatever it holds; the Agent's answers repeat the condition `requested` in the update
itself, so theirs may throw (`AnswerTooLate`). The roll-back of a request whose prompt
could not be sent is a write of its own, and the database may refuse it: a handler that
fails leaves the row as it was (`HandlerThrows`). Deleting a workspace changes no agent row, and
disconnect insists on a workspace that is not deleted. History: `told` and `lost` follow
the prompt of the request that stands (`lost`: the Hub stopped, or a query was refused,
before it was sent or taken back), `racers` are the handlers that had read the row
before a request or an acceptance was last written to it.

**AgentOwnership** has two variables, who asks for the agent and who has it, and three
steps: somebody asks, the Agent accepts the request that stands, everybody is out.
`ConnectRequest` instantiates it with `HolderWhile`: the workspace the row names while
the row is `requested`, or `linked`. That every interleaving of the handlers is a
behaviour of it is `OwnershipIsImplemented`, checked and proved.

**WorkspaceSubdomain.** Each count, uniqueness query, call to Cloudflare and write is an
action. Cloudflare itself is outside the repository: `zone` maps record ids to
subdomains, and a call takes effect and is answered, is refused, or takes effect and its
answer is lost, which the code sees as a failure. A write may fail, which also stands
for a stop of the Hub at that point. The number of a new workspace is fixed when its
creation starts although the database assigns it at the insert; until then no other
handler can name it. History: `contested` (two handlers had passed the check for one
subdomain), `muddled` (two handlers of one workspace overlapped, or an answer or a write
about it was lost), `dropped` (ids the code could not keep) and `maker`.

**ServiceLife.** `services` and `endpoints` are the two tables; of a status only
`removed` matters to any handler. Every query and every command is a step, each may fail
(`StepFails`, `SendFails`), and what was written before stays. `normalizeEndpoints` is
modelled by what it does to the list of subdomains, the single-endpoint default
included. One oddity of it is kept out of the lists: an endpoint whose subdomain is an
explicit `null` comes out as the name "null" (`String(null)`), a name like any other.
Whether an Agent is online and reached is a free choice here. `deployed` follows the
commands. History: `overtaken` are the handlers whose check or read another's write has
overtaken, `raced` the subdomains such a handler has written, `bare` the services whose
endpoints a handler cleared and then failed to write. `started` bounds how many handlers
a behaviour starts.

**AuthSession.** A request carries the cookie of the moment it is sent, waits at each
query, and its answer sets or clears the cookie when it arrives, in any order, or is
lost. A token that was rotated stays good for the grace period (`FindRecent`).
`TokenRefreshFilter` is the refusal that clears the cookies. History: `revoked` and
`late`.

**MailVerification.** Checking the cooldown, choosing a code that can be used again,
writing its row and sending the mail are steps; so are looking a code up and the
transaction that consumes it. Ages are counted in ticks and saturate.

**TwoFactor.** A code is a secret and a time step, which is all otplib's verdict depends
on. The guard, the login and the removal share `verifyActiveUserTotp`. History:
`accepted`, the codes some call has stored the step of; `repeated`, those that passed a
check again afterwards; `reopened`, those whose step a later store has put the row below,
by a call that had read the row before another wrote it. Two calls that both read the row
before either stores accept one code together; that is no later check and is not
forbidden. `crossed`
when a set-up or a removal wrote the row while a confirmation was on its way.

**ConsoleTerminal.** The maps of `ConsoleGateway`, a console's and an Agent's going away
at any time, and the handlers that await the database in between. Bytes, logs and
broadcasts are passed on and change nothing. History: `unattended` and `severed`, the
sessions that nobody closes any more.

**PacketGuard.** A packet is its nonce; it arrives late, out of order and more than once.
Each Agent's clock is `ahead` of the Hub's by a constant of its own. A registered socket
has a guard and one Agent; `TunnelService` has one guard for all Agents. `Prune` is `ReplayGuard.prune`
with the packet's own time for the present, as in the code.

**AgentSecret.** The register handlers of an Agent's successive connections, the rows
they find or make, and what the Agent has stored. A handler goes on when its connection
is gone, and its answer reaches nobody (`unheard`); the same holds of one that fails
between the write of the row and the answer (`RegisterFails`).

**PreconnectVerdict.** The row of one Agent, its entry in `signingSecretCache` and the
calls of `verifyPreconnect` in flight. The query is answered at one moment and its answer
stored at a later one; a signature that does not match a cached secret is held against a
fresh one, a cached null is believed. Who signs, and with what, is a free choice, and the
row is given new secrets at any time (`IssueSecret`), as `AgentSecret` allows. History:
`held`, `late`, `made` and `since`.

**ReleaseCatalog.** A release is its version, a number in semver order; publication goes
in another order, since old lines get fixes, and no two at the same moment (the code
withdraws with `gte`, so of two at the end of a full page one would be withdrawn). `says`
is what the last `release.json` that was read says against the release: blocked, or a
protocol the Hub does not speak. A release may be deleted, may lose the asset, and its
`release.json` may be edited or taken back at any time; it goes on naming its own version. The synchronisation reads a page, then each
`release.json`, writes each row and marks what it did not see; GitHub changes in between
and every request may fail. When a synchronisation is due is a free choice.

**TrafficSync.** Days are numbers, the clock moves in parts of a day and moves on during a
run. A row is overwritten by what the last answer said, so only its presence is kept.

The parts of `MCCredentials` and of `MCMirrors` share no state. Each behaviour follows
one of them: the constant variable `part` says which, the others stay as they began. So
the state graph is the sum of the parts' graphs and not their product, and one run asks
each part its own question.

Mutants (definitions whose comment starts with "Mutant:") are plausible bugs of the
definition below them; each shows that one property fails when the code is wrong in
that way. No specification uses them.

## 3. What is checked

| Run | Bounds | Result |
| --- | --- | --- |
| `agent_link_safety` | 2 sockets, 2 jobs, a service | `TypeOK`, `InFlightIsDriven`, `LinkIsRegistered`, `LinkSurvivesOldSocket` hold (2.7 M states) |
| `agent_link_liveness` | 1 socket reopened for ever, 2 jobs | `UpdateResolves`, `GoneAgentNotOnline` hold (194 k) |
| `agent_offline_race` | as above | `ConnectedNotTurnedOffline` violated |
| `agent_services` | 1 socket, 1 job, a service | `ServicesFollowAgent` violated |
| `gateway` | 2 clients, 2 conns, 2 pool Sets, limit 1 | `TunnelsAreExclusive`, `PoolIsReachable`, `PoolIsBounded`, `PooledNeverEmpty`, `PageIntoTunnelOnlyByHub`, `RequestIsServed`, `TokensExpire`, `PairingIsImplemented` hold (635 k) |
| `tunnel_routing` | 2 requests, 2 operators, TTL of 2 ticks | `BlockedRouteIsLate`, `BlockedTrafficIsLate`, `BlockTakesHold` hold (91 k) |
| `connect_request` | 2 workspaces, 4 handlers | `RequestReachesAgent`, `RowIsKept`, `OwnershipIsImplemented` hold (192 k) |
| `workspace_subdomain` | 2 workspaces, names, records and handlers, limit 1 | `OvershootIsBounded`, `SharedOnlyByRace`, `SettledRowMatchesZone`, `RecordsAreOwned` hold (1.7 M) |
| `services` | 2 services and names, 1 subdomain, 2 handlers at a time, 3 in a behaviour | `SubdomainSharedByRace`, `EndpointsAreKept`, `DeletionIsFinal` hold (1.4 M) |
| `credentials` | 2 handlers in each part; 3 tokens, codes, packets and keys; 2 browsers, secrets, consoles, uuids and signers; 1 agent | `CredentialTypes`, `RefreshIsGranted`, `WaitingHasCode`, `CodeAcceptedOnce`, `ActiveSecretWasConfirmed`, `SessionHasBothEnds`, `PacketHandledOnce`, `SecretReachesAgent`, `HolderIsAccepted`, `OldSecretExpires` hold (1.1 M) |
| `mirrors` | 3 releases on pages of 2, one of them edited; 6 days of 2 parts | `MirrorTypes`, `RunLeavesNoGap`, `InstallableIsKept` hold (2.4 M) |
| `release_withdrawn` | 2 releases on a page of 2 | `WithdrawnWasDeleted` violated |

Why the bounds are enough. For every safety and action property the theorems of section
4 hold without them; here is why TLC meets the interesting cases, too. Two sockets give
the overlap of an old and a new connection, and a socket slot is reused once nothing
remembers it, so there is no bound on the number of reconnects. Two jobs give every race
between a pair of handlers; the theorems remove this bound for safety. In the gateway
two conns and a limit of one fill the pool with one to spare; two `Set`s give the old
and the new one. Two operators and two requests give block against unblock against
lookup. Four handlers let two requests, a release and an answer overlap on one agent's
row; the theorems remove this bound too. With one slot for active subdomains and two
workspaces the limit is reached and passed, and two records, whose ids are used again
once nothing remembers them, are as many as two handlers can hold. Two services after
one subdomain are the smallest conflict, and three handlers let a third meet what two
that overlapped have left. Two refreshes of one browser next to another browser's logout
need three tokens. A lifetime of four ticks and a cooldown of two let a code expire
within, at and after the cooldown. Three steps with a tolerance of one let a step be too
old, current and too new. Three packets over six ticks and a window of two let one
packet make the guard forget another while a copy is still on its way. Three releases on
pages of two push one off the page; that GitHub edits the `release.json` of one of them
(`Edited`) lets an edit, a deletion and a failed read meet in one synchronisation. Six days with a retention of a few let every
length of back-fill, a midnight during a run and the pruning happen.

Symmetry is used in the safety runs of `AgentLink`, `ConnectRequest`,
`WorkspaceSubdomain`, `ServiceLife` and the credentials, none of which checks liveness.
The credentials share model values between parts that never meet, so a permutation of
tokens is one of codes, packets and keys too.

Deadlock is checked in the agent, routing and connect-request runs. The others turn it
off: each client, conn and workspace of theirs lives once, handlers, tokens, packets and days are
counted, so the model really ends.

Fairness. `AgentLink`: every suspended handler goes on (the database answers, if only to
refuse), and both timers fire; the timers are strongly fair only because the model hands
them one of a bounded number of job slots. Nothing is assumed of the Agent, the network or
the user. `TunnelGateway`: `fetch` answers or fails, and the registry's timers fire;
Agents and clients promise nothing. `TunnelRouting`: the database answers and time
passes. The other modules state safety only.

### Findings

Three statements the repository makes of itself have a run whose counterexample shows
that they do not hold.

* **A reconnected agent can be turned offline.** `expire()` and the offline timer
  look at the registry, then await the database; an agent that registers in between
  gets the late write (`src/agent/agent.service.ts:271`,
  `src/agent/agent-update.service.ts:215`).
* **Services can stay live on an offline agent.** `expire()` lowers the agent only
  (`src/agent/agent-update.service.ts:215`).
* **A release that GitHub still has can be withdrawn.** A `release.json` that cannot be
  read once leaves its release out of `seen`, and `markYanked` takes that for a deletion
  until the next synchronisation (`src/releases/release-catalog.service.ts:189`).

They are not the only ones. Other comments promise more than the code keeps, too, and
appear here as an exception of a property that holds otherwise: that forgotten nonces have
always expired (`src/global/hash.util.ts:265`; not with an Agent's clock ahead), that the
stored step keeps a code from being used again (`src/auth/2fa.service.ts:186`; not by
overlapping calls), that a signing secret is never overwritten
(`src/agent/agent.service.ts:132`; two registrations that both read a row without one both
write one).

The passing properties state exactly what holds beside the cases that go wrong. Those
cases are named in the properties, so the runs show that nothing else goes wrong, and do
not catch the case itself:

| Property | What it excepts |
| --- | --- |
| `InFlightIsDriven`, `UpdateResolves` | `adrift`: `recordProgress` or `isExpectedRestart` writes back a phase read before the update ended; or the database refuses the write of the result after the timer was cleared, a query of `expire()`, or the one between the write of a new update and the arming of its timer |
| `LinkIsRegistered`, `GoneAgentNotOnline` | a socket that closed while it was registering stays in the registry |
| `GoneAgentNotOnline` | `disconnectAgent`; a write refused twice; one refused query of its registration after the row went online, of `handleDisconnect`, or the first of `markAgentOffline` |
| `RequestReachesAgent` | the Hub stopped, or a query or the roll-back was refused, between the write and the prompt |
| `BlockedRouteIsLate`, `BlockedTrafficIsLate` | a lookup that read the row before the block refills the cache (5 s at most: `BlockTakesHold`) |
| `PooledNeverEmpty` | the token path, on which the Agent's end ends the client too |
| `PageIntoTunnelOnlyByHub` | the Hub's second answer fails after the Agent has dialled in |
| `OvershootIsBounded`, `SharedOnlyByRace` | activations that had all passed the check |
| `SubdomainSharedByRace` | a handler whose check was overtaken; the unique index spans a column that is NULL |
| `EndpointsAreKept` | `replaceServiceEndpoints` fails between its two queries |
| `DeletionIsFinal` | handlers that had read the service before |
| `RowIsKept` | handlers that had read the row before it was taken |
| `RefreshIsGranted` | an answer lost, or later than the grace period |
| `WaitingHasCode` | a mail that was refused, or time that passed between choosing and storing |
| `CodeAcceptedOnce` | codes whose step an overlapping call has lowered; calls that read the row before any of them stores |
| `ActiveSecretWasConfirmed` | a set-up or removal during a confirmation |
| `SessionHasBothEnds` | a console that left during the query; `disconnectAgent` |
| `PacketHandledOnce` | an Agent's clock that is ahead of the Hub's: its packets make the guard forget others' too early, or are forgotten early themselves |
| `SecretReachesAgent` | an issued secret whose connection was gone, or whose handler failed |
| `HolderIsAccepted` | a cached null, which is not looked up again: lines are refused for up to 60 s after the first secret is issued |
| `OldSecretExpires` | a query overtaken by the change: the old secret is stored for another 60 s |
| `InstallableIsKept` | the operator's block; a `release.json` that blocks the release, asks for an unsupported protocol or could not be read; a release or asset that is gone |
| `RunLeavesNoGap` | a day Cloudflare refused; the days before those that are asked for again, when the first back-fill was interrupted |

## 4. What is proved

Every safety invariant and every action property of the passing runs is a theorem, for
any number of sockets, handlers, requests, tokens, services, workspaces, releases or days
and any limit, lifetime, window and retention; so is each of the two refinements. The types
of `TunnelGateway`, `TunnelRouting`, `ConnectRequest`, `WorkspaceSubdomain` and
`ServiceLife` are proved only, the other types are checked in the runs, too.

Each proof has the same course. An invariant that the code relies on without saying so is
added to the property until the two together are inductive; TLC confirmed that invariant on
the bounds of the component's run before it was proved; then one lemma per part says that
every action keeps it, and a temporal step joins them. What follows says what had to be added and why.

* `AgentLinkProofs`
  * `TypeCorrect`: `Spec => []TypeOK`, one case per action.
  * `UpdatesAreDriven`: `Spec => []InFlightIsDriven`. Not inductive by itself: the step
    in which a handler writes its decision needs to know what it may decide. The
    strengthening `DecisionsHold` says so: the phase a job at `write` will write is
    determined by its kind, and a job that will end the update was one of the witnesses
    in `Driven`. A request between the write of the phase and its timer is such a witness
    (`emit`); if its query is refused there, the update is `adrift`.
  * `LinkedSocketsAreRegistered`: `Spec => []LinkIsRegistered`, strengthened by
    `RegisteringKnown`: a registering job has a socket to attach.
  * `ReconnectedAgentKeepsLink`: `Spec => LinkSurvivesOldSocket`, an action property,
    from `TypeOK` and `RegisteringKnown`.
* `TunnelGatewayProofs`
  * `ConnsAreNotShared` (`TunnelsAreExclusive`), `PooledConnsAreFound`
    (`PoolIsReachable`), `PoolStaysInLimit` (`PoolIsBounded`), `PooledClientsAreAnswered`
    (`PooledNeverEmpty`) and `PagesComeFromHub` (`PageIntoTunnelOnlyByHub`), all from
    `GatewayInv`, and `GatewayTypeCorrect`.
  * `PoolHolds` is the heart: only the `Set` in the map has members; a member's close
    handler holds on to that `Set`, unless the member had closed while it was being
    verified (`doomed`). Without the second half, the close handler of a socket could
    delete a `Set` another socket is pooled in (`CloseKeepsPool`). `ConnsAreHeld` keeps
    piped, parked and pooled apart, `RequestInOrder` and `AnswerHasSource` say how far
    `onData` has come when a client has bytes or a page.
  * `GatewayPairs`: `Spec => PairingIsImplemented`. `StepImplements` maps every action of
    the gateway to a step of `TunnelPairing` or a stutter, by way of lemmas about the
    mapping: what a change of one connection, or the close of one, does to the `Stage` of
    all (`StageMoves`, `CloseKeepsStages`), and how a tunnel ends, with a page for its
    client or in silence (`EndWithPageImplements`, `EndSilentlyImplements`).
    `GatewayInv` is needed in four places: a claimed connection is idle (`PoolHolds`); its
    client has none and has read nothing, for which `AnswerHasSource` says also that a
    client whose request is with the Hub was sent nothing; a page breaks an answer on the
    token path only; and an accepted connection finds room, since all idle ones are members
    of the `Set` it joins (`AcceptanceOffers`).
* `TunnelRoutingProofs`
  * `RoutingTypeCorrect`, `BlocksAreKept` (`[]BlockedRouteIsLate`) and
    `BlocksStopTraffic` (`BlockedTrafficIsLate`), with the strengthening `LookupsHold`: a
    lookup that has found a target read an unblocked row.
* `ConnectRequestProofs`
  * `TypeCorrect`, `ParentMatchesState` (`[]TakenHasParent`), `RequestsAreSent`
    (`[]RequestReachesAgent`) and `RowsAreKept` (`RowIsKept`), all from one inductive
    invariant. Two parts of it are there for the induction: `RequestsNameWorkspace`, without
    which a request could write a row that is taken by nobody, and `NewcomersAreOwn`: a
    handler that read the row after it was last taken, and is about to write, is the
    parent's own or the Agent's answer to the request that stands. The action property
    follows because only four actions take a row away.
  * `Implementation`: `Spec => OwnershipIsImplemented`. The initial row maps to the
    initial state of `AgentOwnership`; by `StepImplements` a step that writes the row
    asks, accepts or frees, and every other step is a stutter. The invariant is needed in
    one place: an acceptance finds a row that names a workspace.
* `WorkspaceSubdomainProofs`
  * `LimitOvershoot` (`OvershootIsBounded`), `SharingNeedsRace` (`SharedOnlyByRace`),
    `SettledRowsMatch` (`SettledRowMatchesZone`), `NoOrphanRecords` (`RecordsAreOwned`) and
    `WorkspaceTypeCorrect`, from `WorkspaceInv`.
  * `JobsInForm` says what a handler remembers at each await. `RecordsArePrivate`: the id of
    a record never passes from one workspace to another, so what a handler does at
    Cloudflare concerns its own row only. `UndisturbedRows`: while nothing has muddled a
    workspace it has one handler, which sees the row it read. `ZoneIsAhead` and
    `RowFollowsZone` say who is ahead of whom, Cloudflare of the row, until the write.
    `MakerOwns` traces every record to its workspace. `ChecksHold`: a handler past the
    uniqueness check still has the name to itself, or the name is `contested`.
  * `OvershootIsBounded` is a counting argument: the active rows and the activations past
    the count are finite sets, and a write moves a handler from the one to the other. It
    needs at least one handler slot (`JobsAssumption`): with none there would be no
    activation to be counted.
* `ServiceLifeProofs`
  * `SharingIsARace` (`SubdomainSharedByRace`), `EndpointsSurvive` (`EndpointsAreKept`),
    `DeletionHolds` (`DeletionIsFinal`, an action property) and `ServiceTypeCorrect`, from
    `ServiceInv`.
  * `JobsInForm`: the row, the lists and the name in a handler's hands at each query.
    `ReadersAreOvertaken`: a handler that still works on a deleted service has been overtaken
    by the deletion. `EmptiedIsWritten`: the endpoints of a service that has none are about
    to be written, or the service is `bare`. `ChecksHold`: nobody has the subdomains a
    handler's last check found free, unless the handler is `overtaken` since.
    `HandledRowsExist`: a handler past its creation has a row.
  * The lists of a request may have any length up to a bound, whatever the bound is. What
    `normalizeEndpoints` returns is proved from its definition (`NormalizedType`, `FirstPublicType`: the least index of a public
    endpoint exists, by the well-foundedness of the naturals).
* `CredentialProofs`, one inductive invariant for each of the seven protocols
  * `LoginsSurvive` (`RefreshIsGranted`) from `SessionInv`: `TokensAreOwned`, no browser ever
    has another's token, in a cookie or a request; `CookiesAreFresh`, the cookie of a
    browser is active, or whoever expired it will replace it within the grace period, or the
    browser has given it up; `RefreshesAreFresh`, the same of the token of a request.
  * `WaitersHaveCode` (`WaitingHasCode`) from `MailInv`: `SendingsHold`, the two ages of a
    row move together, so a code sent less than a cooldown ago has not expired; it is
    here that the cooldown must not be longer than the lifetime.
  * `CodesAreUsedOnce` (`CodeAcceptedOnce`) and `ActiveWasConfirmed`
    (`ActiveSecretWasConfirmed`) from `TotpInv`: `StepsGrow`, every accepted code of the
    row's secret is at or below the row's step or `reopened`, and what a call is about to
    store is above the row's step unless another has written the row since it read it; `SecretsAreNew`, a secret that is being
    generated is nobody's, so a set-up cannot bring an accepted code back.
  * `SessionsHaveEnds` (`SessionHasBothEnds`) from `TerminalInv`: a session, and a handler
    that will open one, was asked for by a console that was open.
  * `PacketsPassOnce` (`PacketHandledOnce`) from `PacketInv`: what was handed on stays in the
    guard for as long as a copy would pass the time check, since two packets that both pass
    it are within one window of each other (an inequality over any window), whichever of
    the Agents they come from.
  * `SecretsReachAgents` (`SecretReachesAgent`) from `SecretInv`: every secret ever made is
    the Agent's, is on its way, or was for a connection that was gone (`SecretsAreTold`); an
    Agent that has one has the uuid of its row, and no handler of its present connection
    makes another (`AgentKeepsSecret`).
  * `RowsAreGivenNew`, an action property of `AgentSecret`: a row is only given a secret that
    no row has had, because no two handlers have made the same (`PendingIsOwn`). So
    `IssueSecret` of `PreconnectVerdict` is all that registration can do to a row.
  * `HoldersAreAccepted` (`HolderIsAccepted`) and `OldSecretsExpire` (`OldSecretExpires`) from
    `VerdictInv`: while a line is signed with what the row has held all along, so is what a
    query has read for it (`HoldersInForm`); a tick takes from an entry what it adds to the
    age of the row.
  * `CredentialsTyped` (`CredentialTypes`), of the specification that TLC runs:
    `PartsAreFollowed` shows that each of its behaviours is one of every part, so that all of
    the above holds of it.
* `MirrorProofs`
  * `RunsLeaveNoGap` (`RunLeavesNoGap`) from `TrafficInv`: during a run each of the last days
    is stored, on the list, refused or pruned (`RunCoversDays`). Its start needs
    `BackfillCoversResync`: the list a run makes contains those days whatever has been
    stored, from the assumption on the retention and the arithmetic of days and their parts.
  * `InstallableStays` (`InstallableIsKept`, an action property) from `CatalogInv`:
    `PageHasNoHoles`, a page holds the newest releases by publication, so what a
    synchronisation withdraws was deleted, lost the asset or could not be read; and a row
    it writes is installable unless what it has read speaks against it. A page is
    counted and its newest release chosen, so the invariant carries along that the releases
    GitHub has are finitely many (`CatalogIsFinite`); `Versions` itself may be infinite.
  * `MirrorsTyped` (`MirrorTypes`), of the specification that TLC runs, by
    `TablesAreFollowed`, as for the credentials.

The assumptions are those named in the modules: null values are not members of the sets
they extend; bounds are natural numbers (and positive where the code divides by them or has
at least one); the sets that are counted (`Conns`, `Workspaces` and its handlers) are finite;
and three relations between constants of the code: the cooldown is within the lifetime of a
code, fewer days are asked for again than are kept, and the retention Cloudflare has, or the
fallback, covers the days that are asked for again. No theorem is vacuous on account of its
assumptions: TLC evaluates every one of them in the runs.

Two conventions of the models come from the proofs. Recursion and folds are avoided:
`FirstPublic` of `ServiceLife` chooses the least index, the page of `ReleaseCatalog` is
defined by counting. An action that changes several fields of one row does so in one inner
`EXCEPT` (`![j] = [@ EXCEPT !.pc = ..., !.rec = ...]`).

Only model-checked: the liveness properties (`UpdateResolves`, `GoneAgentNotOnline`,
`RequestIsServed`, `TokensExpire`, `BlockTakesHold`), since the prover has no rule for
fairness and `ENABLED`, and of course the three violated ones.

## 5. Not modelled, and what is left

Not modelled: the 30 s cache of public statistics; the component rows of
container-status reports; `changePassword`, which overwrites one column; HMAC, canonical
JSON and the parsing of versions, which are data; bootstrap, guards, the other filters and
the error page texts, which keep no state; handlers that only read. `changePassword` and
the statistics leave their components partly modelled.

What could follow:

1. `PreconnectVerdict` composed with the pool of `TunnelGateway`: which sockets were pooled
   with a secret that has since been replaced.
2. `RowsChange` of `TunnelRouting` replaced by the handlers of `ServiceLife`, and the
   refinement that says it may stand for them.
3. An abstract specification for `AuthSession`: who is logged in, without tokens.
