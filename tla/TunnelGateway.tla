--------------------------- MODULE TunnelGateway ---------------------------
(***************************************************************************)
(* The public tunnel gateway: the HTTP proxy (proxy/server.ts), the        *)
(* control server the Agent dials into (tunnel/server.ts), the one-time    *)
(* token registry (tunnel/registry.ts) and the pool of preconnected agent  *)
(* sockets (tunnel/preconnect.ts).                                         *)
(*                                                                         *)
(* A client is one public connection with its own token; a conn is one TCP *)
(* connection from the Agent.  Pools are keyed by agent, so one agent is   *)
(* modelled.  The Hub is asked over HTTP and may answer, refuse or be      *)
(* unreachable; what it decides is TunnelRouting's subject.                *)
(***************************************************************************)
EXTENDS Naturals, FiniteSets

CONSTANTS
    Clients,        \* public connections, one request each
    Conns,          \* connections of the Agent to the control port
    Pools,          \* identities of the Set objects preconnect.ts creates
    MaxPool,        \* MAX_POOL_PER_AGENT
    NoConn, NoPool

ASSUME ConnsAssumption == IsFiniteSet(Conns) /\ NoConn \notin Conns
ASSUME PoolsAssumption == NoPool \notin Pools
ASSUME MaxPoolAssumption == MaxPool \in Nat
ASSUME EntryAssumption == Conns \cap {"none", "client"} = {}

VARIABLES
    client,         \* "open", "ended" (the gateway has called end) or "closed"
    ask,            \* where onData of the client is suspended, or how it ended
    told,           \* tunnel-connect of this token: "no", "asked" of the Hub, "sent", "dialled"
    entry,          \* localClientSocket.get(token): "client", a parked conn, or "none"
    peer,           \* the conn piped with the client
    path,           \* how that conn was found: "pooled" or "token"
    resp,           \* what the client has received
    conn,           \* what the control server is doing with a conn
    wire,           \* "open", "dying" (destroyed or ended), "closed" ('close' was emitted)
    pool,           \* pools.get(agentUuid)
    members,        \* contents of every pool Set
    home,           \* the Set that the conn's close handler holds on to
    doomed          \* history: the conn closed while the Hub was verifying it

clientVars == <<client, ask, told, entry, peer, path, resp>>
connVars == <<conn, wire, pool, members, home, doomed>>
vars == <<client, ask, told, entry, peer, path, resp, conn, wire, pool, members, home, doomed>>

TypeOK ==
    /\ client \in [Clients -> {"open", "ended", "closed"}]
    /\ ask \in [Clients -> {"idle", "lookup", "fallback", "ok", "failed"}]
    /\ told \in [Clients -> {"no", "asked", "sent", "dialled"}]
    /\ entry \in [Clients -> {"none", "client"} \cup Conns]
    /\ peer \in [Clients -> Conns \cup {NoConn}]
    /\ path \in [Clients -> {"none", "pooled", "token"}]
    /\ resp \in [Clients -> {"none", "page", "bytes", "empty", "mixed"}]
    /\ conn \in [Conns -> {"new", "verifying", "pooled", "tunnel", "parked", "done"}]
    /\ wire \in [Conns -> {"open", "dying", "closed"}]
    /\ pool \in Pools \cup {NoPool}
    /\ members \in [Pools -> SUBSET Conns]
    /\ home \in [Conns -> Pools \cup {NoPool}]
    /\ doomed \in [Conns -> BOOLEAN]

Init ==
    /\ client = [c \in Clients |-> "open"]
    /\ ask = [c \in Clients |-> "idle"]
    /\ told = [c \in Clients |-> "no"]
    /\ entry = [c \in Clients |-> "none"]
    /\ peer = [c \in Clients |-> NoConn]
    /\ path = [c \in Clients |-> "none"]
    /\ resp = [c \in Clients |-> "none"]
    /\ conn = [k \in Conns |-> "new"]
    /\ wire = [k \in Conns |-> "open"]
    /\ pool = NoPool
    /\ members = [p \in Pools |-> {}]
    /\ home = [k \in Conns |-> NoPool]
    /\ doomed = [k \in Conns |-> FALSE]

-----------------------------------------------------------------------------
(* The client socket *)

\* socket.end(page): the client reads it unless its stream has been ended already.
\* Bytes the agent sent before make it a broken response.
EndWithPage(c) ==
    IF client[c] = "open"
    THEN /\ resp' = [resp EXCEPT ![c] = IF @ = "none" THEN "page" ELSE "mixed"]
         /\ client' = [client EXCEPT ![c] = "ended"]
    ELSE UNCHANGED <<resp, client>>

\* socket.end() with nothing to say.
EndSilently(c) ==
    IF client[c] = "open"
    THEN /\ resp' = [resp EXCEPT ![c] = IF @ = "none" THEN "empty" ELSE @]
         /\ client' = [client EXCEPT ![c] = "ended"]
    ELSE UNCHANGED <<resp, client>>

\* The client goes away.  onClose releases the token, if it still leads to this socket,
\* and a pooled conn is ended with it; a dialled conn only sees an orderly end.
ClientCloses(c, orderly) ==
    /\ client[c] # "closed"
    /\ client' = [client EXCEPT ![c] = "closed"]
    /\ entry' = [entry EXCEPT ![c] = IF @ = "client" THEN "none" ELSE @]
    /\ wire' = [k \in Conns |->
                  IF peer[c] = k /\ wire[k] = "open" /\ (path[c] = "pooled" \/ orderly)
                  THEN "dying" ELSE wire[k]]
    /\ UNCHANGED <<ask, told, peer, path, resp, conn, pool, members, home, doomed>>

-----------------------------------------------------------------------------
(* The proxy: onData *)

\* No Host header, or a host that names no route.
RejectRequest(c) ==
    /\ ask[c] = "idle" /\ client[c] = "open"
    /\ ask' = [ask EXCEPT ![c] = "failed"]
    /\ EndWithPage(c)
    /\ UNCHANGED <<told, entry, peer, path, connVars>>

AskLookup(c) ==
    /\ ask[c] = "idle" /\ client[c] = "open"
    /\ ask' = [ask EXCEPT ![c] = "lookup"]
    /\ UNCHANGED <<client, told, entry, peer, path, resp, connVars>>

\* The Hub refuses the request or cannot be reached, in either question.  After the
\* second one the token stays registered.
HubFails(c) ==
    /\ ask[c] \in {"lookup", "fallback"}
    /\ ask' = [ask EXCEPT ![c] = "failed"]
    /\ EndWithPage(c)
    /\ UNCHANGED <<told, entry, peer, path, connVars>>

\* claimPreconnected skips what is destroyed or not writable.
Usable(k) == wire[k] = "open"

\* Mutant: the claimed socket stays in the pool.
ClaimKeepsMember(c, k) ==
    /\ ask[c] = "lookup"
    /\ pool # NoPool /\ k \in members[pool]
    /\ Usable(k)
    /\ conn' = [conn EXCEPT ![k] = "tunnel"]
    /\ peer' = [peer EXCEPT ![c] = k]
    /\ path' = [path EXCEPT ![c] = "pooled"]
    /\ ask' = [ask EXCEPT ![c] = "ok"]
    /\ UNCHANGED <<client, told, entry, resp, wire, pool, members, home, doomed>>

\* Mutant: the first socket of the pool is claimed, dead or not.
ClaimFirst(c, k) ==
    /\ ask[c] = "lookup"
    /\ pool # NoPool /\ k \in members[pool]
    /\ members' = [members EXCEPT ![pool] = @ \ {k}]
    /\ conn' = [conn EXCEPT ![k] = "tunnel"]
    /\ peer' = [peer EXCEPT ![c] = k]
    /\ path' = [path EXCEPT ![c] = "pooled"]
    /\ ask' = [ask EXCEPT ![c] = "ok"]
    /\ UNCHANGED <<client, told, entry, resp, wire, pool, home, doomed>>

\* claimPreconnected finds k, passing over some of the dead sockets; the pool
\* keeps its place in the map even when k was the last.
ClaimPooled(c, k) ==
    /\ ask[c] = "lookup"
    /\ pool # NoPool /\ k \in members[pool]
    /\ Usable(k)
    /\ \E dead \in SUBSET {d \in members[pool] : ~Usable(d)} :
          members' = [members EXCEPT ![pool] = @ \ (dead \cup {k})]
    /\ conn' = [conn EXCEPT ![k] = "tunnel"]
    /\ peer' = [peer EXCEPT ![c] = k]
    /\ path' = [path EXCEPT ![c] = "pooled"]
    /\ ask' = [ask EXCEPT ![c] = "ok"]
    /\ UNCHANGED <<client, told, entry, resp, wire, pool, home, doomed>>

\* Mutant: the Hub is asked, the client is not registered.
AskWithoutToken(c) ==
    /\ ask[c] = "lookup"
    /\ \A p \in Pools : \A k \in members[p] : p = pool => ~Usable(k)
    /\ members' = [p \in Pools |-> IF p = pool THEN {} ELSE members[p]]
    /\ pool' = NoPool
    /\ ask' = [ask EXCEPT ![c] = "fallback"]
    /\ told' = [told EXCEPT ![c] = "asked"]
    /\ UNCHANGED <<client, entry, peer, path, resp, conn, wire, home, doomed>>

\* The client waits under its token with a 10 s timer, and the Hub is asked to have the
\* Agent dial in.
WaitUnderToken(c) ==
    /\ ask[c] = "lookup"
    /\ entry' = [entry EXCEPT ![c] = "client"]
    /\ ask' = [ask EXCEPT ![c] = "fallback"]
    /\ told' = [told EXCEPT ![c] = "asked"]
    /\ UNCHANGED <<client, peer, path, resp, conn, wire, home, doomed>>

\* No usable socket: what is left of the pool is dropped on the way.
RegisterToken(c) ==
    /\ \A p \in Pools : \A k \in members[p] : p = pool => ~Usable(k)
    /\ members' = [p \in Pools |-> IF p = pool THEN {} ELSE members[p]]
    /\ pool' = NoPool
    /\ WaitUnderToken(c)

\* The Hub's answer names no agent (its body broke off): the pool is not looked at.
RouteUnreadable(c) ==
    /\ WaitUnderToken(c)
    /\ UNCHANGED <<pool, members>>

\* The Hub sends tunnel-connect to the Agent.  Its HTTP answer is still on its way, or
\* the proxy has given up on it.
HubDispatches(c) ==
    /\ told[c] = "asked"
    /\ told' = [told EXCEPT ![c] = "sent"]
    /\ UNCHANGED <<client, ask, entry, peer, path, resp, connVars>>

FallbackOk(c) ==
    /\ ask[c] = "fallback" /\ told[c] \in {"sent", "dialled"}
    /\ ask' = [ask EXCEPT ![c] = "ok"]
    /\ UNCHANGED <<client, told, entry, peer, path, resp, connVars>>

\* Mutant: the timeout answers the client and keeps the token.
TimeoutKeepsToken(c) ==
    /\ entry[c] = "client"
    /\ EndWithPage(c)
    /\ UNCHANGED <<ask, told, entry, peer, path, connVars>>

\* The registry's timer of a waiting client.
TokenTimeout(c) ==
    /\ entry[c] = "client"
    /\ entry' = [entry EXCEPT ![c] = "none"]
    /\ EndWithPage(c)
    /\ UNCHANGED <<ask, told, peer, path, connVars>>

\* The timer of a parked agent socket: the token goes, the socket stays open.
ParkTimeout(c) ==
    /\ entry[c] \in Conns
    /\ entry' = [entry EXCEPT ![c] = "none"]
    /\ UNCHANGED <<client, ask, told, peer, path, resp, connVars>>

-----------------------------------------------------------------------------
(* The control server *)

\* Mutant: claim() neither deletes the token nor clears its timer.
DialKeepsTimer(k, c) ==
    /\ conn[k] = "new" /\ Usable(k) /\ told[c] = "sent"
    /\ entry[c] = "client"
    /\ told' = [told EXCEPT ![c] = "dialled"]
    /\ peer' = [peer EXCEPT ![c] = k]
    /\ path' = [path EXCEPT ![c] = "token"]
    /\ conn' = [conn EXCEPT ![k] = "tunnel"]
    /\ UNCHANGED <<client, ask, entry, resp, wire, pool, members, home, doomed>>

\* claim(): the waiting client and the conn are piped, and its timer is cleared.
DialMatches(k, c) ==
    /\ conn[k] = "new" /\ Usable(k) /\ told[c] = "sent"
    /\ entry[c] = "client"
    /\ told' = [told EXCEPT ![c] = "dialled"]
    /\ entry' = [entry EXCEPT ![c] = "none"]
    /\ peer' = [peer EXCEPT ![c] = k]
    /\ path' = [path EXCEPT ![c] = "token"]
    /\ conn' = [conn EXCEPT ![k] = "tunnel"]
    /\ UNCHANGED <<client, ask, resp, wire, pool, members, home, doomed>>

\* Nobody waits under the token any more: the conn hibernates in the registry.
DialParks(k, c) ==
    /\ conn[k] = "new" /\ Usable(k) /\ told[c] = "sent"
    /\ entry[c] = "none"
    /\ told' = [told EXCEPT ![c] = "dialled"]
    /\ entry' = [entry EXCEPT ![c] = k]
    /\ conn' = [conn EXCEPT ![k] = "parked"]
    /\ UNCHANGED <<client, ask, peer, path, resp, wire, pool, members, home, doomed>>

\* reject(): PRE:ERR and the end of the socket.
reject(k) ==
    /\ conn' = [conn EXCEPT ![k] = "done"]
    /\ wire' = [wire EXCEPT ![k] = IF @ = "open" THEN "dying" ELSE @]
    /\ UNCHANGED <<clientVars, pool, members, home, doomed>>

\* A malformed PRE line is turned away at once, the others wait for the Hub.
PreconnectMalformed(k) ==
    /\ conn[k] = "new" /\ Usable(k)
    /\ reject(k)

handlePreconnect(k) ==
    /\ conn[k] = "new" /\ Usable(k)
    /\ conn' = [conn EXCEPT ![k] = "verifying"]
    /\ UNCHANGED <<clientVars, wire, pool, members, home, doomed>>

\* The Hub refuses the signature, or is unreachable.
PreconnectRefused(k) ==
    /\ conn[k] = "verifying"
    /\ reject(k)

\* Mutant: room for one socket more than the limit.
RoomForOneMore(S) == Cardinality(S) <= MaxPool

HasRoom(S) == Cardinality(S) < MaxPool

PreconnectPoolFull(k) ==
    /\ conn[k] = "verifying"
    /\ ~HasRoom(IF pool = NoPool THEN {} ELSE members[pool])
    /\ reject(k)

\* Verified and there is room, whether or not the socket still lives.  The close
\* handler remembers the Set, unless 'close' has been emitted before.
PreconnectAccepted(k) ==
    /\ conn[k] = "verifying"
    /\ \E p \in Pools :
          /\ HasRoom(members[p])
          /\ IF pool # NoPool THEN p = pool ELSE members[p] = {} /\ \A d \in Conns : home[d] # p
          /\ members' = [members EXCEPT ![p] = @ \cup {k}]
          /\ pool' = p
          /\ home' = [home EXCEPT ![k] = IF wire[k] = "closed" THEN NoPool ELSE p]
    /\ conn' = [conn EXCEPT ![k] = "pooled"]
    /\ UNCHANGED <<clientVars, wire, doomed>>

-----------------------------------------------------------------------------
(* What the Agent's end of a conn does *)

\* First bytes of a response.
ConnResponds(k, c) ==
    /\ peer[c] = k /\ wire[k] = "open"
    /\ client[c] = "open" /\ resp[c] = "none"
    /\ resp' = [resp EXCEPT ![c] = "bytes"]
    /\ UNCHANGED <<client, ask, told, entry, peer, path, connVars>>

\* The Agent or the network ends the conn; 'close' is emitted later.
ConnDies(k) ==
    /\ wire[k] = "open"
    /\ wire' = [wire EXCEPT ![k] = "dying"]
    /\ UNCHANGED <<clientVars, conn, pool, members, home, doomed>>

\* Mutant: the map's entry is deleted without asking whether it is still this Set.
LeaveAnyPool(k) ==
    LET p == home[k]
        left == members[p] \ {k}
    IN  IF p = NoPool
        THEN UNCHANGED <<members, pool>>
        ELSE /\ members' = [members EXCEPT ![p] = left]
             /\ pool' = IF left = {} THEN NoPool ELSE pool

\* The pool's part of 'close': leave the Set, and drop the Set once it is empty,
\* provided it is still the one in the map.  A claimed socket runs it as well.
LeavePool(k) ==
    LET p == home[k]
        left == members[p] \ {k}
    IN  IF p = NoPool
        THEN UNCHANGED <<members, pool>>
        ELSE /\ members' = [members EXCEPT ![p] = left]
             /\ pool' = IF pool = p /\ left = {} THEN NoPool ELSE pool

ConnCloses(k) ==
    /\ wire[k] = "dying"
    /\ wire' = [wire EXCEPT ![k] = "closed"]
    /\ doomed' = [doomed EXCEPT ![k] = conn[k] = "verifying"]
    /\ LeavePool(k)
    /\ home' = [home EXCEPT ![k] = NoPool]

\* A conn that carries no client: onClose releases its token.
IdleConnCloses(k) ==
    /\ conn[k] # "tunnel"
    /\ ConnCloses(k)
    /\ entry' = [c \in Clients |-> IF entry[c] = k THEN "none" ELSE entry[c]]
    /\ UNCHANGED <<client, ask, told, peer, path, resp, conn>>

\* Mutant: the pipe ends the client whatever it has received.
PooledTunnelJustEnds(k, c) ==
    /\ peer[c] = k /\ path[c] = "pooled"
    /\ ConnCloses(k)
    /\ EndSilently(c)
    /\ UNCHANGED <<ask, told, entry, peer, path, conn>>

\* A claimed pool socket: an unanswered client gets the error page, since the pipe
\* towards it was told not to end it.
PooledTunnelCloses(k, c) ==
    /\ peer[c] = k /\ path[c] = "pooled"
    /\ ConnCloses(k)
    /\ IF resp[c] = "none" THEN EndWithPage(c) ELSE EndSilently(c)
    /\ UNCHANGED <<ask, told, entry, peer, path, conn>>

\* A dialled conn that ended: its pipe ends the client, whatever it has received.
TokenTunnelEnds(k, c) ==
    /\ peer[c] = k /\ path[c] = "token"
    /\ ConnCloses(k)
    /\ EndSilently(c)
    /\ UNCHANGED <<ask, told, entry, peer, path, conn>>

\* A dialled conn that was reset: pipe() forwards 'end', and a reset stream has none.
TokenTunnelResets(k, c) ==
    /\ peer[c] = k /\ path[c] = "token"
    /\ ConnCloses(k)
    /\ UNCHANGED <<clientVars, conn>>

-----------------------------------------------------------------------------
ProxyStep(c) ==
    \/ HubFails(c)
    \/ \E k \in Conns : ClaimPooled(c, k)
    \/ RegisterToken(c)
    \/ RouteUnreadable(c)
    \/ FallbackOk(c)

Next ==
    \/ \E c \in Clients :
          \/ (\E orderly \in BOOLEAN : ClientCloses(c, orderly)) \/ RejectRequest(c) \/ AskLookup(c) \/ ProxyStep(c)
          \/ HubDispatches(c) \/ TokenTimeout(c) \/ ParkTimeout(c)
    \/ \E k \in Conns :
          \/ handlePreconnect(k) \/ PreconnectMalformed(k) \/ ConnDies(k)
          \/ PreconnectRefused(k) \/ PreconnectPoolFull(k) \/ PreconnectAccepted(k)
          \/ IdleConnCloses(k)
    \/ \E k \in Conns, c \in Clients :
          \/ DialMatches(k, c) \/ DialParks(k, c) \/ ConnResponds(k, c)
          \/ PooledTunnelCloses(k, c) \/ TokenTunnelEnds(k, c) \/ TokenTunnelResets(k, c)

\* fetch answers or fails, and timers fire.  Agents and clients promise nothing.
Fairness ==
    \A c \in Clients : /\ WF_vars(ProxyStep(c))
                       /\ WF_vars(TokenTimeout(c))
                       /\ WF_vars(ParkTimeout(c))

Spec == Init /\ [][Next]_vars

FairSpec == Spec /\ Fairness

-----------------------------------------------------------------------------
(* Properties *)

\* A conn carries one client at most, and while it does neither the pool nor the
\* registry can hand it to another.
TunnelsAreExclusive ==
    /\ \A c, d \in Clients : c # d /\ peer[c] # NoConn => peer[c] # peer[d]
    /\ \A c \in Clients : peer[c] # NoConn =>
          /\ conn[peer[c]] = "tunnel"
          /\ \A p \in Pools : peer[c] \notin members[p]
          /\ \A d \in Clients : entry[d] # peer[c]

\* Every socket the Agent was told is pooled can be claimed: while it lives it is in the
\* Set the map leads to.  That Set holds a closed socket only if it closed during the
\* Hub's verification, before the close handler was in place.
PoolIsReachable ==
    /\ \A k \in Conns : conn[k] = "pooled" /\ Usable(k) => pool # NoPool /\ k \in members[pool]
    /\ \A p \in Pools : \A k \in members[p] : p = pool /\ (wire[k] = "closed" => doomed[k])

\* No Set outgrows MAX_POOL_PER_AGENT, however many verifications finish together.
PoolIsBounded == \A p \in Pools : Cardinality(members[p]) <= MaxPool

\* A client routed to a pooled socket never sees an empty response: if the Agent drops
\* the socket before the first byte the error page is sent instead.
PooledNeverEmpty == \A c \in Clients : path[c] = "pooled" => resp[c] # "empty"

\* An error page is written into a response that has begun only when the Hub's answer
\* to the second question fails after the Agent has already dialled in; the token's
\* timer never does it.
PageIntoTunnelOnlyByHub ==
    \A c \in Clients : resp[c] = "mixed" => path[c] = "token" /\ ask[c] = "failed"

\* What becomes of a conn, as the clients see it.
Stage(k) ==
    CASE conn[k] \in {"new", "verifying"} -> "fresh"
      [] conn[k] = "pooled" /\ Usable(k) -> "idle"
      [] conn[k] = "tunnel" -> "given"
      [] OTHER -> "gone"

Pairing == INSTANCE TunnelPairing WITH
    stage <- [k \in Conns |-> Stage(k)],
    tunnel <- peer,
    by <- path,
    listening <- {c \in Clients : client[c] = "open"},
    received <- resp,
    Limit <- MaxPool

\* Tokens, timers, pools and the Hub's answers, in any order, do to clients and conns what
\* TunnelPairing allows: each conn is given out once, and each client is answered once.
PairingIsImplemented == Pairing!Spec

\* Every request the proxy takes up ends in a tunnel, in an answer or with the client
\* gone: the Hub's silence, an empty pool and an Agent that never dials are covered.
RequestIsServed ==
    \A c \in Clients :
        ask[c] = "lookup" ~> (peer[c] # NoConn \/ resp[c] # "none" \/ client[c] = "closed")

\* No token stays in the registry for ever.
TokensExpire == \A c \in Clients : entry[c] # "none" ~> entry[c] = "none"

=============================================================================
