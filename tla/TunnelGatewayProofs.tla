------------------------ MODULE TunnelGatewayProofs ------------------------
(***************************************************************************)
(* Proofs about TunnelGateway for any number of clients and connections,   *)
(* any limit and any number of pool Sets.  GatewayInv is inductive: it     *)
(* says in which order a client's request moves on, what an answer allows  *)
(* to conclude, who holds a conn, and what the pool's Sets contain.  From  *)
(* it follows step by step that the gateway implements TunnelPairing.      *)
(***************************************************************************)
EXTENDS TunnelGateway, FiniteSetTheorems, TLAPS

USE ConnsAssumption, PoolsAssumption, MaxPoolAssumption, EntryAssumption

USE DEF clientVars, connVars

-----------------------------------------------------------------------------
(* The inductive invariant *)

\* A token is registered after the pool was found empty, never for a client that has a
\* pooled conn, and it stops leading to the client once a conn is found.
RequestInOrder ==
    \A c \in Clients :
        /\ ask[c] \in {"idle", "lookup"} => told[c] = "no" /\ entry[c] = "none" /\ path[c] = "none"
        /\ path[c] = "none" <=> peer[c] = NoConn
        /\ path[c] = "pooled" => ask[c] = "ok" /\ told[c] = "no" /\ entry[c] = "none"
        /\ entry[c] = "client" => path[c] = "none"

\* What the client has received tells where it came from.
AnswerHasSource ==
    \A c \in Clients :
        /\ ask[c] \in {"idle", "lookup"} => resp[c] = "none"
        /\ client[c] = "open" => resp[c] \in {"none", "bytes"}
        /\ resp[c] = "bytes" => path[c] # "none"
        /\ resp[c] = "empty" => path[c] = "token"
        /\ resp[c] = "mixed" => path[c] = "token" /\ ask[c] = "failed"

\* A piped conn belongs to one client, and a parked one to the registry.
ConnsAreHeld ==
    /\ \A c, d \in Clients : c # d /\ peer[c] # NoConn => peer[c] # peer[d]
    /\ \A c \in Clients : peer[c] # NoConn => conn[peer[c]] = "tunnel"
    /\ \A c \in Clients : entry[c] \in Conns => conn[entry[c]] = "parked"

\* Only the Set in the map has members.  They are pooled conns whose close handler, where
\* there is one, holds on to that Set; and every pooled conn that lives is among them.
PoolHolds ==
    /\ \A p \in Pools : \A k \in members[p] :
          /\ p = pool /\ conn[k] = "pooled"
          /\ IF wire[k] = "closed" THEN doomed[k] ELSE home[k] = p
    /\ \A k \in Conns : conn[k] = "verifying" /\ wire[k] = "closed" => doomed[k]
    /\ \A k \in Conns : conn[k] = "pooled" /\ Usable(k) => pool # NoPool /\ k \in members[pool]

GatewayInv == RequestInOrder /\ AnswerHasSource /\ ConnsAreHeld /\ PoolHolds /\ PoolIsBounded

-----------------------------------------------------------------------------
(* Lemmas about the pool *)

\* 'close' takes a conn out of the Set it belongs to, and the Set out of the map once it
\* is empty: that cannot be the Set another live conn is pooled in.
LEMMA CloseKeepsPool ==
  ASSUME TypeOK, PoolHolds, NEW k \in Conns, ConnCloses(k), UNCHANGED conn
  PROVE  PoolHolds'
<1>. USE DEF ConnCloses, LeavePool, TypeOK, PoolHolds, Usable
<1>1. ASSUME NEW p \in Pools, NEW d \in members'[p]
      PROVE  /\ d # k /\ d \in members[p]
             /\ p = pool'
  <2>1. d \in members[p]
    BY <1>1
  <2>2. d # k
    BY <1>1, <2>1
  <2>3. pool' = pool
    BY <1>1, <2>1, <2>2
  <2>. QED
    BY <2>1, <2>2, <2>3
<1>2. ASSUME NEW p \in Pools, NEW d \in members'[p]
      PROVE  /\ p = pool' /\ conn'[d] = "pooled"
             /\ IF wire'[d] = "closed" THEN doomed'[d] ELSE home'[d] = p
  BY <1>1, <1>2
<1>3. ASSUME NEW d \in Conns, conn'[d] = "verifying", wire'[d] = "closed"
      PROVE  doomed'[d]
  <2>1. CASE d = k
    <3>1. doomed'[k] = (conn[k] = "verifying")
      BY DEF ConnCloses
    <3>. QED
      BY <1>3, <2>1, <3>1
  <2>2. CASE d # k
    <3>1. doomed'[d] = doomed[d] /\ wire[d] = "closed" /\ conn[d] = "verifying"
      BY <1>3, <2>2
    <3>. QED
      BY <3>1
  <2>. QED
    BY <2>1, <2>2
<1>4. ASSUME NEW d \in Conns, conn'[d] = "pooled", wire'[d] = "open"
      PROVE  pool' # NoPool /\ d \in members'[pool']
  <2>1. d # k /\ pool # NoPool /\ d \in members[pool]
    BY <1>4
  <2>2. d \in members'[pool]
    BY <2>1
  <2>3. pool' = pool
    BY <2>1
  <2>. QED
    BY <2>1, <2>2, <2>3
<1>. QED
  BY <1>2, <1>3, <1>4

\* A rejected conn was in no Set.
LEMMA RejectKeepsPool ==
  ASSUME TypeOK, PoolHolds, NEW k \in Conns, conn[k] \in {"new", "verifying"}, reject(k)
  PROVE  PoolHolds'
BY DEF reject, PoolHolds, Usable

\* Sets that only lose members stay within the limit.
LEMMA SubPoolsAreBounded ==
  ASSUME TypeOK, PoolIsBounded, \A p \in Pools : members'[p] \subseteq members[p]
  PROVE  PoolIsBounded'
<1>. SUFFICES ASSUME NEW p \in Pools PROVE Cardinality(members'[p]) <= MaxPool
  BY DEF PoolIsBounded
<1>1. members[p] \subseteq Conns
  BY DEF TypeOK
<1>2. IsFiniteSet(members[p])
  BY <1>1, FS_Subset
<1>3. IsFiniteSet(members'[p]) /\ Cardinality(members'[p]) <= Cardinality(members[p])
  BY <1>2, FS_Subset
<1>4. Cardinality(members'[p]) \in Nat /\ Cardinality(members[p]) \in Nat
  BY <1>2, <1>3, FS_CardinalityType
<1>. QED
  BY <1>3, <1>4 DEF PoolIsBounded

\* A conn is accepted into a Set that has room for it.
LEMMA AcceptKeepsBound ==
  ASSUME TypeOK, PoolIsBounded, NEW k \in Conns, PreconnectAccepted(k)
  PROVE  PoolIsBounded'
<1>1. PICK p \in Pools : /\ HasRoom(members[p])
                         /\ members' = [members EXCEPT ![p] = @ \cup {k}]
  BY DEF PreconnectAccepted
<1>2. IsFiniteSet(members[p])
  BY FS_Subset DEF TypeOK
<1>3. /\ Cardinality(members[p]) \in Nat
      /\ Cardinality(members[p] \cup {k}) \in {Cardinality(members[p]), Cardinality(members[p]) + 1}
  BY <1>2, FS_CardinalityType, FS_AddElement
<1>4. Cardinality(members'[p]) <= MaxPool
  BY <1>1, <1>3 DEF HasRoom
<1>. QED
  BY <1>1, <1>4 DEF PoolIsBounded

-----------------------------------------------------------------------------
(* Preservation *)

\* Every handler keeps sockets, tokens and pools well typed.
LEMMA TypeStep == TypeOK /\ [Next]_vars => TypeOK'
<1> SUFFICES ASSUME TypeOK, [Next]_vars PROVE TypeOK'
  OBVIOUS
<1>1. ASSUME NEW c \in Clients, NEW orderly \in BOOLEAN, ClientCloses(c, orderly)
      PROVE  TypeOK'
  BY <1>1 DEF ClientCloses, TypeOK
<1>2. ASSUME NEW c \in Clients, RejectRequest(c) PROVE TypeOK'
  BY <1>2 DEF RejectRequest, EndWithPage, TypeOK
<1>3. ASSUME NEW c \in Clients, AskLookup(c) PROVE TypeOK'
  BY <1>3 DEF AskLookup, TypeOK
<1>4. ASSUME NEW c \in Clients, HubFails(c) PROVE TypeOK'
  BY <1>4 DEF HubFails, EndWithPage, TypeOK
<1>5. ASSUME NEW c \in Clients, NEW k \in Conns, ClaimPooled(c, k) PROVE TypeOK'
  BY <1>5 DEF ClaimPooled, TypeOK
<1>6. ASSUME NEW c \in Clients, RegisterToken(c) PROVE TypeOK'
  BY <1>6 DEF RegisterToken, WaitUnderToken, TypeOK
<1>7. ASSUME NEW c \in Clients, RouteUnreadable(c) PROVE TypeOK'
  BY <1>7 DEF RouteUnreadable, WaitUnderToken, TypeOK
<1>8. ASSUME NEW c \in Clients, FallbackOk(c) PROVE TypeOK'
  BY <1>8 DEF FallbackOk, TypeOK
<1>9. ASSUME NEW c \in Clients, HubDispatches(c) PROVE TypeOK'
  BY <1>9 DEF HubDispatches, TypeOK
<1>10. ASSUME NEW c \in Clients, TokenTimeout(c) PROVE TypeOK'
  BY <1>10 DEF TokenTimeout, EndWithPage, TypeOK
<1>11. ASSUME NEW c \in Clients, ParkTimeout(c) PROVE TypeOK'
  BY <1>11 DEF ParkTimeout, TypeOK
<1>12. ASSUME NEW k \in Conns, handlePreconnect(k) PROVE TypeOK'
  BY <1>12 DEF handlePreconnect, TypeOK
<1>13. ASSUME NEW k \in Conns, PreconnectMalformed(k) PROVE TypeOK'
  BY <1>13 DEF PreconnectMalformed, reject, TypeOK
<1>14. ASSUME NEW k \in Conns, ConnDies(k) PROVE TypeOK'
  BY <1>14 DEF ConnDies, TypeOK
<1>15. ASSUME NEW k \in Conns, PreconnectRefused(k) PROVE TypeOK'
  BY <1>15 DEF PreconnectRefused, reject, TypeOK
<1>16. ASSUME NEW k \in Conns, PreconnectPoolFull(k) PROVE TypeOK'
  BY <1>16 DEF PreconnectPoolFull, reject, TypeOK
<1>17. ASSUME NEW k \in Conns, PreconnectAccepted(k) PROVE TypeOK'
  BY <1>17 DEF PreconnectAccepted, TypeOK
<1>18. ASSUME NEW k \in Conns, IdleConnCloses(k) PROVE TypeOK'
  BY <1>18 DEF IdleConnCloses, ConnCloses, LeavePool, TypeOK
<1>19. ASSUME NEW k \in Conns, NEW c \in Clients, DialMatches(k, c) PROVE TypeOK'
  BY <1>19 DEF DialMatches, TypeOK
<1>20. ASSUME NEW k \in Conns, NEW c \in Clients, DialParks(k, c) PROVE TypeOK'
  BY <1>20 DEF DialParks, TypeOK
<1>21. ASSUME NEW k \in Conns, NEW c \in Clients, ConnResponds(k, c) PROVE TypeOK'
  BY <1>21 DEF ConnResponds, TypeOK
<1>22. ASSUME NEW k \in Conns, NEW c \in Clients, PooledTunnelCloses(k, c) PROVE TypeOK'
  BY <1>22 DEF PooledTunnelCloses, ConnCloses, LeavePool, EndWithPage, EndSilently, TypeOK
<1>23. ASSUME NEW k \in Conns, NEW c \in Clients, TokenTunnelEnds(k, c) PROVE TypeOK'
  BY <1>23 DEF TokenTunnelEnds, ConnCloses, LeavePool, EndSilently, TypeOK
<1>24. ASSUME NEW k \in Conns, NEW c \in Clients, TokenTunnelResets(k, c) PROVE TypeOK'
  BY <1>24 DEF TokenTunnelResets, ConnCloses, LeavePool, TypeOK
<1>25. ASSUME UNCHANGED vars PROVE TypeOK'
  BY <1>25 DEF vars, TypeOK
<1>. QED
  BY <1>1, <1>2, <1>3, <1>4, <1>5, <1>6, <1>7, <1>8, <1>9, <1>10, <1>11, <1>12, <1>13,
     <1>14, <1>15, <1>16, <1>17, <1>18, <1>19, <1>20, <1>21, <1>22, <1>23, <1>24, <1>25
  DEF Next, ProxyStep

\* No handler moves a request back, and a client holds a token or a conn, never both.
LEMMA RequestInOrderStep == TypeOK /\ RequestInOrder /\ [Next]_vars => RequestInOrder'
<1> SUFFICES ASSUME TypeOK, RequestInOrder, [Next]_vars PROVE RequestInOrder'
  OBVIOUS
<1>1. ASSUME NEW c \in Clients, NEW orderly \in BOOLEAN, ClientCloses(c, orderly)
      PROVE  RequestInOrder'
  BY <1>1 DEF ClientCloses, RequestInOrder
<1>2. ASSUME NEW c \in Clients, RejectRequest(c) PROVE RequestInOrder'
  BY <1>2 DEF RejectRequest, RequestInOrder
<1>3. ASSUME NEW c \in Clients, AskLookup(c) PROVE RequestInOrder'
  BY <1>3 DEF AskLookup, RequestInOrder
<1>4. ASSUME NEW c \in Clients, HubFails(c) PROVE RequestInOrder'
  BY <1>4 DEF HubFails, RequestInOrder
<1>5. ASSUME NEW c \in Clients, NEW k \in Conns, ClaimPooled(c, k) PROVE RequestInOrder'
  BY <1>5 DEF ClaimPooled, TypeOK, RequestInOrder
<1>6. ASSUME NEW c \in Clients, RegisterToken(c) PROVE RequestInOrder'
  BY <1>6 DEF RegisterToken, WaitUnderToken, TypeOK, RequestInOrder
<1>7. ASSUME NEW c \in Clients, RouteUnreadable(c) PROVE RequestInOrder'
  BY <1>7 DEF RouteUnreadable, WaitUnderToken, TypeOK, RequestInOrder
<1>8. ASSUME NEW c \in Clients, FallbackOk(c) PROVE RequestInOrder'
  BY <1>8 DEF FallbackOk, RequestInOrder
<1>9. ASSUME NEW c \in Clients, HubDispatches(c) PROVE RequestInOrder'
  BY <1>9 DEF HubDispatches, RequestInOrder
<1>10. ASSUME NEW c \in Clients, TokenTimeout(c) PROVE RequestInOrder'
  BY <1>10 DEF TokenTimeout, RequestInOrder
<1>11. ASSUME NEW c \in Clients, ParkTimeout(c) PROVE RequestInOrder'
  BY <1>11 DEF ParkTimeout, RequestInOrder
<1>12. ASSUME NEW k \in Conns, handlePreconnect(k) PROVE RequestInOrder'
  BY <1>12 DEF handlePreconnect, RequestInOrder
<1>13. ASSUME NEW k \in Conns, PreconnectMalformed(k) PROVE RequestInOrder'
  BY <1>13 DEF PreconnectMalformed, reject, RequestInOrder
<1>14. ASSUME NEW k \in Conns, ConnDies(k) PROVE RequestInOrder'
  BY <1>14 DEF ConnDies, RequestInOrder
<1>15. ASSUME NEW k \in Conns, PreconnectRefused(k) PROVE RequestInOrder'
  BY <1>15 DEF PreconnectRefused, reject, RequestInOrder
<1>16. ASSUME NEW k \in Conns, PreconnectPoolFull(k) PROVE RequestInOrder'
  BY <1>16 DEF PreconnectPoolFull, reject, RequestInOrder
<1>17. ASSUME NEW k \in Conns, PreconnectAccepted(k) PROVE RequestInOrder'
  BY <1>17 DEF PreconnectAccepted, RequestInOrder
<1>18. ASSUME NEW k \in Conns, IdleConnCloses(k) PROVE RequestInOrder'
  BY <1>18 DEF IdleConnCloses, RequestInOrder
<1>19. ASSUME NEW k \in Conns, NEW c \in Clients, DialMatches(k, c) PROVE RequestInOrder'
  BY <1>19 DEF DialMatches, TypeOK, RequestInOrder
<1>20. ASSUME NEW k \in Conns, NEW c \in Clients, DialParks(k, c) PROVE RequestInOrder'
  BY <1>20 DEF DialParks, RequestInOrder
<1>21. ASSUME NEW k \in Conns, NEW c \in Clients, ConnResponds(k, c) PROVE RequestInOrder'
  BY <1>21 DEF ConnResponds, RequestInOrder
<1>22. ASSUME NEW k \in Conns, NEW c \in Clients, PooledTunnelCloses(k, c)
       PROVE  RequestInOrder'
  BY <1>22 DEF PooledTunnelCloses, RequestInOrder
<1>23. ASSUME NEW k \in Conns, NEW c \in Clients, TokenTunnelEnds(k, c) PROVE RequestInOrder'
  BY <1>23 DEF TokenTunnelEnds, RequestInOrder
<1>24. ASSUME NEW k \in Conns, NEW c \in Clients, TokenTunnelResets(k, c)
       PROVE  RequestInOrder'
  BY <1>24 DEF TokenTunnelResets, RequestInOrder
<1>25. ASSUME UNCHANGED vars PROVE RequestInOrder'
  BY <1>25 DEF vars, RequestInOrder
<1>. QED
  BY <1>1, <1>2, <1>3, <1>4, <1>5, <1>6, <1>7, <1>8, <1>9, <1>10, <1>11, <1>12, <1>13,
     <1>14, <1>15, <1>16, <1>17, <1>18, <1>19, <1>20, <1>21, <1>22, <1>23, <1>24, <1>25
  DEF Next, ProxyStep

\* An end without a page is only ever sent by the pipe of a dialled conn, and a page after the
\* first byte only by the Hub's failure: every other writer finds the client unanswered.
LEMMA AnswerHasSourceStep ==
  TypeOK /\ RequestInOrder /\ AnswerHasSource /\ [Next]_vars
    => AnswerHasSource'
<1> SUFFICES ASSUME TypeOK, RequestInOrder, AnswerHasSource, [Next]_vars
             PROVE  AnswerHasSource'
  OBVIOUS
<1>1. ASSUME NEW c \in Clients, NEW orderly \in BOOLEAN, ClientCloses(c, orderly)
      PROVE  AnswerHasSource'
  BY <1>1 DEF ClientCloses, AnswerHasSource
<1>2. ASSUME NEW c \in Clients, RejectRequest(c) PROVE AnswerHasSource'
  BY <1>2 DEF RejectRequest, EndWithPage, TypeOK, RequestInOrder, AnswerHasSource
<1>3. ASSUME NEW c \in Clients, AskLookup(c) PROVE AnswerHasSource'
  BY <1>3 DEF AskLookup, AnswerHasSource
<1>4. ASSUME NEW c \in Clients, HubFails(c) PROVE AnswerHasSource'
  BY <1>4 DEF HubFails, EndWithPage, TypeOK, RequestInOrder, AnswerHasSource
<1>5. ASSUME NEW c \in Clients, NEW k \in Conns, ClaimPooled(c, k) PROVE AnswerHasSource'
  BY <1>5 DEF ClaimPooled, RequestInOrder, AnswerHasSource
<1>6. ASSUME NEW c \in Clients, RegisterToken(c) PROVE AnswerHasSource'
  BY <1>6 DEF RegisterToken, WaitUnderToken, AnswerHasSource
<1>7. ASSUME NEW c \in Clients, RouteUnreadable(c) PROVE AnswerHasSource'
  BY <1>7 DEF RouteUnreadable, WaitUnderToken, AnswerHasSource
<1>8. ASSUME NEW c \in Clients, FallbackOk(c) PROVE AnswerHasSource'
  BY <1>8 DEF FallbackOk, AnswerHasSource
<1>9. ASSUME NEW c \in Clients, HubDispatches(c) PROVE AnswerHasSource'
  BY <1>9 DEF HubDispatches, AnswerHasSource
<1>10. ASSUME NEW c \in Clients, TokenTimeout(c) PROVE AnswerHasSource'
  BY <1>10 DEF TokenTimeout, EndWithPage, TypeOK, RequestInOrder, AnswerHasSource
<1>11. ASSUME NEW c \in Clients, ParkTimeout(c) PROVE AnswerHasSource'
  BY <1>11 DEF ParkTimeout, AnswerHasSource
<1>12. ASSUME NEW k \in Conns, handlePreconnect(k) PROVE AnswerHasSource'
  BY <1>12 DEF handlePreconnect, AnswerHasSource
<1>13. ASSUME NEW k \in Conns, PreconnectMalformed(k) PROVE AnswerHasSource'
  BY <1>13 DEF PreconnectMalformed, reject, AnswerHasSource
<1>14. ASSUME NEW k \in Conns, ConnDies(k) PROVE AnswerHasSource'
  BY <1>14 DEF ConnDies, AnswerHasSource
<1>15. ASSUME NEW k \in Conns, PreconnectRefused(k) PROVE AnswerHasSource'
  BY <1>15 DEF PreconnectRefused, reject, AnswerHasSource
<1>16. ASSUME NEW k \in Conns, PreconnectPoolFull(k) PROVE AnswerHasSource'
  BY <1>16 DEF PreconnectPoolFull, reject, AnswerHasSource
<1>17. ASSUME NEW k \in Conns, PreconnectAccepted(k) PROVE AnswerHasSource'
  BY <1>17 DEF PreconnectAccepted, AnswerHasSource
<1>18. ASSUME NEW k \in Conns, IdleConnCloses(k) PROVE AnswerHasSource'
  BY <1>18 DEF IdleConnCloses, AnswerHasSource
<1>19. ASSUME NEW k \in Conns, NEW c \in Clients, DialMatches(k, c) PROVE AnswerHasSource'
  BY <1>19 DEF DialMatches, AnswerHasSource
<1>20. ASSUME NEW k \in Conns, NEW c \in Clients, DialParks(k, c) PROVE AnswerHasSource'
  BY <1>20 DEF DialParks, AnswerHasSource
<1>21. ASSUME NEW k \in Conns, NEW c \in Clients, ConnResponds(k, c) PROVE AnswerHasSource'
  BY <1>21 DEF ConnResponds, RequestInOrder, AnswerHasSource
<1>22. ASSUME NEW k \in Conns, NEW c \in Clients, PooledTunnelCloses(k, c)
       PROVE  AnswerHasSource'
  BY <1>22
  DEF PooledTunnelCloses, EndWithPage, EndSilently, TypeOK, RequestInOrder, AnswerHasSource
<1>23. ASSUME NEW k \in Conns, NEW c \in Clients, TokenTunnelEnds(k, c) PROVE AnswerHasSource'
  BY <1>23 DEF TokenTunnelEnds, EndSilently, TypeOK, RequestInOrder, AnswerHasSource
<1>24. ASSUME NEW k \in Conns, NEW c \in Clients, TokenTunnelResets(k, c)
       PROVE  AnswerHasSource'
  BY <1>24 DEF TokenTunnelResets, AnswerHasSource
<1>25. ASSUME UNCHANGED vars PROVE AnswerHasSource'
  BY <1>25 DEF vars, AnswerHasSource
<1>. QED
  BY <1>1, <1>2, <1>3, <1>4, <1>5, <1>6, <1>7, <1>8, <1>9, <1>10, <1>11, <1>12, <1>13,
     <1>14, <1>15, <1>16, <1>17, <1>18, <1>19, <1>20, <1>21, <1>22, <1>23, <1>24, <1>25
  DEF Next, ProxyStep

\* A conn that is handed out was in the pool or new, so that nobody held it; once piped it
\* is never handed out again.
LEMMA ConnsAreHeldStep ==
  TypeOK /\ RequestInOrder /\ ConnsAreHeld /\ PoolHolds /\ [Next]_vars
    => ConnsAreHeld'
<1> SUFFICES ASSUME TypeOK, RequestInOrder, ConnsAreHeld, PoolHolds, [Next]_vars
             PROVE  ConnsAreHeld'
  OBVIOUS
<1>1. ASSUME NEW c \in Clients, NEW orderly \in BOOLEAN, ClientCloses(c, orderly)
      PROVE  ConnsAreHeld'
  BY <1>1 DEF ClientCloses, ConnsAreHeld
<1>2. ASSUME NEW c \in Clients, RejectRequest(c) PROVE ConnsAreHeld'
  BY <1>2 DEF RejectRequest, ConnsAreHeld
<1>3. ASSUME NEW c \in Clients, AskLookup(c) PROVE ConnsAreHeld'
  BY <1>3 DEF AskLookup, ConnsAreHeld
<1>4. ASSUME NEW c \in Clients, HubFails(c) PROVE ConnsAreHeld'
  BY <1>4 DEF HubFails, ConnsAreHeld
<1>5. ASSUME NEW c \in Clients, NEW k \in Conns, ClaimPooled(c, k) PROVE ConnsAreHeld'
  BY <1>5 DEF ClaimPooled, TypeOK, ConnsAreHeld, PoolHolds
<1>6. ASSUME NEW c \in Clients, RegisterToken(c) PROVE ConnsAreHeld'
  BY <1>6 DEF RegisterToken, WaitUnderToken, ConnsAreHeld
<1>7. ASSUME NEW c \in Clients, RouteUnreadable(c) PROVE ConnsAreHeld'
  BY <1>7 DEF RouteUnreadable, WaitUnderToken, ConnsAreHeld
<1>8. ASSUME NEW c \in Clients, FallbackOk(c) PROVE ConnsAreHeld'
  BY <1>8 DEF FallbackOk, ConnsAreHeld
<1>9. ASSUME NEW c \in Clients, HubDispatches(c) PROVE ConnsAreHeld'
  BY <1>9 DEF HubDispatches, ConnsAreHeld
<1>10. ASSUME NEW c \in Clients, TokenTimeout(c) PROVE ConnsAreHeld'
  BY <1>10 DEF TokenTimeout, ConnsAreHeld
<1>11. ASSUME NEW c \in Clients, ParkTimeout(c) PROVE ConnsAreHeld'
  BY <1>11 DEF ParkTimeout, ConnsAreHeld
<1>12. ASSUME NEW k \in Conns, handlePreconnect(k) PROVE ConnsAreHeld'
  BY <1>12 DEF handlePreconnect, ConnsAreHeld
<1>13. ASSUME NEW k \in Conns, PreconnectMalformed(k) PROVE ConnsAreHeld'
  BY <1>13 DEF PreconnectMalformed, reject, ConnsAreHeld
<1>14. ASSUME NEW k \in Conns, ConnDies(k) PROVE ConnsAreHeld'
  BY <1>14 DEF ConnDies, ConnsAreHeld
<1>15. ASSUME NEW k \in Conns, PreconnectRefused(k) PROVE ConnsAreHeld'
  BY <1>15 DEF PreconnectRefused, reject, ConnsAreHeld
<1>16. ASSUME NEW k \in Conns, PreconnectPoolFull(k) PROVE ConnsAreHeld'
  BY <1>16 DEF PreconnectPoolFull, reject, ConnsAreHeld
<1>17. ASSUME NEW k \in Conns, PreconnectAccepted(k) PROVE ConnsAreHeld'
  BY <1>17 DEF PreconnectAccepted, ConnsAreHeld
<1>18. ASSUME NEW k \in Conns, IdleConnCloses(k) PROVE ConnsAreHeld'
  BY <1>18 DEF IdleConnCloses, ConnsAreHeld
<1>19. ASSUME NEW k \in Conns, NEW c \in Clients, DialMatches(k, c) PROVE ConnsAreHeld'
  BY <1>19 DEF DialMatches, TypeOK, ConnsAreHeld
<1>20. ASSUME NEW k \in Conns, NEW c \in Clients, DialParks(k, c) PROVE ConnsAreHeld'
  BY <1>20 DEF DialParks, TypeOK, ConnsAreHeld
<1>21. ASSUME NEW k \in Conns, NEW c \in Clients, ConnResponds(k, c) PROVE ConnsAreHeld'
  BY <1>21 DEF ConnResponds, ConnsAreHeld
<1>22. ASSUME NEW k \in Conns, NEW c \in Clients, PooledTunnelCloses(k, c) PROVE ConnsAreHeld'
  BY <1>22 DEF PooledTunnelCloses, ConnsAreHeld
<1>23. ASSUME NEW k \in Conns, NEW c \in Clients, TokenTunnelEnds(k, c) PROVE ConnsAreHeld'
  BY <1>23 DEF TokenTunnelEnds, ConnsAreHeld
<1>24. ASSUME NEW k \in Conns, NEW c \in Clients, TokenTunnelResets(k, c) PROVE ConnsAreHeld'
  BY <1>24 DEF TokenTunnelResets, ConnsAreHeld
<1>25. ASSUME UNCHANGED vars PROVE ConnsAreHeld'
  BY <1>25 DEF vars, ConnsAreHeld
<1>. QED
  BY <1>1, <1>2, <1>3, <1>4, <1>5, <1>6, <1>7, <1>8, <1>9, <1>10, <1>11, <1>12, <1>13,
     <1>14, <1>15, <1>16, <1>17, <1>18, <1>19, <1>20, <1>21, <1>22, <1>23, <1>24, <1>25
  DEF Next, ProxyStep

\* Claims, verifications and closes leave one Set with members, the one in the map.
LEMMA PoolHoldsStep == TypeOK /\ ConnsAreHeld /\ PoolHolds /\ [Next]_vars => PoolHolds'
<1> SUFFICES ASSUME TypeOK, ConnsAreHeld, PoolHolds, [Next]_vars PROVE PoolHolds'
  OBVIOUS
<1>1. ASSUME NEW c \in Clients, NEW orderly \in BOOLEAN, ClientCloses(c, orderly)
      PROVE  PoolHolds'
  BY <1>1 DEF ClientCloses, TypeOK, PoolHolds, Usable
<1>2. ASSUME NEW c \in Clients, RejectRequest(c) PROVE PoolHolds'
  BY <1>2 DEF RejectRequest, PoolHolds, Usable
<1>3. ASSUME NEW c \in Clients, AskLookup(c) PROVE PoolHolds'
  BY <1>3 DEF AskLookup, PoolHolds, Usable
<1>4. ASSUME NEW c \in Clients, HubFails(c) PROVE PoolHolds'
  BY <1>4 DEF HubFails, PoolHolds, Usable
<1>5. ASSUME NEW c \in Clients, NEW k \in Conns, ClaimPooled(c, k) PROVE PoolHolds'
  BY <1>5 DEF ClaimPooled, Usable, TypeOK, PoolHolds
<1>6. ASSUME NEW c \in Clients, RegisterToken(c) PROVE PoolHolds'
  BY <1>6 DEF RegisterToken, WaitUnderToken, Usable, TypeOK, PoolHolds
<1>7. ASSUME NEW c \in Clients, RouteUnreadable(c) PROVE PoolHolds'
  BY <1>7 DEF RouteUnreadable, WaitUnderToken, PoolHolds, Usable
<1>8. ASSUME NEW c \in Clients, FallbackOk(c) PROVE PoolHolds'
  BY <1>8 DEF FallbackOk, PoolHolds, Usable
<1>9. ASSUME NEW c \in Clients, HubDispatches(c) PROVE PoolHolds'
  BY <1>9 DEF HubDispatches, PoolHolds, Usable
<1>10. ASSUME NEW c \in Clients, TokenTimeout(c) PROVE PoolHolds'
  BY <1>10 DEF TokenTimeout, PoolHolds, Usable
<1>11. ASSUME NEW c \in Clients, ParkTimeout(c) PROVE PoolHolds'
  BY <1>11 DEF ParkTimeout, PoolHolds, Usable
<1>12. ASSUME NEW k \in Conns, handlePreconnect(k) PROVE PoolHolds'
  BY <1>12 DEF handlePreconnect, Usable, PoolHolds
<1>13. ASSUME NEW k \in Conns, PreconnectMalformed(k) PROVE PoolHolds'
  BY <1>13, RejectKeepsPool DEF PreconnectMalformed
<1>14. ASSUME NEW k \in Conns, ConnDies(k) PROVE PoolHolds'
  BY <1>14 DEF ConnDies, PoolHolds, Usable
<1>15. ASSUME NEW k \in Conns, PreconnectRefused(k) PROVE PoolHolds'
  BY <1>15, RejectKeepsPool DEF PreconnectRefused
<1>16. ASSUME NEW k \in Conns, PreconnectPoolFull(k) PROVE PoolHolds'
  BY <1>16, RejectKeepsPool DEF PreconnectPoolFull
<1>17. ASSUME NEW k \in Conns, PreconnectAccepted(k) PROVE PoolHolds'
  BY <1>17 DEF PreconnectAccepted, TypeOK, PoolHolds, Usable
<1>18. ASSUME NEW k \in Conns, IdleConnCloses(k) PROVE PoolHolds'
  BY <1>18, CloseKeepsPool DEF IdleConnCloses
<1>19. ASSUME NEW k \in Conns, NEW c \in Clients, DialMatches(k, c) PROVE PoolHolds'
  BY <1>19 DEF DialMatches, Usable, PoolHolds
<1>20. ASSUME NEW k \in Conns, NEW c \in Clients, DialParks(k, c) PROVE PoolHolds'
  BY <1>20 DEF DialParks, Usable, PoolHolds
<1>21. ASSUME NEW k \in Conns, NEW c \in Clients, ConnResponds(k, c) PROVE PoolHolds'
  BY <1>21 DEF ConnResponds, PoolHolds, Usable
<1>22. ASSUME NEW k \in Conns, NEW c \in Clients, PooledTunnelCloses(k, c) PROVE PoolHolds'
  BY <1>22, CloseKeepsPool DEF PooledTunnelCloses
<1>23. ASSUME NEW k \in Conns, NEW c \in Clients, TokenTunnelEnds(k, c) PROVE PoolHolds'
  BY <1>23, CloseKeepsPool DEF TokenTunnelEnds
<1>24. ASSUME NEW k \in Conns, NEW c \in Clients, TokenTunnelResets(k, c) PROVE PoolHolds'
  BY <1>24, CloseKeepsPool DEF TokenTunnelResets
<1>25. ASSUME UNCHANGED vars PROVE PoolHolds'
  BY <1>25 DEF vars, PoolHolds, Usable
<1>. QED
  BY <1>1, <1>2, <1>3, <1>4, <1>5, <1>6, <1>7, <1>8, <1>9, <1>10, <1>11, <1>12, <1>13,
     <1>14, <1>15, <1>16, <1>17, <1>18, <1>19, <1>20, <1>21, <1>22, <1>23, <1>24, <1>25
  DEF Next, ProxyStep

\* The check for room and the insertion are one step, so no number of verifications in flight
\* passes the limit.
LEMMA PoolIsBoundedStep == TypeOK /\ PoolIsBounded /\ [Next]_vars => PoolIsBounded'
<1> SUFFICES ASSUME TypeOK, PoolIsBounded, [Next]_vars PROVE PoolIsBounded'
  OBVIOUS
<1>1. ASSUME NEW c \in Clients, NEW orderly \in BOOLEAN, ClientCloses(c, orderly)
      PROVE  PoolIsBounded'
  BY <1>1 DEF ClientCloses, PoolIsBounded
<1>2. ASSUME NEW c \in Clients, RejectRequest(c) PROVE PoolIsBounded'
  BY <1>2 DEF RejectRequest, PoolIsBounded
<1>3. ASSUME NEW c \in Clients, AskLookup(c) PROVE PoolIsBounded'
  BY <1>3 DEF AskLookup, PoolIsBounded
<1>4. ASSUME NEW c \in Clients, HubFails(c) PROVE PoolIsBounded'
  BY <1>4 DEF HubFails, PoolIsBounded
<1>5. ASSUME NEW c \in Clients, NEW k \in Conns, ClaimPooled(c, k) PROVE PoolIsBounded'
  <2>1. \A p \in Pools : members'[p] \subseteq members[p]
    BY <1>5 DEF ClaimPooled
  <2>. QED
    BY <2>1, SubPoolsAreBounded
<1>6. ASSUME NEW c \in Clients, RegisterToken(c) PROVE PoolIsBounded'
  <2>1. \A p \in Pools : members'[p] \subseteq members[p]
    BY <1>6 DEF RegisterToken
  <2>. QED
    BY <2>1, SubPoolsAreBounded
<1>7. ASSUME NEW c \in Clients, RouteUnreadable(c) PROVE PoolIsBounded'
  BY <1>7 DEF RouteUnreadable, PoolIsBounded
<1>8. ASSUME NEW c \in Clients, FallbackOk(c) PROVE PoolIsBounded'
  BY <1>8 DEF FallbackOk, PoolIsBounded
<1>9. ASSUME NEW c \in Clients, HubDispatches(c) PROVE PoolIsBounded'
  BY <1>9 DEF HubDispatches, PoolIsBounded
<1>10. ASSUME NEW c \in Clients, TokenTimeout(c) PROVE PoolIsBounded'
  BY <1>10 DEF TokenTimeout, PoolIsBounded
<1>11. ASSUME NEW c \in Clients, ParkTimeout(c) PROVE PoolIsBounded'
  BY <1>11 DEF ParkTimeout, PoolIsBounded
<1>12. ASSUME NEW k \in Conns, handlePreconnect(k) PROVE PoolIsBounded'
  BY <1>12 DEF handlePreconnect, PoolIsBounded
<1>13. ASSUME NEW k \in Conns, PreconnectMalformed(k) PROVE PoolIsBounded'
  BY <1>13 DEF PreconnectMalformed, reject, PoolIsBounded
<1>14. ASSUME NEW k \in Conns, ConnDies(k) PROVE PoolIsBounded'
  BY <1>14 DEF ConnDies, PoolIsBounded
<1>15. ASSUME NEW k \in Conns, PreconnectRefused(k) PROVE PoolIsBounded'
  BY <1>15 DEF PreconnectRefused, reject, PoolIsBounded
<1>16. ASSUME NEW k \in Conns, PreconnectPoolFull(k) PROVE PoolIsBounded'
  BY <1>16 DEF PreconnectPoolFull, reject, PoolIsBounded
<1>17. ASSUME NEW k \in Conns, PreconnectAccepted(k) PROVE PoolIsBounded'
  BY <1>17, AcceptKeepsBound
<1>18. ASSUME NEW k \in Conns, IdleConnCloses(k) PROVE PoolIsBounded'
  <2>1. \A p \in Pools : members'[p] \subseteq members[p]
    BY <1>18 DEF IdleConnCloses, ConnCloses, LeavePool, TypeOK
  <2>. QED
    BY <2>1, SubPoolsAreBounded
<1>19. ASSUME NEW k \in Conns, NEW c \in Clients, DialMatches(k, c) PROVE PoolIsBounded'
  BY <1>19 DEF DialMatches, PoolIsBounded
<1>20. ASSUME NEW k \in Conns, NEW c \in Clients, DialParks(k, c) PROVE PoolIsBounded'
  BY <1>20 DEF DialParks, PoolIsBounded
<1>21. ASSUME NEW k \in Conns, NEW c \in Clients, ConnResponds(k, c) PROVE PoolIsBounded'
  BY <1>21 DEF ConnResponds, PoolIsBounded
<1>22. ASSUME NEW k \in Conns, NEW c \in Clients, PooledTunnelCloses(k, c)
       PROVE  PoolIsBounded'
  <2>1. \A p \in Pools : members'[p] \subseteq members[p]
    BY <1>22 DEF PooledTunnelCloses, ConnCloses, LeavePool, TypeOK
  <2>. QED
    BY <2>1, SubPoolsAreBounded
<1>23. ASSUME NEW k \in Conns, NEW c \in Clients, TokenTunnelEnds(k, c) PROVE PoolIsBounded'
  <2>1. \A p \in Pools : members'[p] \subseteq members[p]
    BY <1>23 DEF TokenTunnelEnds, ConnCloses, LeavePool, TypeOK
  <2>. QED
    BY <2>1, SubPoolsAreBounded
<1>24. ASSUME NEW k \in Conns, NEW c \in Clients, TokenTunnelResets(k, c) PROVE PoolIsBounded'
  <2>1. \A p \in Pools : members'[p] \subseteq members[p]
    BY <1>24 DEF TokenTunnelResets, ConnCloses, LeavePool, TypeOK
  <2>. QED
    BY <2>1, SubPoolsAreBounded
<1>25. ASSUME UNCHANGED vars PROVE PoolIsBounded'
  BY <1>25 DEF vars, PoolIsBounded
<1>. QED
  BY <1>1, <1>2, <1>3, <1>4, <1>5, <1>6, <1>7, <1>8, <1>9, <1>10, <1>11, <1>12, <1>13,
     <1>14, <1>15, <1>16, <1>17, <1>18, <1>19, <1>20, <1>21, <1>22, <1>23, <1>24, <1>25
  DEF Next, ProxyStep

-----------------------------------------------------------------------------
(* Theorems *)

\* All sockets, tokens and pool Sets keep their types.
THEOREM GatewayTypeCorrect == Spec => []TypeOK
<1>1. Init => TypeOK
  BY DEF Init, TypeOK
<1>. QED
  BY <1>1, TypeStep, PTL DEF Spec

\* The inductive invariant holds of every run.
LEMMA GatewayInvariant == Spec => [](TypeOK /\ GatewayInv)
<1>1. Init => GatewayInv
  <2>1. Init => PoolIsBounded
    BY FS_EmptySet DEF Init, PoolIsBounded
  <2>. QED
    BY <2>1 DEF Init, GatewayInv, RequestInOrder, AnswerHasSource, ConnsAreHeld, PoolHolds
<1>2. TypeOK /\ GatewayInv /\ [Next]_vars => GatewayInv'
  BY RequestInOrderStep, AnswerHasSourceStep, ConnsAreHeldStep, PoolHoldsStep,
     PoolIsBoundedStep
  DEF GatewayInv
<1>. QED
  BY <1>1, <1>2, GatewayTypeCorrect, PTL DEF Spec

\* A conn is never handed to two clients, and while it carries one neither the pool nor
\* the registry leads to it.
THEOREM ConnsAreNotShared == Spec => []TunnelsAreExclusive
<1>1. TypeOK /\ GatewayInv => TunnelsAreExclusive
  BY DEF GatewayInv, ConnsAreHeld, PoolHolds, TunnelsAreExclusive, TypeOK
<1>. QED
  BY <1>1, GatewayInvariant, PTL

\* A socket that the Agent was told is pooled can be claimed for as long as it lives: no
\* close of another socket and no renewal of the pool loses it.
THEOREM PooledConnsAreFound == Spec => []PoolIsReachable
<1>1. TypeOK /\ GatewayInv => PoolIsReachable
  BY DEF GatewayInv, PoolHolds, PoolIsReachable
<1>. QED
  BY <1>1, GatewayInvariant, PTL

\* The limit of sockets per agent holds for any number of verifications in flight.
THEOREM PoolStaysInLimit == Spec => []PoolIsBounded
<1>1. GatewayInv => PoolIsBounded
  BY DEF GatewayInv
<1>. QED
  BY <1>1, GatewayInvariant, PTL

\* A client on a pooled socket never gets an empty response.
THEOREM PooledClientsAreAnswered == Spec => []PooledNeverEmpty
<1>1. GatewayInv => PooledNeverEmpty
  BY DEF GatewayInv, AnswerHasSource, PooledNeverEmpty
<1>. QED
  BY <1>1, GatewayInvariant, PTL

\* Only a failure of the Hub's second answer writes a page into a response that has begun.
THEOREM PagesComeFromHub == Spec => []PageIntoTunnelOnlyByHub
<1>1. GatewayInv => PageIntoTunnelOnlyByHub
  BY DEF GatewayInv, AnswerHasSource, PageIntoTunnelOnlyByHub
<1>. QED
  BY <1>1, GatewayInvariant, PTL

-----------------------------------------------------------------------------
(* Refinement *)

Stages == [k \in Conns |-> Stage(k)]

Open == {c \in Clients : client[c] = "open"}

promised == <<Stages, peer, path, Open, resp>>

\* A 'close' that is emitted changes nothing for the clients: the conn was dying before.
LEMMA CloseKeepsStages ==
  ASSUME TypeOK, NEW k \in Conns, ConnCloses(k), UNCHANGED conn
  PROVE  UNCHANGED Stages
BY DEF TypeOK, ConnCloses, Stages, Stage, Usable

\* A conn that goes on to another stage, while nobody else does.
LEMMA StageMoves ==
  ASSUME TypeOK, NEW k \in Conns, NEW s, Stage(k)' = s,
         \A d \in Conns \ {k} : conn'[d] = conn[d] /\ wire'[d] = wire[d]
  PROVE  Stages' = [Stages EXCEPT ![k] = s]
BY DEF Stages, Stage, Usable

\* An error page is the whole answer, or it breaks an answer that a dialled conn has begun.
LEMMA EndWithPageImplements ==
  ASSUME TypeOK, AnswerHasSource, NEW c \in Clients, EndWithPage(c),
         resp[c] = "bytes" => path[c] = "token",
         UNCHANGED <<Stages, peer, path>>
  PROVE  Pairing!Page(c) \/ Pairing!Break(c) \/ UNCHANGED promised
<1>1. CASE client[c] = "open" /\ resp[c] = "none"
  BY <1>1
  DEF TypeOK, EndWithPage, promised, Stages, Open, Pairing!Page, Pairing!Receives, Pairing!Over
<1>2. CASE client[c] = "open" /\ resp[c] = "bytes"
  BY <1>2
  DEF TypeOK, EndWithPage, promised, Stages, Open, Pairing!Break, Pairing!Receives, Pairing!Over
<1>3. CASE client[c] # "open"
  BY <1>3 DEF EndWithPage, promised, Open
<1>. QED
  BY <1>1, <1>2, <1>3 DEF AnswerHasSource

\* The end of a tunnel ends the answer as it stands.
LEMMA EndSilentlyImplements ==
  ASSUME TypeOK, AnswerHasSource, NEW c \in Clients, EndSilently(c),
         peer[c] # NoConn, resp[c] # "none" \/ path[c] = "token",
         UNCHANGED <<Stages, peer, path>>
  PROVE  Pairing!End(c) \/ UNCHANGED promised
<1>1. CASE client[c] = "open"
  <2>1. resp[c] \in {"none", "bytes"}
    BY <1>1 DEF AnswerHasSource
  <2>2. Open' = Open \ {c} /\ c \in Open
    BY <1>1 DEF EndSilently, TypeOK, Open
  <2>3. resp' = [resp EXCEPT ![c] = IF resp[c] = "none" THEN "empty" ELSE resp[c]]
    BY <1>1 DEF EndSilently
  <2>. QED
    BY <2>1, <2>2, <2>3 DEF promised, Stages, Open, Pairing!End, Pairing!Receives, Pairing!Over
<1>2. CASE client[c] # "open"
  BY <1>2 DEF EndSilently, promised, Open
<1>. QED
  BY <1>1, <1>2

\* TunnelPairing counts with a FiniteSets of its own, which is the same.
LEMMA SameCardinality == \A S : Pairing!Cardinality(S) = Cardinality(S)
BY DEF Pairing!Cardinality, Cardinality

\* There is room for the conn among the idle ones: they are all in the Set it joins.
LEMMA AcceptanceOffers ==
  ASSUME TypeOK, PoolHolds, NEW k \in Conns, PreconnectAccepted(k), Usable(k)
  PROVE  Pairing!Offer(k)
<1>1. PICK p \in Pools :
        /\ HasRoom(members[p])
        /\ IF pool # NoPool THEN p = pool ELSE members[p] = {}
  BY DEF PreconnectAccepted
<1>2. Pairing!Idle \subseteq members[p]
  BY <1>1 DEF PoolHolds, Stage, Pairing!Idle
<1>3. IsFiniteSet(members[p])
  BY FS_Subset DEF TypeOK
<1>4. /\ Cardinality(Pairing!Idle) \in Nat /\ Cardinality(members[p]) \in Nat
      /\ Cardinality(Pairing!Idle) <= Cardinality(members[p])
  BY <1>2, <1>3, FS_Subset, FS_CardinalityType
<1>5. Cardinality(Pairing!Idle) < MaxPool
  BY <1>1, <1>4 DEF HasRoom
<1>6. Stages' = [Stages EXCEPT ![k] = "idle"] /\ Stage(k) = "fresh"
  <2>1. Stage(k)' = "idle" /\ Stage(k) = "fresh"
    BY DEF TypeOK, PreconnectAccepted, Stage, Usable
  <2>2. \A d \in Conns \ {k} : conn'[d] = conn[d] /\ wire'[d] = wire[d]
    BY DEF TypeOK, PreconnectAccepted
  <2>. QED
    BY <2>1, <2>2, StageMoves
<1>7. UNCHANGED <<peer, path, Open, resp>>
  BY DEF PreconnectAccepted, clientVars, Open
<1>. QED
  BY <1>5, <1>6, <1>7, SameCardinality DEF Stages, Open, Pairing!Offer

\* Every action of the gateway is a step of TunnelPairing or leaves what it speaks of alone.
LEMMA StepImplements == TypeOK /\ GatewayInv /\ [Next]_vars => [Pairing!Next]_promised
<1> SUFFICES ASSUME TypeOK, GatewayInv, [Next]_vars PROVE Pairing!Next \/ UNCHANGED promised
  OBVIOUS
<1>inv. RequestInOrder /\ AnswerHasSource /\ ConnsAreHeld /\ PoolHolds
  BY DEF GatewayInv
<1>same. ASSUME UNCHANGED <<conn, wire>> PROVE UNCHANGED Stages
  BY <1>same DEF Stages, Stage, Usable
<1>1. ASSUME NEW c \in Clients, NEW orderly \in BOOLEAN, ClientCloses(c, orderly)
      PROVE  Pairing!Leave(c) \/ UNCHANGED promised
  <2>1. UNCHANGED Stages
    BY <1>1, <1>inv DEF TypeOK, ConnsAreHeld, ClientCloses, Stages, Stage, Usable
  <2>2. Open' = Open \ {c}
    BY <1>1 DEF TypeOK, ClientCloses, Open
  <2>3. UNCHANGED <<peer, path, resp>> /\ resp' = [resp EXCEPT ![c] = resp[c]]
    BY <1>1 DEF TypeOK, ClientCloses
  <2>. QED
    BY <2>1, <2>2, <2>3
    DEF promised, Stages, Open, Pairing!Leave, Pairing!Receives, Pairing!Over
<1>2. ASSUME NEW c \in Clients, RejectRequest(c) \/ HubFails(c) \/ TokenTimeout(c)
      PROVE  Pairing!Page(c) \/ Pairing!Break(c) \/ UNCHANGED promised
  <2>1. EndWithPage(c) /\ UNCHANGED <<peer, path, conn, wire>>
    BY <1>2 DEF RejectRequest, HubFails, TokenTimeout, connVars
  <2>2. resp[c] = "bytes" => path[c] = "token"
    BY <1>2, <1>inv
    DEF RejectRequest, HubFails, TokenTimeout, RequestInOrder, AnswerHasSource, TypeOK
  <2>. QED
    BY <1>inv, <1>same, <2>1, <2>2, EndWithPageImplements
<1>3. ASSUME NEW c \in Clients, NEW k \in Conns, ClaimPooled(c, k) PROVE Pairing!Claim(c, k)
  <2>1. Stage(k) = "idle" /\ Stage(k)' = "given"
    BY <1>3, <1>inv DEF ClaimPooled, PoolHolds, TypeOK, Stage
  <2>2. Stages' = [Stages EXCEPT ![k] = "given"]
    BY <1>3, <2>1, StageMoves DEF ClaimPooled, TypeOK
  <2>3. peer[c] = NoConn /\ resp[c] = "none"
    BY <1>3, <1>inv DEF ClaimPooled, RequestInOrder, AnswerHasSource
  <2>. QED
    BY <1>3, <2>1, <2>2, <2>3 DEF ClaimPooled, Stages, Open, Pairing!Claim, Pairing!Give
<1>4. ASSUME NEW k \in Conns, NEW c \in Clients, DialMatches(k, c) PROVE Pairing!Dial(c, k)
  <2>1. Stage(k) = "fresh" /\ Stage(k)' = "given"
    BY <1>4 DEF DialMatches, TypeOK, Stage
  <2>2. Stages' = [Stages EXCEPT ![k] = "given"]
    BY <1>4, <2>1, StageMoves DEF DialMatches, TypeOK
  <2>3. peer[c] = NoConn
    BY <1>4, <1>inv DEF DialMatches, RequestInOrder
  <2>. QED
    BY <1>4, <2>1, <2>2, <2>3 DEF DialMatches, Stages, Open, Pairing!Dial, Pairing!Give
<1>5. ASSUME NEW k \in Conns, NEW c \in Clients, DialParks(k, c) PROVE Pairing!Lose(k)
  <2>1. Stage(k) = "fresh" /\ Stage(k)' = "gone"
    BY <1>5 DEF DialParks, TypeOK, Stage
  <2>2. Stages' = [Stages EXCEPT ![k] = "gone"]
    BY <1>5, <2>1, StageMoves DEF DialParks, TypeOK
  <2>. QED
    BY <1>5, <2>1, <2>2 DEF DialParks, Stages, Open, Pairing!Lose
<1>6. ASSUME NEW k \in Conns,
             PreconnectMalformed(k) \/ PreconnectRefused(k) \/ PreconnectPoolFull(k)
      PROVE  Pairing!Lose(k)
  <2>1. reject(k) /\ conn[k] \in {"new", "verifying"}
    BY <1>6 DEF PreconnectMalformed, PreconnectRefused, PreconnectPoolFull
  <2>2. Stage(k) = "fresh" /\ Stage(k)' = "gone"
    BY <2>1 DEF reject, TypeOK, Stage
  <2>3. Stages' = [Stages EXCEPT ![k] = "gone"]
    BY <2>1, <2>2, StageMoves DEF reject, TypeOK
  <2>. QED
    BY <2>1, <2>2, <2>3 DEF reject, clientVars, Stages, Open, Pairing!Lose
<1>7. ASSUME NEW k \in Conns, handlePreconnect(k) PROVE UNCHANGED promised
  BY <1>7 DEF handlePreconnect, clientVars, TypeOK, promised, Stages, Stage, Usable, Open
<1>8. ASSUME NEW k \in Conns, PreconnectAccepted(k) PROVE Pairing!Offer(k) \/ Pairing!Lose(k)
  <2>1. CASE Usable(k)
    BY <1>8, <2>1, <1>inv, AcceptanceOffers
  <2>2. CASE ~Usable(k)
    <3>1. Stage(k) = "fresh" /\ Stage(k)' = "gone"
      BY <1>8, <2>2 DEF PreconnectAccepted, TypeOK, Stage, Usable
    <3>2. Stages' = [Stages EXCEPT ![k] = "gone"]
      BY <1>8, <3>1, StageMoves DEF PreconnectAccepted, TypeOK
    <3>. QED
      BY <1>8, <3>1, <3>2 DEF PreconnectAccepted, clientVars, Stages, Open, Pairing!Lose
  <2>. QED
    BY <2>1, <2>2
<1>9. ASSUME NEW k \in Conns, ConnDies(k) PROVE Pairing!Lose(k) \/ UNCHANGED promised
  <2>1. CASE conn[k] = "pooled"
    <3>1. Stage(k) = "idle" /\ Stage(k)' = "gone"
      BY <1>9, <2>1 DEF ConnDies, TypeOK, Stage, Usable
    <3>2. Stages' = [Stages EXCEPT ![k] = "gone"]
      BY <1>9, <3>1, StageMoves DEF ConnDies, TypeOK
    <3>. QED
      BY <1>9, <3>1, <3>2 DEF ConnDies, clientVars, Stages, Open, Pairing!Lose
  <2>2. CASE conn[k] # "pooled"
    BY <1>9, <2>2 DEF ConnDies, clientVars, TypeOK, promised, Stages, Stage, Usable, Open
  <2>. QED
    BY <2>1, <2>2
<1>10. ASSUME NEW k \in Conns, NEW c \in Clients, ConnResponds(k, c) PROVE Pairing!Bytes(c)
  <2>1. UNCHANGED Stages
    BY <1>10, <1>same DEF ConnResponds, connVars
  <2>. QED
    BY <1>10, <2>1 DEF ConnResponds, Stages, Open, Pairing!Bytes, Pairing!Receives
<1>11. ASSUME NEW k \in Conns, IdleConnCloses(k) PROVE UNCHANGED promised
  BY <1>11, CloseKeepsStages DEF IdleConnCloses, promised, Open
<1>12. ASSUME NEW k \in Conns, NEW c \in Clients, PooledTunnelCloses(k, c)
       PROVE  Pairing!Page(c) \/ Pairing!Break(c) \/ Pairing!End(c) \/ UNCHANGED promised
  <2>1. UNCHANGED <<Stages, peer, path>>
    BY <1>12, CloseKeepsStages DEF PooledTunnelCloses
  <2>2. peer[c] # NoConn
    BY <1>12 DEF PooledTunnelCloses
  <2>3. CASE resp[c] = "none"
    BY <1>12, <1>inv, <2>1, <2>3, EndWithPageImplements DEF PooledTunnelCloses
  <2>4. CASE resp[c] # "none"
    BY <1>12, <1>inv, <2>1, <2>2, <2>4, EndSilentlyImplements DEF PooledTunnelCloses
  <2>. QED
    BY <2>3, <2>4
<1>13. ASSUME NEW k \in Conns, NEW c \in Clients, TokenTunnelEnds(k, c)
       PROVE  Pairing!End(c) \/ UNCHANGED promised
  <2>1. UNCHANGED <<Stages, peer, path>>
    BY <1>13, CloseKeepsStages DEF TokenTunnelEnds
  <2>. QED
    BY <1>13, <1>inv, <2>1, EndSilentlyImplements DEF TokenTunnelEnds
<1>14. ASSUME NEW k \in Conns, NEW c \in Clients, TokenTunnelResets(k, c) PROVE UNCHANGED promised
  BY <1>14, CloseKeepsStages DEF TokenTunnelResets, clientVars, promised, Open
<1>15. ASSUME NEW c \in Clients,
              \/ AskLookup(c) \/ HubDispatches(c) \/ FallbackOk(c) \/ ParkTimeout(c)
              \/ RegisterToken(c) \/ RouteUnreadable(c)
       PROVE  UNCHANGED promised
  <2>1. UNCHANGED <<client, peer, path, resp, conn, wire>>
    BY <1>15 DEF AskLookup, HubDispatches, FallbackOk, ParkTimeout, RegisterToken, RouteUnreadable,
                 WaitUnderToken, connVars
  <2>. QED
    BY <1>same, <2>1 DEF promised, Open
<1>16. ASSUME UNCHANGED vars PROVE UNCHANGED promised
  BY <1>16, <1>same DEF vars, promised, Open
<1>. QED
  BY <1>1, <1>2, <1>3, <1>4, <1>5, <1>6, <1>7, <1>8, <1>9, <1>10, <1>11, <1>12, <1>13, <1>14,
     <1>15, <1>16
  DEF Next, ProxyStep, Pairing!Next

\* The gateway implements TunnelPairing for any number of clients, conns and Sets: each conn
\* is given to one client at most, and each client reads one answer, which on a pooled conn
\* is neither empty nor broken.
THEOREM GatewayPairs == Spec => PairingIsImplemented
<1>1. Init => Pairing!Init
  BY DEF Init, Stage, Pairing!Init
<1>2. TypeOK /\ GatewayInv /\ [Next]_vars => [Pairing!Next]_(Pairing!pairing)
  BY StepImplements DEF promised, Stages, Open, Pairing!pairing
<1>. QED
  BY <1>1, <1>2, GatewayInvariant, PTL DEF Spec, PairingIsImplemented, Pairing!Spec

=============================================================================
