--------------------------- MODULE TunnelPairing ---------------------------
(***************************************************************************)
(* What the gateway promises, without tokens, timers, pools and questions  *)
(* to the Hub.  A conn of the Agent is given to one client at most, for    *)
(* good; a client gets one at most.  A client with a pooled conn reads     *)
(* the Agent's bytes or the error page, never nothing and never both.      *)
(***************************************************************************)
EXTENDS Naturals, FiniteSets

CONSTANTS Clients, Conns, Limit, NoConn

VARIABLES
    stage,          \* per conn: "fresh", "idle" (it waits for a client), "given" or "gone"
    tunnel,         \* per client, the conn it was given
    by,             \* how it came to it: "none", "pooled", "token"
    listening,      \* the clients whose answer is not over
    received        \* per client: "none", "page", "bytes", "empty" or "mixed"

pairing == <<stage, tunnel, by, listening, received>>

Init ==
    /\ stage = [k \in Conns |-> "fresh"]
    /\ tunnel = [c \in Clients |-> NoConn]
    /\ by = [c \in Clients |-> "none"]
    /\ listening = Clients
    /\ received = [c \in Clients |-> "none"]

Idle == {k \in Conns : stage[k] = "idle"}

\* A conn is kept for the next client, as long as there is room.
Offer(k) ==
    /\ stage[k] = "fresh"
    /\ Cardinality(Idle) < Limit
    /\ stage' = [stage EXCEPT ![k] = "idle"]
    /\ UNCHANGED <<tunnel, by, listening, received>>

\* No client will get this conn any more.
Lose(k) ==
    /\ stage[k] \in {"fresh", "idle"}
    /\ stage' = [stage EXCEPT ![k] = "gone"]
    /\ UNCHANGED <<tunnel, by, listening, received>>

Give(c, k, how) ==
    /\ tunnel[c] = NoConn
    /\ stage' = [stage EXCEPT ![k] = "given"]
    /\ tunnel' = [tunnel EXCEPT ![c] = k]
    /\ by' = [by EXCEPT ![c] = how]
    /\ UNCHANGED <<listening, received>>

\* Only a client that has read nothing gets an idle conn.
Claim(c, k) == stage[k] = "idle" /\ received[c] = "none" /\ Give(c, k, "pooled")

\* A conn the Agent opened for this client.
Dial(c, k) == stage[k] = "fresh" /\ Give(c, k, "token")

Receives(c, what) ==
    /\ c \in listening
    /\ received' = [received EXCEPT ![c] = what]
    /\ UNCHANGED <<stage, tunnel, by>>

\* The Agent's answer begins.
Bytes(c) ==
    /\ tunnel[c] # NoConn /\ received[c] = "none"
    /\ Receives(c, "bytes")
    /\ UNCHANGED listening

Over(c) == listening' = listening \ {c}

Page(c) == received[c] = "none" /\ Receives(c, "page") /\ Over(c)

\* The answer ends as the Agent left it, which a conn of its own may do before it begins.
End(c) ==
    /\ tunnel[c] # NoConn
    /\ received[c] = "bytes" \/ by[c] = "token"
    /\ Receives(c, IF received[c] = "none" THEN "empty" ELSE received[c])
    /\ Over(c)

\* A page after the Agent's first bytes.
Break(c) == by[c] = "token" /\ received[c] = "bytes" /\ Receives(c, "mixed") /\ Over(c)

Leave(c) == Receives(c, received[c]) /\ Over(c)

Next ==
    \/ \E k \in Conns : Offer(k) \/ Lose(k)
    \/ \E c \in Clients :
          \/ Bytes(c) \/ Page(c) \/ End(c) \/ Break(c) \/ Leave(c)
          \/ \E k \in Conns : Claim(c, k) \/ Dial(c, k)

Spec == Init /\ [][Next]_pairing

=============================================================================
