---------------------------- MODULE AgentSecret ----------------------------
(***************************************************************************)
(* How one Agent comes by its signing secret: the register handlers of its *)
(* successive connections, the rows of agents they find or make, and what  *)
(* the Agent itself has stored.  A handler goes on when its connection is  *)
(* gone; its answer then reaches nobody.                                   *)
(***************************************************************************)
EXTENDS Naturals

CONSTANTS
    Uuids, Keys,     \* rows and secrets that may come to exist
    Registers,          \* register handlers in flight at the same time
    NoUuid, NoKey, NoRegister

ASSUME SecretConstants ==
    /\ NoUuid \notin Uuids /\ NoKey \notin Keys /\ NoRegister \notin Registers
    /\ "none" \notin Keys \cup {NoKey}      \* in rows it says that there is no row

VARIABLES
    rows,           \* the rows of agents: "none", or agent_signing_secret
    agent,          \* external: the uuid and the secret the Agent has stored
    current,        \* the handler of the Agent's present connection
    registers,      \* the handlers: what the packet claimed, what they issued
    attached,       \* client.data.signingSecret of the present connection
    issued,         \* history: secrets that have been made
    unheard         \* history: secrets whose handler had lost its connection, or failed

secretVars == <<rows, agent, current, registers, attached, issued, unheard>>

AnyUuid == Uuids \cup {NoUuid}
AnyKey == Keys \cup {NoKey}

Register == [pc: {"idle", "known", "find", "update", "attach", "reply"}, uuid: AnyUuid,
             sig: AnyKey, secret: AnyKey]

NoRegistration == [pc |-> "idle", uuid |-> NoUuid, sig |-> NoKey, secret |-> NoKey]

SecretTypeOK ==
    /\ rows \in [Uuids -> AnyKey \cup {"none"}]
    /\ agent \in [uuid: AnyUuid, secret: AnyKey]
    /\ current \in Registers \cup {NoRegister}
    /\ registers \in [Registers -> Register]
    /\ attached \in AnyKey
    /\ issued \in SUBSET Keys
    /\ unheard \in SUBSET issued

\* A new Agent knows nothing; one from before the signatures has a row without a secret.
SecretInit ==
    /\ \/ agent = [uuid |-> NoUuid, secret |-> NoKey] /\ rows = [u \in Uuids |-> "none"]
       \/ \E u \in Uuids : /\ agent = [uuid |-> u, secret |-> NoKey]
                           /\ rows = [v \in Uuids |-> IF v = u THEN NoKey ELSE "none"]
    /\ current = NoRegister
    /\ registers = [r \in Registers |-> NoRegistration]
    /\ attached = NoKey
    /\ issued = {} /\ unheard = {}

-----------------------------------------------------------------------------
(* The handler of 'register', from one query to the next *)

At(r, pc) == registers[r].pc = pc

Stored(u) == IF u = NoUuid THEN "none" ELSE rows[u]

\* The Agent connects and sends register, signed with its secret if it has one.  What an
\* earlier connection was still to be told is lost with it.
SendRegister(r) ==
    /\ At(r, "idle")
    /\ current' = r
    /\ registers' = [registers EXCEPT ![r] = [pc |-> "known", uuid |-> agent.uuid,
                                              sig |-> agent.secret, secret |-> NoKey]]
    /\ attached' = NoKey
    /\ UNCHANGED <<rows, agent, issued, unheard>>

\* getSigningSecret and verify: whoever has a secret must have signed with it.
CheckSignature(r) ==
    /\ At(r, "known")
    /\ LET known == Stored(registers[r].uuid)
           proved == known \in {"none", NoKey, registers[r].sig} IN
          /\ registers' = [registers EXCEPT ![r] = IF proved THEN [@ EXCEPT !.pc = "find"] ELSE NoRegistration]
          /\ current' = IF current = r /\ ~proved THEN NoRegister ELSE current
    /\ UNCHANGED <<rows, agent, attached, issued, unheard>>

\* registerAgent of a uuid that has a row: a secret is made when the row has none.
FindAgent(r) ==
    /\ At(r, "find")
    /\ Stored(registers[r].uuid) # "none"
    /\ IF rows[registers[r].uuid] = NoKey
          THEN \E s \in Keys \ issued :
                  /\ issued' = issued \cup {s}
                  /\ registers' = [registers EXCEPT ![r] = [@ EXCEPT !.pc = "update", !.secret = s]]
          ELSE /\ registers' = [registers EXCEPT ![r].pc = "update"]
               /\ UNCHANGED issued
    /\ UNCHANGED <<rows, agent, current, attached, unheard>>

UpdateAgent(r) ==
    /\ At(r, "update")
    /\ rows' = IF registers[r].secret = NoKey THEN rows
               ELSE [rows EXCEPT ![registers[r].uuid] = registers[r].secret]
    /\ registers' = [registers EXCEPT ![r].pc = "attach"]
    /\ UNCHANGED <<agent, current, attached, issued, unheard>>

\* registerAgent of an unknown uuid, or of none: a new row, with the secret in it.
CreateAgent(r) ==
    /\ At(r, "find")
    /\ Stored(registers[r].uuid) = "none"
    /\ \E u \in Uuids, s \in Keys \ issued :
          /\ rows[u] = "none"
          /\ rows' = [rows EXCEPT ![u] = s]
          /\ issued' = issued \cup {s}
          /\ registers' = [registers EXCEPT ![r] = [@ EXCEPT !.pc = "attach", !.uuid = u, !.secret = s]]
    /\ UNCHANGED <<agent, current, attached, unheard>>

\* Mutant: the secret the handler made goes into the row and not into the answer.
AttachKeepsSecret(r) ==
    /\ At(r, "attach")
    /\ attached' = IF current = r THEN rows[registers[r].uuid] ELSE attached
    /\ registers' = [registers EXCEPT ![r] = [@ EXCEPT !.pc = "reply", !.secret = NoKey]]
    /\ UNCHANGED <<rows, agent, current, issued, unheard>>

\* client.data.signingSecret: the one just made, or what the row holds by now.
AttachSecret(r) ==
    /\ At(r, "attach")
    /\ LET own == registers[r].secret IN
          attached' = IF current # r THEN attached
                      ELSE IF own = NoKey THEN rows[registers[r].uuid] ELSE own
    /\ registers' = [registers EXCEPT ![r].pc = "reply"]
    /\ UNCHANGED <<rows, agent, current, issued, unheard>>

\* The answer: the Agent stores uuid and secret, and keeps its secret when none is sent.
RegisterReply(r) ==
    /\ At(r, "reply")
    /\ registers' = [registers EXCEPT ![r] = NoRegistration]
    /\ LET own == registers[r].secret IN
          IF current = r
          THEN /\ agent' = [uuid |-> registers[r].uuid,
                            secret |-> IF own = NoKey THEN agent.secret ELSE own]
               /\ UNCHANGED unheard
          ELSE /\ unheard' = IF own = NoKey THEN unheard ELSE unheard \cup {own}
               /\ UNCHANGED agent
    /\ UNCHANGED <<rows, current, attached, issued>>

\* A query is refused, or is done and its answer lost, or the Hub stops: the handler ends and
\* what it made is told to nobody.  Unless it has come to the answer, its socket holds no
\* secret and counts as none.
RegisterFails(r) ==
    /\ ~At(r, "idle")
    /\ registers' = [registers EXCEPT ![r] = NoRegistration]
    /\ current' = IF current = r /\ ~At(r, "reply") THEN NoRegister ELSE current
    /\ LET own == registers[r].secret IN
          unheard' = IF own = NoKey THEN unheard ELSE unheard \cup {own}
    /\ UNCHANGED <<rows, agent, attached, issued>>

ConnectionLost ==
    /\ current # NoRegister
    /\ current' = NoRegister
    /\ attached' = NoKey
    /\ UNCHANGED <<rows, agent, registers, issued, unheard>>

SecretNext ==
    \/ ConnectionLost
    \/ \E r \in Registers :
          \/ SendRegister(r) \/ CheckSignature(r) \/ FindAgent(r) \/ UpdateAgent(r)
          \/ CreateAgent(r) \/ AttachSecret(r) \/ RegisterReply(r) \/ RegisterFails(r)

SecretSpec == SecretInit /\ [][SecretNext]_secretVars

-----------------------------------------------------------------------------
(* Properties *)

\* The Agent cannot prove that it is the agent of its row.
LockedOut == Stored(agent.uuid) \notin {"none", NoKey, agent.secret}

\* The secret is about to be sent, or the handler that made it failed or had lost its
\* connection.
Excused(s) == s \in unheard \/ \E r \in Registers : registers[r].secret = s

\* registerAgent gives a secret to an agent that has none and never takes one away: the
\* row, and a socket that has registered, hold the secret that the Agent has stored, or
\* one that the Agent is still to be told or could not be told.
SecretReachesAgent ==
    /\ LockedOut => Excused(rows[agent.uuid])
    /\ current # NoRegister /\ At(current, "idle") /\ attached # agent.secret => Excused(attached)

=============================================================================
