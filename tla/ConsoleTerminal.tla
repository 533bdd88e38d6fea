-------------------------- MODULE ConsoleTerminal --------------------------
(***************************************************************************)
(* ConsoleGateway: the terminal sessions and metric requests that tie a    *)
(* console's socket to an Agent, and the one-time tokens that open a       *)
(* terminal.  A handler that awaits the database goes on after the         *)
(* console, the Agent or another handler has moved.  What a console or an  *)
(* Agent says in an open session is passed on and changes nothing here.    *)
(***************************************************************************)
EXTENDS Naturals

CONSTANTS
    Consoles,       \* console sockets
    Agents,
    Ids,            \* randomUUID: sessions and metric requests that may come to exist
    Passes,         \* terminal tokens (jti) that may be minted
    Opens,          \* terminal-open and agent-metrics-request handlers at the same time
    NoConsole, NoAgent, NoPass

ASSUME TerminalConstants ==
    NoConsole \notin Consoles /\ NoAgent \notin Agents /\ NoPass \notin Passes

VARIABLES
    consoles,       \* console sockets: "new", "open" (authenticated) or "gone"
    link,           \* per Agent: "up" while agentUuidToSocketId has it, "cut" after
                    \* disconnectAgent until its socket closes, or "down"
    linked,         \* Agents whose row is linked to the user's workspace
    terminals,      \* terminalSessions
    metrics,        \* metricRequests; every one has a timer
    minted,         \* per token, its Agent
    consumed,       \* consumedTerminalTokens
    expired,        \* tokens whose time is over
    opens,          \* the suspended handlers
    unattended,     \* history: sessions a handler opened for a console that had gone
    severed         \* history: sessions whose Agent disconnectAgent has cut off

terminalVars == <<consoles, link, linked, terminals, metrics, minted, consumed, expired, opens,
                  unattended, severed>>
tokenVars == <<minted, consumed, expired>>

Entry == [console: Consoles \cup {NoConsole}, agent: Agents \cup {NoAgent}]
NoEntry == [console |-> NoConsole, agent |-> NoAgent]

Open == [pc: {"idle", "access", "open", "metric", "measure"}, console: Consoles \cup {NoConsole},
         agent: Agents \cup {NoAgent}, pass: Passes \cup {NoPass}]
NoOpen == [pc |-> "idle", console |-> NoConsole, agent |-> NoAgent, pass |-> NoPass]

TerminalTypeOK ==
    /\ consoles \in [Consoles -> {"new", "open", "gone"}]
    /\ link \in [Agents -> {"up", "cut", "down"}]
    /\ linked \in SUBSET Agents
    /\ terminals \in [Ids -> Entry] /\ metrics \in [Ids -> Entry]
    /\ minted \in [Passes -> Agents \cup {NoAgent}]
    /\ consumed \in SUBSET Passes /\ expired \in SUBSET Passes
    /\ opens \in [Opens -> Open]
    /\ unattended \in SUBSET Ids /\ severed \in SUBSET Ids

TerminalInit ==
    /\ consoles = [c \in Consoles |-> "new"]
    /\ link = [a \in Agents |-> "up"]
    /\ linked = Agents
    /\ terminals = [i \in Ids |-> NoEntry] /\ metrics = [i \in Ids |-> NoEntry]
    /\ minted = [p \in Passes |-> NoAgent]
    /\ consumed = {} /\ expired = {}
    /\ opens = [o \in Opens |-> NoOpen]
    /\ unattended = {} /\ severed = {}

-----------------------------------------------------------------------------
(* Helpers *)

\* The table without the entries of a console, or of an Agent.
Without(table, Gone(_)) == [i \in Ids |-> IF Gone(table[i]) THEN NoEntry ELSE table[i]]

Removes(ids) ==
    /\ unattended' = unattended \ ids
    /\ severed' = severed \ ids

Free(i) == terminals[i] = NoEntry /\ metrics[i] = NoEntry

canAccessAgent(a) == a \in linked

Returns(o) == opens' = [opens EXCEPT ![o] = NoOpen]

-----------------------------------------------------------------------------
(* The console's socket *)

\* The access token of the cookie was verified.
ConsoleConnects(c) ==
    /\ consoles[c] = "new"
    /\ consoles' = [consoles EXCEPT ![c] = "open"]
    /\ UNCHANGED <<link, linked, terminals, metrics, opens, unattended, severed, tokenVars>>

\* handleDisconnect.  Handlers of this console that are suspended go on.
ConsoleDisconnects(c) ==
    /\ consoles[c] = "open"
    /\ consoles' = [consoles EXCEPT ![c] = "gone"]
    /\ terminals' = Without(terminals, LAMBDA e : e.console = c)
    /\ metrics' = Without(metrics, LAMBDA e : e.console = c)
    /\ Removes({i \in Ids : terminals[i].console = c})
    /\ UNCHANGED <<link, linked, opens, tokenVars>>

-----------------------------------------------------------------------------
(* terminal-open *)

\* mintPurposeToken, after TwoFactorGuard.
mintPurposeToken(p, a) ==
    /\ minted[p] = NoAgent
    /\ canAccessAgent(a)
    /\ minted' = [minted EXCEPT ![p] = a]
    /\ UNCHANGED <<consoles, link, linked, terminals, metrics, consumed, expired, opens,
                   unattended, severed>>

\* The token is valid, of this user, and not consumed; then the database is asked.
handleTerminalOpen(o, c, p) ==
    /\ opens[o] = NoOpen
    /\ consoles[c] = "open"
    /\ minted[p] # NoAgent /\ p \notin expired
    /\ p \notin consumed
    /\ opens' = [opens EXCEPT ![o] = [pc |-> "access", console |-> c, agent |-> minted[p], pass |-> p]]
    /\ UNCHANGED <<consoles, link, linked, terminals, metrics, unattended, severed, tokenVars>>

OpenReads(o) ==
    /\ opens[o].pc \in {"access", "metric"}
    /\ IF canAccessAgent(opens[o].agent)
       THEN opens' = [opens EXCEPT ![o].pc = IF @ = "access" THEN "open" ELSE "measure"]
       ELSE Returns(o)
    /\ UNCHANGED <<consoles, link, linked, terminals, metrics, unattended, severed, tokenVars>>

\* The token is consumed until it expires; an Agent that cannot be reached gets no session.
OpenTerminal(o, i) ==
    LET h == opens[o] IN
    /\ h.pc = "open"
    /\ Free(i)
    /\ consumed' = consumed \cup {h.pass}
    /\ IF link[h.agent] = "up"
       THEN /\ terminals' = [terminals EXCEPT ![i] = [console |-> h.console, agent |-> h.agent]]
            /\ unattended' = IF consoles[h.console] = "gone" THEN unattended \cup {i} ELSE unattended
       ELSE UNCHANGED <<terminals, unattended>>
    /\ Returns(o)
    /\ UNCHANGED <<consoles, link, linked, metrics, severed, minted, expired>>

\* The token runs out, and the timer forgets that it was consumed.
PassExpires(p) ==
    /\ minted[p] # NoAgent
    /\ expired' = expired \cup {p}
    /\ consumed' = consumed \ {p}
    /\ UNCHANGED <<consoles, link, linked, terminals, metrics, minted, opens, unattended, severed>>

-----------------------------------------------------------------------------
(* The end of a session *)

ownedTerminalSession(c, i) == terminals[i].console = c

agentTerminalSession(a, i) == terminals[i].agent = a

TerminalGoes(i) ==
    /\ terminals' = [terminals EXCEPT ![i] = NoEntry]
    /\ Removes({i})
    /\ UNCHANGED <<consoles, link, linked, metrics, opens, tokenVars>>

\* terminal-close, from the console that has the session.
handleTerminalClose(c, i) ==
    /\ consoles[c] = "open"
    /\ ownedTerminalSession(c, i)
    /\ TerminalGoes(i)

\* terminal-closed, from its Agent.
forwardTerminalClosed(a, i) ==
    /\ link[a] # "down"
    /\ agentTerminalSession(a, i)
    /\ TerminalGoes(i)

-----------------------------------------------------------------------------
(* agent-metrics-request *)

handleAgentMetricsRequest(o, c, a) ==
    /\ opens[o] = NoOpen
    /\ consoles[c] = "open"
    /\ opens' = [opens EXCEPT ![o] = [NoOpen EXCEPT !.pc = "metric", !.console = c, !.agent = a]]
    /\ UNCHANGED <<consoles, link, linked, terminals, metrics, unattended, severed, tokenVars>>

RequestMetrics(o, i) ==
    LET h == opens[o] IN
    /\ h.pc = "measure"
    /\ Free(i)
    /\ metrics' = IF link[h.agent] = "up"
                  THEN [metrics EXCEPT ![i] = [console |-> h.console, agent |-> h.agent]] ELSE metrics
    /\ Returns(o)
    /\ UNCHANGED <<consoles, link, linked, terminals, unattended, severed, tokenVars>>

\* forwardSystemMetrics, or the timer after five seconds.
MetricsEnd(i) ==
    /\ metrics[i] # NoEntry
    /\ metrics' = [metrics EXCEPT ![i] = NoEntry]
    /\ UNCHANGED <<consoles, link, linked, terminals, opens, unattended, severed, tokenVars>>

-----------------------------------------------------------------------------
(* The Agent's link *)

\* Mutant: the console is not told that the Agent has gone.
AgentGoesUnnoticed(a) ==
    /\ link[a] # "down"
    /\ link' = [link EXCEPT ![a] = "down"]
    /\ UNCHANGED <<consoles, linked, terminals, metrics, opens, unattended, severed, tokenVars>>

\* handleDisconnect of the Agent's socket.  After disconnectAgent the socket is no longer the
\* registered one and its sessions are left.
AgentDisconnects(a) ==
    /\ link[a] # "down"
    /\ link' = [link EXCEPT ![a] = "down"]
    /\ IF link[a] = "up"
       THEN /\ terminals' = Without(terminals, LAMBDA e : e.agent = a)
            /\ metrics' = Without(metrics, LAMBDA e : e.agent = a)
            /\ Removes({i \in Ids : terminals[i].agent = a})
       ELSE UNCHANGED <<terminals, metrics, unattended, severed>>
    /\ UNCHANGED <<consoles, linked, opens, tokenVars>>

\* It forgets the socket, which it closes a little later.
disconnectAgent(a) ==
    /\ link[a] = "up"
    /\ link' = [link EXCEPT ![a] = "cut"]
    /\ severed' = severed \cup {i \in Ids : terminals[i].agent = a}
    /\ UNCHANGED <<consoles, linked, terminals, metrics, opens, unattended, tokenVars>>

\* The Agent registers again.
AgentReturns(a) ==
    /\ link[a] # "up"
    /\ link' = [link EXCEPT ![a] = "up"]
    /\ UNCHANGED <<consoles, linked, terminals, metrics, opens, unattended, severed, tokenVars>>

\* The Agent's row is released, or taken by a workspace of the user (ConnectRequest).
AgentChangesHands(a) ==
    /\ linked' = IF a \in linked THEN linked \ {a} ELSE linked \cup {a}
    /\ UNCHANGED <<consoles, link, terminals, metrics, opens, unattended, severed, tokenVars>>

TerminalNext ==
    \/ \E c \in Consoles : ConsoleConnects(c) \/ ConsoleDisconnects(c)
    \/ \E p \in Passes : PassExpires(p) \/ \E a \in Agents : mintPurposeToken(p, a)
    \/ \E o \in Opens : \/ OpenReads(o)
                        \/ \E i \in Ids : OpenTerminal(o, i) \/ RequestMetrics(o, i)
                        \/ \E c \in Consoles : \/ \E p \in Passes : handleTerminalOpen(o, c, p)
                                               \/ \E a \in Agents : handleAgentMetricsRequest(o, c, a)
    \/ \E i \in Ids : \/ MetricsEnd(i)
                      \/ \E c \in Consoles : handleTerminalClose(c, i)
                      \/ \E a \in Agents : forwardTerminalClosed(a, i)
    \/ \E a \in Agents : AgentDisconnects(a) \/ disconnectAgent(a) \/ AgentReturns(a) \/ AgentChangesHands(a)

TerminalSpec == TerminalInit /\ [][TerminalNext]_terminalVars

-----------------------------------------------------------------------------
(* Properties *)

\* A terminal session has a console and an Agent, whichever of them goes first; except one
\* that was opened for a console that had gone during the database query, which nobody
\* closes any more, and one whose Agent disconnectAgent has cut off.
SessionHasBothEnds ==
    \A i \in Ids : terminals[i] # NoEntry =>
        /\ consoles[terminals[i].console] = "open" \/ i \in unattended
        /\ link[terminals[i].agent] = "up" \/ i \in severed

=============================================================================
