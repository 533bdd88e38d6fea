---------------------------- MODULE PacketGuard ----------------------------
(***************************************************************************)
(* The packets that one ReplayGuard sees: sign stamps them with the clock  *)
(* of the Agent that sends them, verify holds the stamp against the Hub's  *)
(* clock, and the guard remembers nonces.  A registered socket has a guard *)
(* and one Agent; TunnelService has one guard for the PRE lines of them    *)
(* all, and never replaces it.  A packet is its own nonce, and may arrive  *)
(* late, out of order and more than once.  One whose signature does not    *)
(* match is dropped before the guard sees it and is left out.              *)
(***************************************************************************)
EXTENDS Integers

CONSTANTS
    Packets,
    Signers,        \* the Agents whose packets this guard sees
    Window,         \* DEFAULT_MAX_CLOCK_SKEW_MS, in ticks
    MaxAhead,       \* bound on how far an Agent's clock and the Hub's are apart
    MaxClock        \* bound on the Hub's clock

ASSUME PacketConstants == Window \in Nat /\ MaxAhead \in Nat /\ MaxClock \in Nat

VARIABLES
    clock,          \* the Hub's clock
    ahead,          \* by how much the clock of each Agent is ahead of it
    stamp,          \* _ts of the packets that were signed
    seen,           \* ReplayGuard.seen: its nonces, whose times are stamp
    passed,         \* history: packets handed to a handler under this guard
    twice           \* history: packets handed to a handler again under the same guard

packetVars == <<clock, ahead, stamp, seen, passed, twice>>

Unsent == MaxClock + MaxAhead + 1

PacketTypeOK ==
    /\ clock \in 0..MaxClock
    /\ ahead \in [Signers -> -MaxAhead..MaxAhead]
    /\ stamp \in [Packets -> -MaxAhead..Unsent]
    /\ seen \in SUBSET passed
    /\ passed \in SUBSET {p \in Packets : stamp[p] # Unsent}
    /\ twice \in SUBSET passed

PacketInit ==
    /\ clock = 0
    /\ ahead \in [Signers -> -MaxAhead..MaxAhead]
    /\ stamp = [p \in Packets |-> Unsent]
    /\ seen = {} /\ passed = {} /\ twice = {}

-----------------------------------------------------------------------------

Apart(s, t) == IF s > t THEN s - t ELSE t - s

\* verify's time check, against the Hub's clock.
InWindow(p) == Apart(clock, stamp[p]) <= Window

\* Mutant: everything else is forgotten with each new packet.
PruneAll(p) == seen \cap {p}

\* ReplayGuard.prune, with the packet's own time for the present.
Prune(p) == {q \in seen : Apart(stamp[p], stamp[q]) <= Window}

Clock ==
    /\ clock < MaxClock
    /\ clock' = clock + 1
    /\ UNCHANGED <<ahead, stamp, seen, passed, twice>>

sign(s, p) ==
    /\ stamp[p] = Unsent
    /\ stamp' = [stamp EXCEPT ![p] = clock + ahead[s]]
    /\ UNCHANGED <<clock, ahead, seen, passed, twice>>

\* Mutant: the nonce is remembered before the time is looked at.
VerifyRemembersFirst(p) ==
    /\ stamp[p] # Unsent
    /\ LET kept == Prune(p)
           handed == InWindow(p) /\ p \notin kept IN
          /\ seen' = kept \cup {p}
          /\ passed' = IF handed THEN passed \cup {p} ELSE passed
          /\ twice' = IF handed /\ p \in passed THEN twice \cup {p} ELSE twice
    /\ UNCHANGED <<clock, ahead, stamp>>

\* A copy of p reaches guardIncomingPackets or verifyPreconnect.
verify(p) ==
    /\ stamp[p] # Unsent
    /\ InWindow(p)
    /\ LET kept == Prune(p) IN
          /\ seen' = kept \cup {p}
          /\ passed' = IF p \in kept THEN passed ELSE passed \cup {p}
          /\ twice' = IF p \notin kept /\ p \in passed THEN twice \cup {p} ELSE twice
    /\ UNCHANGED <<clock, ahead, stamp>>

\* register once more on the same socket: the middleware stays, the guard is a new one.
RegisterAgain ==
    /\ seen' = {} /\ passed' = {} /\ twice' = {}
    /\ UNCHANGED <<clock, ahead, stamp>>

PacketNext ==
    \/ Clock
    \/ RegisterAgain
    \/ \E p \in Packets : verify(p) \/ \E s \in Signers : sign(s, p)

PacketSpec == PacketInit /\ [][PacketNext]_packetVars

-----------------------------------------------------------------------------
(* Properties *)

\* ReplayGuard forgets a nonce by the time in another packet, of the same Agent or of another,
\* while verify rejects by the Hub's own clock.  What is forgotten is out of the window, and
\* no copy of a packet is handled twice, as long as no Agent's clock is ahead of the Hub's.
PacketHandledOnce == (\A s \in Signers : ahead[s] <= 0) => twice = {}

=============================================================================
