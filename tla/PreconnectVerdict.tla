------------------------- MODULE PreconnectVerdict -------------------------
(***************************************************************************)
(* What the Hub answers when the gateway asks it about the PRE lines of    *)
(* one Agent: verifyPreconnect holds each signature against the secret of  *)
(* the Agent's row, which it caches.  The times and the nonces of the      *)
(* lines are those of PacketGuard and left out.                            *)
(***************************************************************************)
EXTENDS Naturals

CONSTANTS
    PreSecrets,     \* secrets that may come to exist
    Verifications,  \* calls of verifyPreconnect in flight at the same time
    SecretTtl,      \* SIGNING_SECRET_TTL_MS, in ticks
    NoPreSecret     \* the row's agent_signing_secret is null

ASSUME VerdictConstants == NoPreSecret \notin PreSecrets /\ SecretTtl \in Nat \ {0}

VARIABLES
    signingSecret,  \* agent_signing_secret of the row
    cached,         \* the Agent's entry of signingSecretCache
    pres,           \* the calls in flight
    made,           \* history: secrets that have been in the row
    since           \* history: ticks since the row was last written, at most SecretTtl

verdictVars == <<signingSecret, cached, pres, made, since>>

AnyPreSecret == PreSecrets \cup {NoPreSecret}
Verdicts == {"ok", "no_secret", "invalid_signature"}

\* No entry, or one that has expired and is never looked at again.
NotCached == [secret |-> NoPreSecret, left |-> 0, late |-> FALSE]

\* late is history: the secret had been replaced by the time it was stored.
CachedSecret == [secret: AnyPreSecret, left: 1..SecretTtl, late: BOOLEAN] \cup {NotCached}

\* hit: servedFromCache.  held is history: sig has been the row's secret since the call came.
Pre == [pc: {"idle", "query", "fetched"} \cup Verdicts, sig: AnyPreSecret,
         got: AnyPreSecret, hit: BOOLEAN, held: BOOLEAN]

NoPre == [pc |-> "idle", sig |-> NoPreSecret, got |-> NoPreSecret, hit |-> FALSE, held |-> FALSE]

VerdictTypeOK ==
    /\ signingSecret \in AnyPreSecret
    /\ cached \in CachedSecret
    /\ pres \in [Verifications -> Pre]
    /\ made \in SUBSET PreSecrets
    /\ since \in 0..SecretTtl

VerdictInit ==
    /\ \/ signingSecret = NoPreSecret /\ made = {}
       \/ \E s \in PreSecrets : signingSecret = s /\ made = {s}
    /\ cached = NotCached
    /\ pres = [v \in Verifications |-> NoPre]
    /\ since = SecretTtl

-----------------------------------------------------------------------------
(* verifyPreconnect, from one query to the next *)

\* verify, of a line that is complete, in time and new.
Verdict(secret, sig) ==
    CASE secret = NoPreSecret -> "no_secret"
      [] secret = sig -> "ok"
      [] OTHER -> "invalid_signature"

\* Mutant: a signature that does not match the cached secret is not looked at again.
FinalFromCache(verdict) == TRUE

\* A cached secret that the signature does not match may be out of date: it is fetched anew.
IsFinal(verdict) == verdict # "invalid_signature"

\* Mutant: an entry that is used is kept for longer.
VerifyRenews(v) ==
    /\ pres[v].pc = "idle"
    /\ \E sig \in PreSecrets :
          LET hit == cached.left > 0
              verdict == Verdict(cached.secret, sig) IN
          /\ pres' = [pres EXCEPT ![v] = [pc |-> IF hit /\ IsFinal(verdict) THEN verdict ELSE "query",
                                          sig |-> sig, got |-> NoPreSecret, hit |-> hit,
                                          held |-> signingSecret = sig]]
          /\ cached' = IF hit THEN [cached EXCEPT !.left = SecretTtl] ELSE cached
    /\ UNCHANGED <<signingSecret, made, since>>

\* A line that the gateway passes on has a signature, whoever has made it.
verifyPreconnect(v) ==
    /\ pres[v].pc = "idle"
    /\ \E sig \in PreSecrets :
          LET hit == cached.left > 0
              verdict == Verdict(cached.secret, sig) IN
          pres' = [pres EXCEPT ![v] = [pc |-> IF hit /\ IsFinal(verdict) THEN verdict ELSE "query",
                                         sig |-> sig, got |-> NoPreSecret, hit |-> hit,
                                         held |-> signingSecret = sig]]
    /\ UNCHANGED <<signingSecret, cached, made, since>>

getSigningSecret(v) ==
    /\ pres[v].pc = "query"
    /\ pres' = [pres EXCEPT ![v] = [@ EXCEPT !.pc = "fetched", !.got = signingSecret]]
    /\ UNCHANGED <<signingSecret, cached, made, since>>

\* The continuation of cacheSigningSecret: stored whatever has happened to the row since, and
\* the signature is held against it for good.
cacheSigningSecret(v) ==
    /\ pres[v].pc = "fetched"
    /\ cached' = [secret |-> pres[v].got, left |-> SecretTtl, late |-> pres[v].got # signingSecret]
    /\ pres' = [pres EXCEPT ![v].pc = Verdict(pres[v].got, pres[v].sig)]
    /\ UNCHANGED <<signingSecret, made, since>>

\* The answer to the gateway.
AnswerPre(v) ==
    /\ pres[v].pc \in Verdicts
    /\ pres' = [pres EXCEPT ![v] = NoPre]
    /\ UNCHANGED <<signingSecret, cached, made, since>>

-----------------------------------------------------------------------------
(* What goes on meanwhile *)

\* registerAgent gives the row its first secret, or another where two handlers had both found
\* none (AgentSecret): then the later one stays.
IssueSecret ==
    /\ \E s \in PreSecrets \ made : signingSecret' = s /\ made' = made \cup {s}
    /\ since' = 0
    /\ pres' = [v \in Verifications |-> [pres[v] EXCEPT !.held = FALSE]]
    /\ UNCHANGED cached

\* A tick of the clock.
Tick ==
    /\ cached' = IF cached.left <= 1 THEN NotCached ELSE [cached EXCEPT !.left = @ - 1]
    /\ since' = IF since = SecretTtl THEN since ELSE since + 1
    /\ UNCHANGED <<signingSecret, pres, made>>

VerdictNext ==
    \/ IssueSecret
    \/ Tick
    \/ \E v \in Verifications :
          verifyPreconnect(v) \/ getSigningSecret(v) \/ cacheSigningSecret(v) \/ AnswerPre(v)

VerdictSpec == VerdictInit /\ [][VerdictNext]_verdictVars

-----------------------------------------------------------------------------
(* Properties *)

\* verifyPreconnect looks again when a cached secret does not match: a line signed with the
\* secret that the row holds is never refused, except from an entry that says the Agent has
\* none.  Such an entry, unlike a wrong secret, is believed until it expires.
HolderIsAccepted ==
    \A v \in Verifications : pres[v].held =>
        /\ pres[v].pc # "invalid_signature"
        /\ pres[v].pc = "no_secret" => pres[v].hit

\* A secret that was replaced, or null after one was issued, is believed for at most
\* SIGNING_SECRET_TTL_MS, unless a query that had read it was answered after the change.
OldSecretExpires ==
    cached.left > 0 /\ cached.secret # signingSecret => cached.late \/ cached.left + since <= SecretTtl

=============================================================================
