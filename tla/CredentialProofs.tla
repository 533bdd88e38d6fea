-------------------------- MODULE CredentialProofs --------------------------
(***************************************************************************)
(* Proofs about the seven protocols by which users, consoles and Agents    *)
(* are let in, each for any number of requests, tokens, codes and          *)
(* handlers.  They share no state: each has an inductive invariant and a   *)
(* chapter of its own, and a last one brings them together.                *)
(***************************************************************************)
EXTENDS MCCredentials, TLAPS

USE SessionConstants, MailConstants, TotpConstants, TerminalConstants, PacketConstants,
    SecretConstants, VerdictConstants

USE DEF tokenVars, totpHistory

-----------------------------------------------------------------------------
(* AuthSession: the inductive invariant *)

\* A browser has a token: in its cookie, or in a request of its own.
Holds(b, t) == cookie[b] = t \/ \E r \in Requests : requests[r].browser = b /\ requests[r].token = t

\* No browser ever has another's token, and nobody has one that was not issued yet.
TokensAreOwned ==
    \A t \in Tokens : \A b \in Browsers : Holds(b, t) =>
        /\ tokens[t].state # "none"
        /\ \A c \in Browsers : Holds(c, t) => b = c

\* Where each kind of request may be, and that what a login or a refresh is about to hand
\* over is a new token that nobody else has.
RequestsInForm ==
    \A r \in Requests :
        /\ requests[r].pc = "idle" <=> requests[r] = NoRequest
        /\ requests[r].pc # "idle" => requests[r].browser \in Browsers
        /\ requests[r].pc \in {"active", "rotate", "recent"} =>
              requests[r].op = "refresh" /\ requests[r].token \in Tokens
        /\ requests[r].pc = "recent" => tokens[requests[r].token].state = "expired"
        /\ requests[r].pc = "revoke" => requests[r].op = "logout"
        /\ requests[r].pc = "set" =>
              /\ requests[r].token \in Tokens
              /\ tokens[requests[r].token].state = "active"
              /\ \A b \in Browsers : cookie[b] # requests[r].token
              /\ \A q \in Requests \ {r} : requests[q].token # requests[r].token

\* The token of b is given up for good: b has logged out with it, or was answered too late.
GivenUp(b, t) == t \in revoked[b] \/ b \in late

\* The cookie of a browser is active, or a request of that browser that has expired it will
\* replace it before the grace period ends.
CookiesAreFresh ==
    \A b \in Browsers : \A t \in Tokens : cookie[b] = t /\ tokens[t].state = "expired" =>
        \/ GivenUp(b, t)
        \/ /\ tokens[t].age <= Grace
           /\ \E r \in Requests : /\ requests[r].browser = b /\ requests[r].op = "refresh"
                                  /\ requests[r].pc \in {"sign", "set"}

\* A refresh that is under way is within the grace period of its token.
RefreshesAreFresh ==
    \A r \in Requests : requests[r].pc \in {"active", "rotate", "recent"} =>
        LET t == requests[r].token IN
        tokens[t].state = "expired" /\ tokens[t].age > Grace => GivenUp(requests[r].browser, t)

SessionInv ==
    /\ SessionTypeOK /\ TokensAreOwned /\ RequestsInForm
    /\ CookiesAreFresh /\ RefreshesAreFresh /\ RefreshIsGranted

-----------------------------------------------------------------------------
(* MailVerification: the inductive invariant *)

\* A code is consumed by what verifies the address, and a row has no times before it exists.
CodesInForm ==
    \A c \in Codes :
        /\ user # "verified" => codes[c].state # "consumed"
        /\ codes[c].state = "none" => codes[c] = NoCodeRow

\* What a handler has in its hands past its first queries is a row; what it is about to
\* store as sent was chosen with a cooldown to spare, unless time has passed.
HandlersHaveCodes ==
    \A h \in Handlers :
        /\ handlers[h].pc \in {"update", "mail", "user", "hash", "owner", "promote"} =>
              handlers[h].code \in Codes /\ codes[handlers[h].code].state # "none"
        /\ handlers[h].pc = "update" /\ ~handlers[h].late =>
              codes[handlers[h].code].age <= Ttl - Cooldown

Mailing(c) == \E h \in Handlers : handlers[h].pc = "mail" /\ handlers[h].code = c

\* Until its cooldown is over, a code that was sent stays valid, and its mail is out or on
\* its way.
SendingsHold ==
    \A c \in Codes : codes[c].state # "none" /\ ~codes[c].spoiled =>
        /\ codes[c].sent < Cooldown => codes[c].age <= Ttl - Cooldown + codes[c].sent
        /\ codes[c].mailed \/ Mailing(c)

MailInv == MailTypeOK /\ CodesInForm /\ HandlersHaveCodes /\ SendingsHold

-----------------------------------------------------------------------------
(* TwoFactor: the inductive invariant *)

\* Every secret in use was generated, and one that is being drawn as a QR code is in use
\* nowhere else.
SecretsAreNew ==
    /\ row.secret \in generated \cup {NoSecret}
    /\ \A code \in accepted : code[1] \in generated
    /\ \A k \in Calls : calls[k].secret \in generated \cup {NoSecret}
    /\ \A k \in Calls : calls[k].pc = "qr" =>
          /\ calls[k].secret # NoSecret /\ calls[k].secret # row.secret
          /\ \A code \in accepted : code[1] # calls[k].secret
          /\ \A i \in Calls \ {k} : calls[i].pc \in {"qr", "activate", "store"} =>
                calls[i].secret # calls[k].secret

CallsInForm ==
    \A k \in Calls :
        /\ calls[k].pc = "idle" <=> calls[k] = NoCall
        /\ calls[k].pc \in {"activate", "verify", "store", "drop"} => calls[k].step \in Steps
        /\ calls[k].pc \in {"activate", "store"} => calls[k].secret # NoSecret
        /\ k \in stale => calls[k].pc # "idle"

\* Every code of the row's secret that was accepted is of the last step or an earlier one, or
\* was reopened; what a call that was not overtaken is about to store comes after that.
StepsGrow ==
    /\ repeated \subseteq reopened
    /\ \A code \in accepted : code[1] = row.secret => code[2] <= row.last \/ code \in reopened
    /\ \A k \in Calls \ stale : calls[k].pc \in {"activate", "store"} =>
          calls[k].step > row.last

\* What a confirmation is about to switch on was confirmed.
ConfirmationsHold ==
    \A k \in Calls : calls[k].pc = "activate" =>
        calls[k].secret \in confirmed /\ (calls[k].secret = row.secret \/ crossed)

TotpInv ==
    /\ TotpTypeOK /\ SecretsAreNew /\ CallsInForm /\ StepsGrow
    /\ ConfirmationsHold /\ ActiveSecretWasConfirmed

-----------------------------------------------------------------------------
(* ConsoleTerminal: the inductive invariant *)

\* A session, and a handler that will open one, was asked for by a console that was open.
SessionsInForm ==
    /\ \A i \in Ids : terminals[i] # NoEntry =>
          terminals[i].console \in Consoles /\ terminals[i].agent \in Agents
    /\ \A o \in Opens : opens[o].pc # "idle" =>
          /\ opens[o].console \in Consoles /\ opens[o].agent \in Agents
          /\ consoles[opens[o].console] # "new"
    /\ \A o \in Opens : opens[o].pc \in {"access", "open"} => opens[o].pass \in Passes

TerminalInv == TerminalTypeOK /\ SessionsInForm /\ SessionHasBothEnds

-----------------------------------------------------------------------------
(* PacketGuard: the inductive invariant *)

\* While no Agent's clock is ahead, no stamp is in the Hub's future, and every packet
\* that was handed on is remembered for as long as a copy of it would pass the time check.
RememberedInWindow ==
    (\A s \in Signers : ahead[s] <= 0) =>
        /\ \A p \in Packets : stamp[p] # Unsent => stamp[p] <= clock
        /\ \A p \in passed : p \in seen \/ clock - stamp[p] > Window
        /\ twice = {}

PacketInv == PacketTypeOK /\ RememberedInWindow

-----------------------------------------------------------------------------
(* AgentSecret: the inductive invariant *)

HasSecret(u) == u \in Uuids /\ rows[u] \in Keys

\* Where a handler that has made a secret may be, and that a row has one from the moment
\* its handler has written it.
RegistersInForm ==
    \A r \in Registers :
        /\ At(r, "idle") => registers[r] = NoRegistration
        /\ registers[r].pc \in {"known", "find"} => registers[r].secret = NoKey
        /\ At(r, "update") =>
              /\ registers[r].uuid \in Uuids /\ rows[registers[r].uuid] # "none"
              /\ registers[r].secret = NoKey => HasSecret(registers[r].uuid)
        /\ registers[r].pc \in {"attach", "reply"} => HasSecret(registers[r].uuid)

\* Every secret in a row, a handler or a socket was made by some handler.
SecretsAreIssued ==
    /\ \A u \in Uuids : rows[u] \in Keys => rows[u] \in issued
    /\ \A r \in Registers : registers[r].secret \in issued \cup {NoKey}
    /\ current # NoRegister /\ (At(current, "reply") \/ At(current, "idle")) => attached \in issued

\* The Agent has every secret that was ever made, will be told it, or could not be told.
SecretsAreTold == \A s \in issued : s = agent.secret \/ Excused(s)

\* An Agent that has a secret has its row's uuid, and no handler of its present connection
\* makes it another.
AgentKeepsSecret ==
    agent.secret # NoKey =>
        /\ HasSecret(agent.uuid)
        /\ current # NoRegister /\ ~At(current, "idle") =>
              registers[current].uuid = agent.uuid /\ registers[current].secret = NoKey

SecretInv ==
    SecretTypeOK /\ RegistersInForm /\ SecretsAreIssued /\ SecretsAreTold /\ AgentKeepsSecret

\* No two handlers have made the same secret.
PendingIsOwn ==
    \A r, q \in Registers :
        registers[r].secret # NoKey /\ registers[r].secret = registers[q].secret => r = q

\* The secrets that are, or have been, in a row: all but those about to be written.
Written == {s \in issued : \A r \in Registers : At(r, "update") => registers[r].secret # s}

\* What one step may do to the rows.
RowsGetNewSecrets ==
    /\ Written \subseteq Written'
    /\ \A u \in Uuids : rows'[u] = rows[u] \/ rows'[u] \in Written' \ Written

-----------------------------------------------------------------------------
(* PreconnectVerdict: the inductive invariant *)

\* While a line is signed with what the row has held all along, so is what was read for it.
HoldersInForm ==
    \A v \in Verifications : pres[v].held =>
        /\ pres[v].sig = signingSecret /\ signingSecret \in PreSecrets
        /\ pres[v].pc = "fetched" => pres[v].got = signingSecret

VerdictInv == VerdictTypeOK /\ HoldersInForm /\ HolderIsAccepted /\ OldSecretExpires

-----------------------------------------------------------------------------
(* AuthSession *)

\* A request that has been given a new row.
LEMMA SignedIsTyped ==
  ASSUME NEW x \in Request, NEW t \in Tokens
  PROVE  [x EXCEPT !.pc = "set", !.token = t] \in Request
BY DEF Request

\* A request that goes on with its next query keeps what else it carries.
LEMMA ProceedsIsTyped ==
  ASSUME SessionTypeOK, NEW r \in Requests, NEW pc \in {"rotate", "recent", "sign", "clear"},
         Proceeds(r, pc)
  PROVE  requests' \in [Requests -> Request]
<1>1. requests[r] \in Request
  BY DEF SessionTypeOK
<1>2. [requests[r] EXCEPT !.pc = pc] \in Request
  BY <1>1 DEF Request
<1>. QED
  BY <1>2 DEF Proceeds, SessionTypeOK

\* Every step keeps rows, cookies and requests well typed.
LEMMA SessionTypeStep == SessionInv /\ [SessionNext]_sessionVars => SessionTypeOK'
<1> SUFFICES ASSUME SessionInv, [SessionNext]_sessionVars PROVE SessionTypeOK'
  OBVIOUS
<1>1. ASSUME NEW r \in Requests, NEW b \in Browsers, RefreshRequest(r, b) PROVE SessionTypeOK'
  BY <1>1 DEF RefreshRequest, Sends, SessionInv, SessionTypeOK, Request
<1>2. ASSUME NEW r \in Requests, NEW b \in Browsers, LoginRequest(r, b) PROVE SessionTypeOK'
  BY <1>2 DEF LoginRequest, Sends, SessionInv, SessionTypeOK, Request
<1>3. ASSUME NEW r \in Requests, NEW b \in Browsers, LogoutRequest(r, b) PROVE SessionTypeOK'
  BY <1>3 DEF LogoutRequest, Sends, SessionInv, SessionTypeOK, Request
<1>4. ASSUME NEW r \in Requests, FindActive(r) PROVE SessionTypeOK'
  BY <1>4 DEF FindActive, Proceeds, SessionInv, SessionTypeOK, Request
<1>5. ASSUME NEW r \in Requests, Rotate(r) PROVE SessionTypeOK'
  <2>1. tokens' \in [Tokens -> [state: {"none", "active", "expired"}, age: 0..Grace + 1]]
    <3>1. 0 \in 0..Grace + 1
      OBVIOUS
    <3>2. [state |-> "expired", age |-> 0]
              \in [state: {"none", "active", "expired"}, age: 0..Grace + 1]
      BY <3>1
    <3>. QED
      BY <1>5, <3>2 DEF Rotate, Expire, SessionInv, SessionTypeOK
  <2>2. requests' \in [Requests -> Request]
    BY <1>5, ProceedsIsTyped DEF Rotate, SessionInv, SessionTypeOK
  <2>. QED
    BY <1>5, <2>1, <2>2 DEF Rotate, SessionInv, SessionTypeOK
<1>6. ASSUME NEW r \in Requests, FindRecent(r) PROVE SessionTypeOK'
  <2>1. requests' \in [Requests -> Request]
    BY <1>6, ProceedsIsTyped DEF FindRecent, SessionInv, SessionTypeOK
  <2>. QED
    BY <1>6, <2>1 DEF FindRecent, SessionInv, SessionTypeOK
<1>7. ASSUME NEW r \in Requests, NEW t \in Tokens, signLoginTokens(r, t) PROVE SessionTypeOK'
  <2>1. tokens' \in [Tokens -> [state: {"none", "active", "expired"}, age: 0..Grace + 1]]
    BY <1>7 DEF signLoginTokens, SessionInv, SessionTypeOK
  <2>2. [requests[r] EXCEPT !.pc = "set", !.token = t] \in Request
    BY SignedIsTyped DEF SessionInv, SessionTypeOK
  <2>3. requests' \in [Requests -> Request]
    BY <1>7, <2>2 DEF signLoginTokens, SessionInv, SessionTypeOK
  <2>. QED
    BY <1>7, <2>1, <2>3 DEF signLoginTokens, SessionInv, SessionTypeOK
<1>8. ASSUME NEW r \in Requests, SetCookies(r) PROVE SessionTypeOK'
  BY <1>8 DEF SetCookies, Answered, SessionInv, SessionTypeOK, Request, NoRequest
<1>9. ASSUME NEW r \in Requests, ClearCookies(r) PROVE SessionTypeOK'
  BY <1>9 DEF ClearCookies, Answered, SessionInv, SessionTypeOK, Request, NoRequest
<1>10. ASSUME NEW r \in Requests, revokeRefreshToken(r) PROVE SessionTypeOK'
  <2>1. tokens' \in [Tokens -> [state: {"none", "active", "expired"}, age: 0..Grace + 1]]
    BY <1>10 DEF revokeRefreshToken, Expire, SessionInv, SessionTypeOK
  <2>2. requests' \in [Requests -> Request]
    BY <1>10 DEF revokeRefreshToken, Proceeds, SessionInv, SessionTypeOK, Request
  <2>a. {requests[r].token} \ {NoToken} \subseteq Tokens
    BY DEF SessionInv, SessionTypeOK, Request
  <2>3. revoked' \in [Browsers -> SUBSET Tokens]
    BY <1>10, <2>a DEF revokeRefreshToken, SessionInv, SessionTypeOK
  <2>. QED
    BY <1>10, <2>1, <2>2, <2>3 DEF revokeRefreshToken, SessionInv, SessionTypeOK
<1>11. ASSUME NEW r \in Requests, RequestLost(r) PROVE SessionTypeOK'
  BY <1>11
  DEF RequestLost, Answered, SessionInv, SessionTypeOK, Request, NoRequest, RequestsInForm
<1>12. ASSUME SessionTick PROVE SessionTypeOK'
  BY <1>12 DEF SessionTick, SessionInv, SessionTypeOK
<1>13. ASSUME UNCHANGED sessionVars PROVE SessionTypeOK'
  BY <1>13 DEF sessionVars, SessionInv, SessionTypeOK
<1>. QED
  BY <1>1, <1>2, <1>3, <1>4, <1>5, <1>6, <1>7, <1>8, <1>9, <1>10, <1>11, <1>12, <1>13
  DEF SessionNext

\* A token goes from a request to the cookie of its browser and back, never to another browser.
LEMMA TokensAreOwnedStep == SessionInv /\ [SessionNext]_sessionVars => TokensAreOwned'
<1> SUFFICES ASSUME SessionInv, [SessionNext]_sessionVars PROVE TokensAreOwned'
  OBVIOUS
<1>1. ASSUME NEW r \in Requests, NEW b \in Browsers, RefreshRequest(r, b) PROVE TokensAreOwned'
  BY <1>1 DEF RefreshRequest, Sends, SessionInv, TokensAreOwned, Holds
<1>2. ASSUME NEW r \in Requests, NEW b \in Browsers, LoginRequest(r, b) PROVE TokensAreOwned'
  BY <1>2 DEF LoginRequest, Sends, SessionInv, TokensAreOwned, Holds
<1>3. ASSUME NEW r \in Requests, NEW b \in Browsers, LogoutRequest(r, b) PROVE TokensAreOwned'
  BY <1>3 DEF LogoutRequest, Sends, SessionInv, TokensAreOwned, Holds
<1>4. ASSUME NEW r \in Requests, FindActive(r) PROVE TokensAreOwned'
  BY <1>4 DEF FindActive, Proceeds, SessionInv, TokensAreOwned, Holds
<1>5. ASSUME NEW r \in Requests, Rotate(r) PROVE TokensAreOwned'
  BY <1>5 DEF Rotate, Proceeds, Expire, SessionInv, TokensAreOwned, Holds
<1>6. ASSUME NEW r \in Requests, FindRecent(r) PROVE TokensAreOwned'
  BY <1>6 DEF FindRecent, Proceeds, SessionInv, TokensAreOwned, Holds
<1>7. ASSUME NEW r \in Requests, NEW t \in Tokens, signLoginTokens(r, t) PROVE TokensAreOwned'
  BY <1>7 DEF signLoginTokens, SessionInv, SessionTypeOK, TokensAreOwned, Holds
<1>8. ASSUME NEW r \in Requests, SetCookies(r) PROVE TokensAreOwned'
  BY <1>8 DEF SetCookies, Answered, SessionInv, NoRequest, TokensAreOwned, Holds
<1>9. ASSUME NEW r \in Requests, ClearCookies(r) PROVE TokensAreOwned'
  BY <1>9 DEF ClearCookies, Answered, SessionInv, NoRequest, TokensAreOwned, Holds
<1>10. ASSUME NEW r \in Requests, revokeRefreshToken(r) PROVE TokensAreOwned'
  BY <1>10
  DEF revokeRefreshToken, Proceeds, Expire, SessionInv, SessionTypeOK, TokensAreOwned,
      Holds
<1>11. ASSUME NEW r \in Requests, RequestLost(r) PROVE TokensAreOwned'
  BY <1>11 DEF RequestLost, Answered, SessionInv, NoRequest, TokensAreOwned, Holds
<1>12. ASSUME SessionTick PROVE TokensAreOwned'
  BY <1>12 DEF SessionTick, SessionInv, SessionTypeOK, TokensAreOwned, Holds
<1>13. ASSUME UNCHANGED sessionVars PROVE TokensAreOwned'
  BY <1>13 DEF sessionVars, SessionInv, TokensAreOwned, Holds
<1>. QED
  BY <1>1, <1>2, <1>3, <1>4, <1>5, <1>6, <1>7, <1>8, <1>9, <1>10, <1>11, <1>12, <1>13
  DEF SessionNext

\* A token that was just issued is in one request only, and a token that is expired stays so.
LEMMA RequestsInFormStep == SessionInv /\ [SessionNext]_sessionVars => RequestsInForm'
<1> SUFFICES ASSUME SessionInv, [SessionNext]_sessionVars PROVE RequestsInForm'
  OBVIOUS
<1>1. ASSUME NEW r \in Requests, NEW b \in Browsers, RefreshRequest(r, b) PROVE RequestsInForm'
  BY <1>1 DEF RefreshRequest, Sends, SessionInv, SessionTypeOK, RequestsInForm
<1>2. ASSUME NEW r \in Requests, NEW b \in Browsers, LoginRequest(r, b) PROVE RequestsInForm'
  BY <1>2 DEF LoginRequest, Sends, SessionInv, RequestsInForm
<1>3. ASSUME NEW r \in Requests, NEW b \in Browsers, LogoutRequest(r, b) PROVE RequestsInForm'
  BY <1>3 DEF LogoutRequest, Sends, SessionInv, RequestsInForm
<1>4. ASSUME NEW r \in Requests, FindActive(r) PROVE RequestsInForm'
  BY <1>4
  DEF FindActive, Proceeds, SessionInv, SessionTypeOK, NoRequest, RequestsInForm,
      TokensAreOwned, Holds
<1>5. ASSUME NEW r \in Requests, Rotate(r) PROVE RequestsInForm'
  BY <1>5 DEF Rotate, Proceeds, Expire, SessionInv, NoRequest, RequestsInForm
<1>6. ASSUME NEW r \in Requests, FindRecent(r) PROVE RequestsInForm'
  BY <1>6 DEF FindRecent, Proceeds, SessionInv, NoRequest, RequestsInForm
<1>7. ASSUME NEW r \in Requests, NEW t \in Tokens, signLoginTokens(r, t) PROVE RequestsInForm'
  <2>1. /\ tokens[t].state = "none" /\ UNCHANGED cookie /\ requests[r].pc = "sign"
        /\ tokens' = [tokens EXCEPT ![t].state = "active"]
        /\ requests' = [requests EXCEPT ![r] = [@ EXCEPT !.pc = "set", !.token = t]]
    BY <1>7 DEF signLoginTokens
  <2>2. requests[r].browser \in Browsers
    BY <2>1 DEF SessionInv, RequestsInForm
  <2>3. /\ \A b \in Browsers : cookie[b] # t
        /\ \A q \in Requests : requests[q].token = t => requests[q].browser \notin Browsers
    BY <2>1 DEF SessionInv, TokensAreOwned, Holds
  <2>4. \A q \in Requests : requests[q].token # t
    BY <2>3 DEF SessionInv, RequestsInForm, NoRequest
  <2>5. /\ requests'[r].pc = "set" /\ requests'[r].token = t
        /\ requests'[r].browser = requests[r].browser
        /\ \A q \in Requests \ {r} : requests'[q] = requests[q]
        /\ tokens'[t].state = "active"
        /\ \A u \in Tokens \ {t} : tokens'[u] = tokens[u]
    BY <2>1 DEF SessionInv, SessionTypeOK
  <2>6. requests'[r] # NoRequest
    BY <2>5 DEF NoRequest
  <2>. SUFFICES ASSUME NEW q \in Requests
                PROVE  /\ requests'[q].pc = "idle" <=> requests'[q] = NoRequest
                       /\ requests'[q].pc # "idle" => requests'[q].browser \in Browsers
                       /\ requests'[q].pc \in {"active", "rotate", "recent"} =>
                             requests'[q].op = "refresh" /\ requests'[q].token \in Tokens
                       /\ requests'[q].pc = "recent" =>
                             tokens'[requests'[q].token].state = "expired"
                       /\ requests'[q].pc = "revoke" => requests'[q].op = "logout"
                       /\ requests'[q].pc = "set" =>
                             /\ requests'[q].token \in Tokens
                             /\ tokens'[requests'[q].token].state = "active"
                             /\ \A b \in Browsers : cookie'[b] # requests'[q].token
                             /\ \A p \in Requests \ {q} : requests'[p].token # requests'[q].token
    BY DEF RequestsInForm
  <2>7. CASE q = r
    BY <2>1, <2>2, <2>3, <2>4, <2>5, <2>6, <2>7
  <2>8. CASE q # r
    <3>1. requests'[q] = requests[q] /\ requests[q].token # t
      BY <2>4, <2>5, <2>8
    <3>2. requests[q].token \in Tokens => tokens'[requests[q].token] = tokens[requests[q].token]
      BY <2>5, <3>1
    <3>3. \A p \in Requests \ {q} : requests[p].token # requests[q].token =>
                                        requests'[p].token # requests'[q].token
      BY <2>5, <3>1
    <3>4. CASE requests[q].pc = "set"
      BY <2>1, <3>1, <3>2, <3>3, <3>4 DEF SessionInv, RequestsInForm
    <3>5. CASE requests[q].pc # "set"
      BY <3>1, <3>2, <3>5 DEF SessionInv, RequestsInForm
    <3>. QED
      BY <3>4, <3>5
  <2>. QED
    BY <2>7, <2>8
<1>8. ASSUME NEW r \in Requests, SetCookies(r) PROVE RequestsInForm'
  BY <1>8 DEF SetCookies, Answered, SessionInv, SessionTypeOK, NoRequest, RequestsInForm
<1>9. ASSUME NEW r \in Requests, ClearCookies(r) PROVE RequestsInForm'
  BY <1>9 DEF ClearCookies, Answered, SessionInv, NoRequest, RequestsInForm
<1>10. ASSUME NEW r \in Requests, revokeRefreshToken(r) PROVE RequestsInForm'
  BY <1>10
  DEF revokeRefreshToken, Proceeds, Expire, SessionInv, SessionTypeOK, NoRequest,
      RequestsInForm, Holds
<1>11. ASSUME NEW r \in Requests, RequestLost(r) PROVE RequestsInForm'
  BY <1>11 DEF RequestLost, Answered, SessionInv, NoRequest, RequestsInForm
<1>12. ASSUME SessionTick PROVE RequestsInForm'
  BY <1>12 DEF SessionTick, SessionInv, RequestsInForm
<1>13. ASSUME UNCHANGED sessionVars PROVE RequestsInForm'
  BY <1>13 DEF sessionVars, SessionInv, RequestsInForm
<1>. QED
  BY <1>1, <1>2, <1>3, <1>4, <1>5, <1>6, <1>7, <1>8, <1>9, <1>10, <1>11, <1>12, <1>13
  DEF SessionNext

\* Whoever expires the token of a cookie is about to replace it, or the browser has given it up.
LEMMA CookiesAreFreshStep == SessionInv /\ [SessionNext]_sessionVars => CookiesAreFresh'
<1> SUFFICES ASSUME SessionInv, [SessionNext]_sessionVars PROVE CookiesAreFresh'
  OBVIOUS
<1>1. ASSUME NEW r \in Requests, NEW b \in Browsers, RefreshRequest(r, b) PROVE CookiesAreFresh'
  BY <1>1 DEF RefreshRequest, Sends, SessionInv, NoRequest, CookiesAreFresh, GivenUp
<1>2. ASSUME NEW r \in Requests, NEW b \in Browsers, LoginRequest(r, b) PROVE CookiesAreFresh'
  BY <1>2 DEF LoginRequest, Sends, SessionInv, NoRequest, CookiesAreFresh, GivenUp
<1>3. ASSUME NEW r \in Requests, NEW b \in Browsers, LogoutRequest(r, b) PROVE CookiesAreFresh'
  BY <1>3 DEF LogoutRequest, Sends, SessionInv, NoRequest, CookiesAreFresh, GivenUp
<1>4. ASSUME NEW r \in Requests, FindActive(r) PROVE CookiesAreFresh'
  BY <1>4 DEF FindActive, Proceeds, SessionInv, CookiesAreFresh, GivenUp
<1>5. ASSUME NEW r \in Requests, Rotate(r) PROVE CookiesAreFresh'
  BY <1>5
  DEF Rotate, Proceeds, Expire, SessionInv, SessionTypeOK, RequestsInForm, TokensAreOwned,
      Holds, CookiesAreFresh, GivenUp
<1>6. ASSUME NEW r \in Requests, FindRecent(r) PROVE CookiesAreFresh'
  BY <1>6 DEF FindRecent, Proceeds, SessionInv, CookiesAreFresh, GivenUp
<1>7. ASSUME NEW r \in Requests, NEW t \in Tokens, signLoginTokens(r, t) PROVE CookiesAreFresh'
  BY <1>7 DEF signLoginTokens, SessionInv, CookiesAreFresh, GivenUp
<1>8. ASSUME NEW r \in Requests, SetCookies(r) PROVE CookiesAreFresh'
  BY <1>8
  DEF SetCookies, Answered, SessionInv, SessionTypeOK, RequestsInForm, CookiesAreFresh,
      GivenUp
<1>9. ASSUME NEW r \in Requests, ClearCookies(r) PROVE CookiesAreFresh'
  BY <1>9 DEF ClearCookies, Answered, SessionInv, CookiesAreFresh, GivenUp
<1>10. ASSUME NEW r \in Requests, revokeRefreshToken(r) PROVE CookiesAreFresh'
  BY <1>10
  DEF revokeRefreshToken, Proceeds, Expire, SessionInv, SessionTypeOK, RequestsInForm,
      TokensAreOwned, Holds, CookiesAreFresh, GivenUp
<1>11. ASSUME NEW r \in Requests, RequestLost(r) PROVE CookiesAreFresh'
  BY <1>11 DEF RequestLost, Answered, SessionInv, CookiesAreFresh, GivenUp
<1>12. ASSUME SessionTick PROVE CookiesAreFresh'
  <2>. SUFFICES ASSUME NEW b \in Browsers, NEW t \in Tokens, cookie[b] = t,
                       tokens'[t].state = "expired", ~GivenUp(b, t)'
                PROVE  /\ tokens'[t].age <= Grace
                       /\ \E r \in Requests :
                             /\ requests[r].browser = b /\ requests[r].op = "refresh"
                             /\ requests[r].pc \in {"sign", "set"}
    BY <1>12 DEF SessionTick, CookiesAreFresh
  <2>1. tokens[t].state = "expired"
    BY <1>12 DEF SessionTick, SessionInv, SessionTypeOK
  <2>2. ~GivenUp(b, t)
    BY <1>12 DEF SessionTick, GivenUp
  <2>3. PICK r \in Requests : /\ requests[r].browser = b /\ requests[r].op = "refresh"
                              /\ requests[r].pc \in {"sign", "set"}
    BY <2>1, <2>2 DEF SessionInv, CookiesAreFresh
  <2>4. ~(tokens'[t].age > Grace)
    <3>. SUFFICES ASSUME tokens'[t].age > Grace PROVE b \in late'
      BY DEF GivenUp
    <3>1. t \in {requests[r].token, cookie[b]} \ {NoToken}
      OBVIOUS
    <3>. QED
      BY <1>12, <2>3, <3>1 DEF SessionTick
  <2>5. tokens'[t].age \in Int
    BY <1>12 DEF SessionTick, SessionInv, SessionTypeOK
  <2>. QED
    BY <2>3, <2>4, <2>5
<1>13. ASSUME UNCHANGED sessionVars PROVE CookiesAreFresh'
  BY <1>13 DEF sessionVars, SessionInv, CookiesAreFresh, GivenUp
<1>. QED
  BY <1>1, <1>2, <1>3, <1>4, <1>5, <1>6, <1>7, <1>8, <1>9, <1>10, <1>11, <1>12, <1>13
  DEF SessionNext

\* A request starts with a fresh cookie, and the clock writes down whom it overtakes.
LEMMA RefreshesAreFreshStep == SessionInv /\ [SessionNext]_sessionVars => RefreshesAreFresh'
<1> SUFFICES ASSUME SessionInv, [SessionNext]_sessionVars PROVE RefreshesAreFresh'
  OBVIOUS
<1>1. ASSUME NEW r \in Requests, NEW b \in Browsers, RefreshRequest(r, b) PROVE RefreshesAreFresh'
  BY <1>1
  DEF RefreshRequest, Sends, SessionInv, SessionTypeOK, CookiesAreFresh,
      RefreshesAreFresh, GivenUp
<1>2. ASSUME NEW r \in Requests, NEW b \in Browsers, LoginRequest(r, b) PROVE RefreshesAreFresh'
  BY <1>2 DEF LoginRequest, Sends, SessionInv, RefreshesAreFresh, GivenUp
<1>3. ASSUME NEW r \in Requests, NEW b \in Browsers, LogoutRequest(r, b) PROVE RefreshesAreFresh'
  BY <1>3 DEF LogoutRequest, Sends, SessionInv, RefreshesAreFresh, GivenUp
<1>4. ASSUME NEW r \in Requests, FindActive(r) PROVE RefreshesAreFresh'
  BY <1>4 DEF FindActive, Proceeds, SessionInv, RefreshesAreFresh, GivenUp
<1>5. ASSUME NEW r \in Requests, Rotate(r) PROVE RefreshesAreFresh'
  BY <1>5 DEF Rotate, Proceeds, Expire, SessionInv, RefreshesAreFresh, GivenUp
<1>6. ASSUME NEW r \in Requests, FindRecent(r) PROVE RefreshesAreFresh'
  BY <1>6 DEF FindRecent, Proceeds, SessionInv, RefreshesAreFresh, GivenUp
<1>7. ASSUME NEW r \in Requests, NEW t \in Tokens, signLoginTokens(r, t) PROVE RefreshesAreFresh'
  BY <1>7 DEF signLoginTokens, SessionInv, RefreshesAreFresh, GivenUp
<1>8. ASSUME NEW r \in Requests, SetCookies(r) PROVE RefreshesAreFresh'
  BY <1>8 DEF SetCookies, Answered, SessionInv, NoRequest, RefreshesAreFresh, GivenUp
<1>9. ASSUME NEW r \in Requests, ClearCookies(r) PROVE RefreshesAreFresh'
  BY <1>9 DEF ClearCookies, Answered, SessionInv, NoRequest, RefreshesAreFresh, GivenUp
<1>10. ASSUME NEW r \in Requests, revokeRefreshToken(r) PROVE RefreshesAreFresh'
  BY <1>10
  DEF revokeRefreshToken, Proceeds, Expire, SessionInv, SessionTypeOK, RequestsInForm,
      RefreshesAreFresh, GivenUp
<1>11. ASSUME NEW r \in Requests, RequestLost(r) PROVE RefreshesAreFresh'
  BY <1>11 DEF RequestLost, Answered, SessionInv, NoRequest, RefreshesAreFresh, GivenUp
<1>12. ASSUME SessionTick PROVE RefreshesAreFresh'
  BY <1>12 DEF SessionTick, SessionInv, RequestsInForm, RefreshesAreFresh, GivenUp
<1>13. ASSUME UNCHANGED sessionVars PROVE RefreshesAreFresh'
  BY <1>13 DEF sessionVars, SessionInv, RefreshesAreFresh, GivenUp
<1>. QED
  BY <1>1, <1>2, <1>3, <1>4, <1>5, <1>6, <1>7, <1>8, <1>9, <1>10, <1>11, <1>12, <1>13
  DEF SessionNext

\* Only a token past its grace period is refused.
LEMMA RefreshIsGrantedStep == SessionInv /\ [SessionNext]_sessionVars => RefreshIsGranted'
<1> SUFFICES ASSUME SessionInv, [SessionNext]_sessionVars PROVE RefreshIsGranted'
  OBVIOUS
<1>1. ASSUME NEW r \in Requests, NEW b \in Browsers, RefreshRequest(r, b) PROVE RefreshIsGranted'
  BY <1>1 DEF RefreshRequest, Sends, SessionInv, RefreshIsGranted
<1>2. ASSUME NEW r \in Requests, NEW b \in Browsers, LoginRequest(r, b) PROVE RefreshIsGranted'
  BY <1>2 DEF LoginRequest, Sends, SessionInv, RefreshIsGranted
<1>3. ASSUME NEW r \in Requests, NEW b \in Browsers, LogoutRequest(r, b) PROVE RefreshIsGranted'
  BY <1>3 DEF LogoutRequest, Sends, SessionInv, RefreshIsGranted
<1>4. ASSUME NEW r \in Requests, FindActive(r) PROVE RefreshIsGranted'
  BY <1>4 DEF FindActive, Proceeds, SessionInv, RefreshIsGranted
<1>5. ASSUME NEW r \in Requests, Rotate(r) PROVE RefreshIsGranted'
  BY <1>5 DEF Rotate, Proceeds, SessionInv, RefreshIsGranted
<1>6. ASSUME NEW r \in Requests, FindRecent(r) PROVE RefreshIsGranted'
  BY <1>6
  DEF FindRecent, Proceeds, SessionInv, SessionTypeOK, RequestsInForm, RefreshesAreFresh,
      GivenUp, RefreshIsGranted
<1>7. ASSUME NEW r \in Requests, NEW t \in Tokens, signLoginTokens(r, t) PROVE RefreshIsGranted'
  BY <1>7 DEF signLoginTokens, SessionInv, RefreshIsGranted
<1>8. ASSUME NEW r \in Requests, SetCookies(r) PROVE RefreshIsGranted'
  BY <1>8 DEF SetCookies, Answered, SessionInv, NoRequest, RefreshIsGranted
<1>9. ASSUME NEW r \in Requests, ClearCookies(r) PROVE RefreshIsGranted'
  BY <1>9 DEF ClearCookies, Answered, SessionInv, NoRequest, RefreshIsGranted
<1>10. ASSUME NEW r \in Requests, revokeRefreshToken(r) PROVE RefreshIsGranted'
  BY <1>10 DEF revokeRefreshToken, Proceeds, SessionInv, RequestsInForm, RefreshIsGranted
<1>11. ASSUME NEW r \in Requests, RequestLost(r) PROVE RefreshIsGranted'
  BY <1>11 DEF RequestLost, Answered, SessionInv, NoRequest, RefreshIsGranted
<1>12. ASSUME SessionTick PROVE RefreshIsGranted'
  BY <1>12 DEF SessionTick, SessionInv, RefreshIsGranted
<1>13. ASSUME UNCHANGED sessionVars PROVE RefreshIsGranted'
  BY <1>13 DEF sessionVars, SessionInv, RefreshIsGranted
<1>. QED
  BY <1>1, <1>2, <1>3, <1>4, <1>5, <1>6, <1>7, <1>8, <1>9, <1>10, <1>11, <1>12, <1>13
  DEF SessionNext

\* Nobody has a token at first.
LEMMA SessionInvInit == SessionInit => SessionInv
BY DEF SessionInit, SessionInv, SessionTypeOK, Request, NoRequest, TokensAreOwned, Holds,
   RequestsInForm, CookiesAreFresh, RefreshesAreFresh, RefreshIsGranted

\* Every behaviour of SessionSpec keeps the inductive invariant.
THEOREM SessionInvariant == SessionSpec => []SessionInv
<1>1. SessionInv /\ [SessionNext]_sessionVars => SessionInv'
  BY SessionTypeStep, TokensAreOwnedStep, RequestsInFormStep, CookiesAreFreshStep,
     RefreshesAreFreshStep, RefreshIsGrantedStep
  DEF SessionInv
<1>. QED
  BY <1>1, SessionInvInit, PTL DEF SessionSpec

\* A browser that has not logged out is not sent to the login page, for any number of
\* browsers and simultaneous refreshes and any grace period, unless its answer was lost or
\* came later than that.
THEOREM LoginsSurvive == SessionSpec => []RefreshIsGranted
<1>1. SessionInv => RefreshIsGranted
  BY DEF SessionInv
<1>. QED
  BY <1>1, SessionInvariant, PTL

-----------------------------------------------------------------------------
(* MailVerification *)

\* A free slot is a handler.
LEMMA NoHandlerIsTyped == NoHandler \in Handler
BY DEF NoHandler, Handler

\* Mailing a code, or failing to.
LEMMA MailedRowIsTyped ==
  ASSUME NEW x \in Code
  PROVE  [x EXCEPT !.mailed = TRUE] \in Code /\ [x EXCEPT !.spoiled = TRUE] \in Code
BY DEF Code

\* Storing that a code was sent.
LEMMA SentRowIsTyped ==
  ASSUME NEW x \in Code, NEW tooLate \in BOOLEAN
  PROVE  [x EXCEPT !.sent = 0, !.spoiled = tooLate] \in Code
<1>. DEFINE y == [x EXCEPT !.sent = 0]
<1>1. y \in Code
  BY DEF Code
<1>2. [x EXCEPT !.sent = 0, !.spoiled = tooLate] = [y EXCEPT !.spoiled = tooLate]
  BY DEF Code
<1>3. [y EXCEPT !.spoiled = tooLate] \in Code
  BY <1>1 DEF Code
<1>. QED
  BY <1>2, <1>3

\* A row that the clock has aged is a row.
LEMMA AgedRowIsTyped ==
  ASSUME NEW x \in Code, NEW age \in 0..Ttl + 1, NEW sent \in 0..Cooldown
  PROVE  [x EXCEPT !.age = age, !.sent = sent] \in Code
BY DEF Code

\* What the clock does to a row: both times grow by one, up to their bounds.
LEMMA TickedRow ==
  ASSUME MailTypeOK, MailTick, NEW c \in Codes
  PROVE  /\ codes'[c] \in Code
         /\ codes'[c].state = codes[c].state
         /\ codes'[c].mailed = codes[c].mailed
         /\ codes'[c].spoiled = codes[c].spoiled
         /\ codes[c].state = "none" => codes'[c] = codes[c]
         /\ codes[c].state # "none" =>
               /\ codes'[c].age = IF codes[c].age <= Ttl THEN codes[c].age + 1 ELSE codes[c].age
               /\ codes'[c].sent = IF codes[c].sent < Cooldown THEN codes[c].sent + 1
                                   ELSE codes[c].sent
<1>1. codes[c] \in Code
  BY DEF MailTypeOK
<1>2. codes[c].age \in 0..Ttl + 1 /\ codes[c].sent \in 0..Cooldown
  BY <1>1 DEF Code
<1>3. CASE codes[c].state = "none"
  BY <1>1, <1>3 DEF MailTick
<1>4. CASE codes[c].state # "none"
  <2>1. (IF codes[c].age <= Ttl THEN codes[c].age + 1 ELSE codes[c].age) \in 0..Ttl + 1
    BY <1>2
  <2>2. (IF codes[c].sent < Cooldown THEN codes[c].sent + 1 ELSE codes[c].sent) \in 0..Cooldown
    BY <1>2
  <2>3. codes'[c] \in Code
    BY <1>1, <1>4, <2>1, <2>2, AgedRowIsTyped DEF MailTick
  <2>. QED
    BY <1>1, <1>4, <2>3 DEF MailTick, Code
<1>. QED
  BY <1>3, <1>4

\* The clock only marks the handlers.
LEMMA TickedHandler ==
  ASSUME MailTypeOK, MailTick, NEW h \in Handlers
  PROVE  /\ handlers'[h] \in Handler
         /\ handlers'[h].pc = handlers[h].pc
         /\ handlers'[h].code = handlers[h].code
         /\ handlers'[h].late = (handlers[h].pc = "update")
<1>1. handlers[h] \in Handler
  BY DEF MailTypeOK
<1>2. (handlers[h].pc = "update") \in BOOLEAN
  OBVIOUS
<1>. QED
  BY <1>1, <1>2 DEF MailTick, Handler

\* Every handler keeps rows and handlers well typed.
LEMMA MailTypeStep == MailInv /\ [MailNext]_mailVars => MailTypeOK'
<1> SUFFICES ASSUME MailInv, [MailNext]_mailVars PROVE MailTypeOK'
  OBVIOUS
<1>1. ASSUME NEW h \in Handlers, verifyEmail(h) PROVE MailTypeOK'
  BY <1>1 DEF verifyEmail, Enters, MailInv, MailTypeOK, Handler
<1>2. ASSUME NEW h \in Handlers, requestExistingEmailVerification(h) PROVE MailTypeOK'
  BY <1>2 DEF requestExistingEmailVerification, Enters, MailInv, MailTypeOK, Handler
<1>3. ASSUME NEW h \in Handlers, CheckCooldown(h) PROVE MailTypeOK'
  <2>a. [pc |-> "reusable", code |-> NoCode, late |-> FALSE] \in Handler
    BY DEF Handler
  <2>b. CASE Refused
    BY <1>3, <2>b, NoHandlerIsTyped DEF CheckCooldown, Leaves, MailInv, MailTypeOK
  <2>c. CASE ~(Refused)
    BY <1>3, <2>c, <2>a DEF CheckCooldown, Resumes, MailInv, MailTypeOK
  <2>. QED
    BY <2>b, <2>c
<1>4. ASSUME NEW h \in Handlers, FindNone(h) PROVE MailTypeOK'
  BY <1>4 DEF FindNone, Resumes, MailInv, MailTypeOK, Handler
<1>5. ASSUME NEW h \in Handlers, UpdateSent(h) PROVE MailTypeOK'
  <2>a. handlers[h].late \in BOOLEAN
    BY DEF MailInv, MailTypeOK, Handler
  <2>b. codes[handlers[h].code] \in Code
    BY <1>5 DEF UpdateSent, MailInv, MailTypeOK, HandlersHaveCodes
  <2>c. [pc |-> "mail", code |-> handlers[h].code, late |-> FALSE] \in Handler
    BY DEF MailInv, MailTypeOK, Handler
  <2>1. codes' \in [Codes -> Code]
    BY <1>5, <2>a, <2>b, SentRowIsTyped DEF UpdateSent, MailInv, MailTypeOK
  <2>2. user' \in {"none", "unverified", "verified"}
    BY <1>5 DEF UpdateSent, MailInv, MailTypeOK
  <2>3. handlers' \in [Handlers -> Handler]
    BY <1>5, <2>c DEF UpdateSent, Resumes, MailInv, MailTypeOK
  <2>. QED
    BY <2>1, <2>2, <2>3 DEF MailTypeOK
<1>6. ASSUME NEW h \in Handlers, SendMail(h) PROVE MailTypeOK'
  <2>1. codes' \in [Codes -> Code]
    <3>1. codes[handlers[h].code] \in Code
      BY <1>6 DEF SendMail, HandlersHaveCodes, MailInv, MailTypeOK
    <3>2. codes' = [codes EXCEPT ![handlers[h].code] =
                               [codes[handlers[h].code] EXCEPT !.mailed = TRUE]]
      BY <1>6 DEF SendMail
    <3>. QED
      BY <3>1, <3>2, MailedRowIsTyped DEF MailInv, MailTypeOK
  <2>2. user' \in {"none", "unverified", "verified"}
    BY <1>6 DEF SendMail, MailInv, MailTypeOK
  <2>3. handlers' \in [Handlers -> Handler]
    BY <1>6, NoHandlerIsTyped DEF SendMail, Leaves, MailInv, MailTypeOK
  <2>. QED
    BY <2>1, <2>2, <2>3 DEF MailTypeOK
<1>7. ASSUME NEW h \in Handlers, MailFails(h) PROVE MailTypeOK'
  <2>1. codes' \in [Codes -> Code]
    <3>1. codes[handlers[h].code] \in Code
      BY <1>7 DEF MailFails, HandlersHaveCodes, MailInv, MailTypeOK
    <3>2. codes' = [codes EXCEPT ![handlers[h].code] =
                               [codes[handlers[h].code] EXCEPT !.spoiled = TRUE]]
      BY <1>7 DEF MailFails
    <3>. QED
      BY <3>1, <3>2, MailedRowIsTyped DEF MailInv, MailTypeOK
  <2>2. user' \in {"none", "unverified", "verified"}
    BY <1>7 DEF MailFails, MailInv, MailTypeOK
  <2>3. handlers' \in [Handlers -> Handler]
    BY <1>7, NoHandlerIsTyped DEF MailFails, Leaves, MailInv, MailTypeOK
  <2>. QED
    BY <2>1, <2>2, <2>3 DEF MailTypeOK
<1>8. ASSUME NEW h \in Handlers, RegisterLooksUp(h) PROVE MailTypeOK'
  <2>a. [pc |-> "hash", code |-> handlers[h].code, late |-> FALSE] \in Handler
    BY DEF MailInv, MailTypeOK, Handler
  <2>b. CASE user = "none"
    BY <1>8, <2>b, <2>a DEF RegisterLooksUp, Resumes, MailInv, MailTypeOK
  <2>c. CASE ~(user = "none")
    BY <1>8, <2>c, NoHandlerIsTyped DEF RegisterLooksUp, Leaves, MailInv, MailTypeOK
  <2>. QED
    BY <2>b, <2>c
<1>9. ASSUME NEW h \in Handlers, RegisterCommit(h) PROVE MailTypeOK'
  BY <1>9
  DEF RegisterCommit, Leaves, MailInv, MailTypeOK, Code, Handler, NoHandler,
      HandlersHaveCodes
<1>10. ASSUME NEW h \in Handlers, VerifyLooksUp(h) PROVE MailTypeOK'
  <2>a. [pc |-> "promote", code |-> handlers[h].code, late |-> FALSE] \in Handler
    BY DEF MailInv, MailTypeOK, Handler
  <2>b. CASE user = "none"
    BY <1>10, <2>b, NoHandlerIsTyped DEF VerifyLooksUp, Leaves, MailInv, MailTypeOK
  <2>c. CASE ~(user = "none")
    BY <1>10, <2>c, <2>a DEF VerifyLooksUp, Resumes, MailInv, MailTypeOK
  <2>. QED
    BY <2>b, <2>c
<1>11. ASSUME NEW h \in Handlers, VerifyCommit(h) PROVE MailTypeOK'
  <2>1. codes' \in [Codes -> Code]
    BY <1>11 DEF VerifyCommit, Code, HandlersHaveCodes, MailInv, MailTypeOK
  <2>2. user' \in {"none", "unverified", "verified"}
    BY <1>11 DEF VerifyCommit
  <2>3. handlers' \in [Handlers -> Handler]
    BY <1>11, NoHandlerIsTyped DEF VerifyCommit, Leaves, MailInv, MailTypeOK
  <2>. QED
    BY <2>1, <2>2, <2>3 DEF MailTypeOK
<1>12. ASSUME NEW h \in Handlers, NEW c \in Codes, FindReusable(h, c) PROVE MailTypeOK'
  BY <1>12 DEF FindReusable, Resumes, MailInv, MailTypeOK, Handler
<1>13. ASSUME NEW h \in Handlers, NEW c \in Codes, CreateCode(h, c) PROVE MailTypeOK'
  BY <1>13 DEF CreateCode, Resumes, MailInv, MailTypeOK, Code, Handler
<1>14. ASSUME NEW h \in Handlers, NEW c \in Codes, register(h, c) PROVE MailTypeOK'
  BY <1>14 DEF register, Enters, MailInv, MailTypeOK, Handler
<1>15. ASSUME NEW h \in Handlers, NEW c \in Codes, verifyExistingEmail(h, c) PROVE MailTypeOK'
  BY <1>15 DEF verifyExistingEmail, Enters, MailInv, MailTypeOK, Handler
<1>16. ASSUME MailTick PROVE MailTypeOK'
  <2>1. codes' \in [Codes -> Code]
    BY <1>16, TickedRow DEF MailTick, MailInv
  <2>2. user' \in {"none", "unverified", "verified"}
    BY <1>16 DEF MailTick, MailInv, MailTypeOK
  <2>3. handlers' \in [Handlers -> Handler]
    BY <1>16, TickedHandler DEF MailTick, MailInv
  <2>. QED
    BY <2>1, <2>2, <2>3 DEF MailTypeOK
<1>17. ASSUME UNCHANGED mailVars PROVE MailTypeOK'
  BY <1>17 DEF mailVars, MailInv, MailTypeOK
<1>. QED
  BY <1>1, <1>2, <1>3, <1>4, <1>5, <1>6, <1>7, <1>8, <1>9, <1>10, <1>11, <1>12, <1>13,
     <1>14, <1>15, <1>16, <1>17
  DEF MailNext

\* Consuming a code and verifying the address are one step.
LEMMA CodesInFormStep == MailInv /\ [MailNext]_mailVars => CodesInForm'
<1> SUFFICES ASSUME MailInv, [MailNext]_mailVars PROVE CodesInForm'
  OBVIOUS
<1>1. ASSUME NEW h \in Handlers, verifyEmail(h) PROVE CodesInForm'
  BY <1>1 DEF verifyEmail, Enters, MailInv, CodesInForm
<1>2. ASSUME NEW h \in Handlers, requestExistingEmailVerification(h) PROVE CodesInForm'
  BY <1>2 DEF requestExistingEmailVerification, Enters, MailInv, CodesInForm
<1>3. ASSUME NEW h \in Handlers, CheckCooldown(h) PROVE CodesInForm'
  BY <1>3 DEF CheckCooldown, MailInv, CodesInForm
<1>4. ASSUME NEW h \in Handlers, FindNone(h) PROVE CodesInForm'
  BY <1>4 DEF FindNone, MailInv, CodesInForm
<1>5. ASSUME NEW h \in Handlers, UpdateSent(h) PROVE CodesInForm'
  BY <1>5 DEF UpdateSent, MailInv, NoHandler, CodesInForm, HandlersHaveCodes
<1>6. ASSUME NEW h \in Handlers, SendMail(h) PROVE CodesInForm'
  BY <1>6 DEF SendMail, MailInv, NoHandler, CodesInForm, HandlersHaveCodes
<1>7. ASSUME NEW h \in Handlers, MailFails(h) PROVE CodesInForm'
  BY <1>7 DEF MailFails, MailInv, NoHandler, CodesInForm, HandlersHaveCodes
<1>8. ASSUME NEW h \in Handlers, RegisterLooksUp(h) PROVE CodesInForm'
  BY <1>8 DEF RegisterLooksUp, MailInv, CodesInForm
<1>9. ASSUME NEW h \in Handlers, RegisterCommit(h) PROVE CodesInForm'
  <2>1. CASE user = "none"
    BY <1>9, <2>1 DEF RegisterCommit, MailInv, MailTypeOK, Code, CodesInForm
  <2>2. CASE user # "none"
    BY <1>9, <2>2 DEF RegisterCommit, MailInv, CodesInForm
  <2>. QED
    BY <2>1, <2>2
<1>10. ASSUME NEW h \in Handlers, VerifyLooksUp(h) PROVE CodesInForm'
  BY <1>10 DEF VerifyLooksUp, MailInv, CodesInForm
<1>11. ASSUME NEW h \in Handlers, VerifyCommit(h) PROVE CodesInForm'
  BY <1>11 DEF VerifyCommit, MailInv, CodesInForm
<1>12. ASSUME NEW h \in Handlers, NEW c \in Codes, FindReusable(h, c) PROVE CodesInForm'
  BY <1>12 DEF FindReusable, MailInv, CodesInForm
<1>13. ASSUME NEW h \in Handlers, NEW c \in Codes, CreateCode(h, c) PROVE CodesInForm'
  BY <1>13 DEF CreateCode, MailInv, CodesInForm
<1>14. ASSUME NEW h \in Handlers, NEW c \in Codes, register(h, c) PROVE CodesInForm'
  BY <1>14 DEF register, Enters, MailInv, CodesInForm
<1>15. ASSUME NEW h \in Handlers, NEW c \in Codes, verifyExistingEmail(h, c) PROVE CodesInForm'
  BY <1>15 DEF verifyExistingEmail, Enters, MailInv, CodesInForm
<1>16. ASSUME MailTick PROVE CodesInForm'
  <2>1. user' = user
    BY <1>16 DEF MailTick
  <2>. QED
    BY <1>16, <2>1, TickedRow DEF MailInv, CodesInForm
<1>17. ASSUME UNCHANGED mailVars PROVE CodesInForm'
  BY <1>17 DEF mailVars, MailInv, CodesInForm
<1>. QED
  BY <1>1, <1>2, <1>3, <1>4, <1>5, <1>6, <1>7, <1>8, <1>9, <1>10, <1>11, <1>12, <1>13,
     <1>14, <1>15, <1>16, <1>17
  DEF MailNext

\* A row that exists stays, and its age grows only while the clock marks the handlers
\* that hold it.
LEMMA HandlersHaveCodesStep == MailInv /\ [MailNext]_mailVars => HandlersHaveCodes'
<1> SUFFICES ASSUME MailInv, [MailNext]_mailVars PROVE HandlersHaveCodes'
  OBVIOUS
<1>1. ASSUME NEW h \in Handlers, verifyEmail(h) PROVE HandlersHaveCodes'
  BY <1>1 DEF verifyEmail, Enters, MailInv, HandlersHaveCodes
<1>2. ASSUME NEW h \in Handlers, requestExistingEmailVerification(h) PROVE HandlersHaveCodes'
  BY <1>2 DEF requestExistingEmailVerification, Enters, MailInv, HandlersHaveCodes
<1>3. ASSUME NEW h \in Handlers, CheckCooldown(h) PROVE HandlersHaveCodes'
  BY <1>3
  DEF CheckCooldown, Leaves, Resumes, MailInv, MailTypeOK, NoHandler, HandlersHaveCodes
<1>4. ASSUME NEW h \in Handlers, FindNone(h) PROVE HandlersHaveCodes'
  BY <1>4 DEF FindNone, Resumes, MailInv, HandlersHaveCodes
<1>5. ASSUME NEW h \in Handlers, UpdateSent(h) PROVE HandlersHaveCodes'
  BY <1>5 DEF UpdateSent, Resumes, MailInv, HandlersHaveCodes
<1>6. ASSUME NEW h \in Handlers, SendMail(h) PROVE HandlersHaveCodes'
  BY <1>6 DEF SendMail, Leaves, MailInv, NoHandler, HandlersHaveCodes
<1>7. ASSUME NEW h \in Handlers, MailFails(h) PROVE HandlersHaveCodes'
  BY <1>7 DEF MailFails, Leaves, MailInv, NoHandler, HandlersHaveCodes
<1>8. ASSUME NEW h \in Handlers, RegisterLooksUp(h) PROVE HandlersHaveCodes'
  BY <1>8
  DEF RegisterLooksUp, Resumes, Leaves, MailInv, MailTypeOK, NoHandler, HandlersHaveCodes
<1>9. ASSUME NEW h \in Handlers, RegisterCommit(h) PROVE HandlersHaveCodes'
  BY <1>9
  DEF RegisterCommit, Leaves, MailInv, MailTypeOK, Code, NoHandler, HandlersHaveCodes
<1>10. ASSUME NEW h \in Handlers, VerifyLooksUp(h) PROVE HandlersHaveCodes'
  BY <1>10
  DEF VerifyLooksUp, Resumes, Leaves, MailInv, MailTypeOK, NoHandler, HandlersHaveCodes
<1>11. ASSUME NEW h \in Handlers, VerifyCommit(h) PROVE HandlersHaveCodes'
  BY <1>11 DEF VerifyCommit, Leaves, MailInv, NoHandler, HandlersHaveCodes
<1>12. ASSUME NEW h \in Handlers, NEW c \in Codes, FindReusable(h, c) PROVE HandlersHaveCodes'
  BY <1>12 DEF FindReusable, Resumes, Reusable, MailInv, HandlersHaveCodes
<1>13. ASSUME NEW h \in Handlers, NEW c \in Codes, CreateCode(h, c) PROVE HandlersHaveCodes'
  BY <1>13 DEF CreateCode, Resumes, MailInv, MailTypeOK, HandlersHaveCodes
<1>14. ASSUME NEW h \in Handlers, NEW c \in Codes, register(h, c) PROVE HandlersHaveCodes'
  BY <1>14 DEF register, Enters, Valid, MailInv, HandlersHaveCodes
<1>15. ASSUME NEW h \in Handlers, NEW c \in Codes, verifyExistingEmail(h, c)
       PROVE  HandlersHaveCodes'
  BY <1>15 DEF verifyExistingEmail, Enters, Valid, MailInv, HandlersHaveCodes
<1>16. ASSUME MailTick PROVE HandlersHaveCodes'
  BY <1>16, TickedRow, TickedHandler DEF MailInv, HandlersHaveCodes, Handler
<1>17. ASSUME UNCHANGED mailVars PROVE HandlersHaveCodes'
  BY <1>17 DEF mailVars, MailInv, HandlersHaveCodes
<1>. QED
  BY <1>1, <1>2, <1>3, <1>4, <1>5, <1>6, <1>7, <1>8, <1>9, <1>10, <1>11, <1>12, <1>13,
     <1>14, <1>15, <1>16, <1>17
  DEF MailNext

\* The age of a code and the time since its sending grow together.
LEMMA SendingsHoldStep == MailInv /\ [MailNext]_mailVars => SendingsHold'
<1> SUFFICES ASSUME MailInv, [MailNext]_mailVars PROVE SendingsHold'
  OBVIOUS
<1>1. ASSUME NEW h \in Handlers, verifyEmail(h) PROVE SendingsHold'
  BY <1>1 DEF verifyEmail, Enters, MailInv, NoHandler, SendingsHold, Mailing
<1>2. ASSUME NEW h \in Handlers, requestExistingEmailVerification(h) PROVE SendingsHold'
  BY <1>2
  DEF requestExistingEmailVerification, Enters, MailInv, NoHandler, SendingsHold, Mailing
<1>3. ASSUME NEW h \in Handlers, CheckCooldown(h) PROVE SendingsHold'
  BY <1>3
  DEF CheckCooldown, Leaves, Resumes, MailInv, MailTypeOK, CodesInForm, SendingsHold,
      Mailing
<1>4. ASSUME NEW h \in Handlers, FindNone(h) PROVE SendingsHold'
  BY <1>4 DEF FindNone, Resumes, MailInv, SendingsHold, Mailing
<1>5. ASSUME NEW h \in Handlers, UpdateSent(h) PROVE SendingsHold'
  BY <1>5
  DEF UpdateSent, Resumes, MailInv, MailTypeOK, HandlersHaveCodes, SendingsHold, Mailing
<1>6. ASSUME NEW h \in Handlers, SendMail(h) PROVE SendingsHold'
  BY <1>6 DEF SendMail, Leaves, MailInv, MailTypeOK, SendingsHold, Mailing
<1>7. ASSUME NEW h \in Handlers, MailFails(h) PROVE SendingsHold'
  BY <1>7 DEF MailFails, Leaves, MailInv, MailTypeOK, SendingsHold, Mailing
<1>8. ASSUME NEW h \in Handlers, RegisterLooksUp(h) PROVE SendingsHold'
  BY <1>8
  DEF RegisterLooksUp, Resumes, Leaves, MailInv, MailTypeOK, NoHandler, SendingsHold,
      Mailing
<1>9. ASSUME NEW h \in Handlers, RegisterCommit(h) PROVE SendingsHold'
  BY <1>9
  DEF RegisterCommit, Leaves, MailInv, MailTypeOK, Code, NoCodeRow, CodesInForm,
      HandlersHaveCodes, SendingsHold, Mailing
<1>10. ASSUME NEW h \in Handlers, VerifyLooksUp(h) PROVE SendingsHold'
  BY <1>10 DEF VerifyLooksUp, Resumes, Leaves, MailInv, MailTypeOK, SendingsHold, Mailing
<1>11. ASSUME NEW h \in Handlers, VerifyCommit(h) PROVE SendingsHold'
  BY <1>11 DEF VerifyCommit, Leaves, MailInv, HandlersHaveCodes, SendingsHold, Mailing
<1>12. ASSUME NEW h \in Handlers, NEW c \in Codes, FindReusable(h, c) PROVE SendingsHold'
  BY <1>12 DEF FindReusable, Resumes, MailInv, SendingsHold, Mailing
<1>13. ASSUME NEW h \in Handlers, NEW c \in Codes, CreateCode(h, c) PROVE SendingsHold'
  BY <1>13
  DEF CreateCode, Resumes, MailInv, MailTypeOK, NoCodeRow, CodesInForm, SendingsHold,
      Mailing
<1>14. ASSUME NEW h \in Handlers, NEW c \in Codes, register(h, c) PROVE SendingsHold'
  BY <1>14 DEF register, Enters, MailInv, NoHandler, SendingsHold, Mailing
<1>15. ASSUME NEW h \in Handlers, NEW c \in Codes, verifyExistingEmail(h, c) PROVE SendingsHold'
  BY <1>15 DEF verifyExistingEmail, Enters, MailInv, NoHandler, SendingsHold, Mailing
<1>16. ASSUME MailTick PROVE SendingsHold'
  <2>1. ASSUME NEW c \in Codes, Mailing(c) PROVE Mailing(c)'
    BY <1>16, <2>1, TickedHandler DEF MailInv, Mailing
  <2>2. ASSUME NEW c \in Codes PROVE codes[c].age \in 0..Ttl + 1 /\ codes[c].sent \in 0..Cooldown
    BY DEF MailInv, MailTypeOK, Code
  <2>. QED
    BY <1>16, <2>1, <2>2, TickedRow DEF MailInv, SendingsHold
<1>17. ASSUME UNCHANGED mailVars PROVE SendingsHold'
  BY <1>17 DEF mailVars, MailInv, SendingsHold, Mailing
<1>. QED
  BY <1>1, <1>2, <1>3, <1>4, <1>5, <1>6, <1>7, <1>8, <1>9, <1>10, <1>11, <1>12, <1>13,
     <1>14, <1>15, <1>16, <1>17
  DEF MailNext

\* At first there is no code, and nobody waits for one.
LEMMA MailInvInit == MailInit => MailInv
BY DEF MailInit, MailInv, MailTypeOK, Code, NoCodeRow, Handler, NoHandler, CodesInForm,
   HandlersHaveCodes, SendingsHold

\* Every behaviour of MailSpec keeps the inductive invariant.
THEOREM MailInvariant == MailSpec => []MailInv
<1>1. MailInv /\ [MailNext]_mailVars => MailInv'
  BY MailTypeStep, CodesInFormStep, HandlersHaveCodesStep, SendingsHoldStep DEF MailInv
<1>. QED
  BY <1>1, MailInvInit, PTL DEF MailSpec

\* Whoever is told to wait for a mail has a code that works or is about to be sent, for any
\* lifetime of codes and any cooldown within it.
THEOREM WaitersHaveCode == MailSpec => []WaitingHasCode
<1>1. MailInv => WaitingHasCode
  <2>. SUFFICES ASSUME MailInv, user # "verified", NEW c \in Codes, codes[c].state # "none",
                       codes[c].sent < Cooldown, ~codes[c].spoiled
                PROVE  Valid(c) /\ (codes[c].mailed \/ Mailing(c))
    BY DEF WaitingHasCode, Mailing
  <2>1. codes[c].age <= Ttl - Cooldown + codes[c].sent /\ (codes[c].mailed \/ Mailing(c))
    BY DEF MailInv, SendingsHold
  <2>2. codes[c].state = "issued" /\ codes[c].age \in Int /\ codes[c].sent \in Int
    BY DEF MailInv, MailTypeOK, Code, CodesInForm
  <2>. QED
    BY <2>1, <2>2 DEF Valid
<1>. QED
  BY <1>1, MailInvariant, PTL

-----------------------------------------------------------------------------
(* TwoFactor *)

\* What a call confirms or lets in with is a code.
LEMMA AcceptingIsTyped ==
  ASSUME TotpInv, NEW k \in Calls, calls[k].pc \in {"activate", "store"}, Accepts(k)
  PROVE  /\ accepted' \in SUBSET (Secrets \X Steps) /\ reopened' \in SUBSET accepted'
         /\ repeated \in SUBSET accepted'
<1>1. calls[k].secret \in Secrets /\ calls[k].step \in Steps
  BY DEF TotpInv, TotpTypeOK, Call, CallsInForm
<1>. QED
  BY <1>1 DEF Accepts, TotpInv, TotpTypeOK

\* Every call keeps the row and the histories well typed.
LEMMA TotpTypeStep == TotpInv /\ [TotpNext]_totpVars => TotpTypeOK'
<1> SUFFICES ASSUME TotpInv, [TotpNext]_totpVars PROVE TotpTypeOK'
  OBVIOUS
<1>1. ASSUME NEW k \in Calls, NEW secret \in Secrets, generate2FASecret(k, secret)
      PROVE  TotpTypeOK'
  BY <1>1 DEF generate2FASecret, Calling, TotpInv, TotpTypeOK, Call
<1>2. ASSUME NEW k \in Calls, NEW s \in Steps, confirm2FA(k, s) PROVE TotpTypeOK'
  BY <1>2 DEF confirm2FA, PassesCheck, Calling, TotpInv, TotpTypeOK, Call, Steps
<1>3. ASSUME NEW k \in Calls, NEW s \in Steps, CodeRequired(k, s) PROVE TotpTypeOK'
  BY <1>3 DEF CodeRequired, Calling, TotpInv, TotpTypeOK, Call, Steps
<1>4. ASSUME NEW k \in Calls, NEW s \in Steps, remove2FA(k, s) PROVE TotpTypeOK'
  BY <1>4 DEF remove2FA, PassesCheck, Calling, TotpInv, TotpTypeOK, Call, Steps
<1>5. ASSUME NEW k \in Calls, SetUp(k) PROVE TotpTypeOK'
  BY <1>5 DEF SetUp, Writes, TotpInv, TotpTypeOK, Call, NoCall
<1>6. ASSUME NEW k \in Calls, Activate(k) PROVE TotpTypeOK'
  <2>1. calls[k].step \in 0..MaxStep
    BY DEF TotpInv, TotpTypeOK, Call
  <2>2. row' \in [secret: Secrets \cup {NoSecret}, active: BOOLEAN, last: 0..MaxStep]
    BY <1>6, <2>1 DEF Activate, Writes, TotpInv, TotpTypeOK
  <2>3. calls' \in [Calls -> Call] /\ stale' \in SUBSET Calls
    BY <1>6 DEF Activate, Writes, TotpInv, TotpTypeOK, Call, NoCall
  <2>. QED
    BY <1>6, <2>2, <2>3, AcceptingIsTyped DEF Activate, TotpInv, TotpTypeOK
<1>7. ASSUME NEW k \in Calls, VerifyCode(k) PROVE TotpTypeOK'
  <2>1. calls' \in [Calls -> Call] /\ stale' \in SUBSET Calls
    BY <1>7 DEF VerifyCode, Calling, TotpInv, TotpTypeOK, Call, NoCall
  <2>2. repeated' \in SUBSET accepted
    BY <1>7 DEF VerifyCode, PassesCheck, TotpInv, TotpTypeOK
  <2>. QED
    BY <1>7, <2>1, <2>2 DEF VerifyCode, TotpInv, TotpTypeOK
<1>8. ASSUME NEW k \in Calls, StoreStep(k) PROVE TotpTypeOK'
  <2>1. calls[k].step \in 0..MaxStep
    BY DEF TotpInv, TotpTypeOK, Call
  <2>2. row' \in [secret: Secrets \cup {NoSecret}, active: BOOLEAN, last: 0..MaxStep]
    BY <1>8, <2>1 DEF StoreStep, Writes, TotpInv, TotpTypeOK
  <2>3. calls' \in [Calls -> Call] /\ stale' \in SUBSET Calls
    BY <1>8 DEF StoreStep, Writes, TotpInv, TotpTypeOK, Call, NoCall
  <2>. QED
    BY <1>8, <2>2, <2>3, AcceptingIsTyped DEF StoreStep, TotpInv, TotpTypeOK
<1>9. ASSUME NEW k \in Calls, Drop(k) PROVE TotpTypeOK'
  BY <1>9 DEF Drop, Writes, TotpInv, TotpTypeOK, Call, NoCall
<1>10. ASSUME NEW k \in Calls, CallFails(k) PROVE TotpTypeOK'
  BY <1>10 DEF CallFails, TotpInv, TotpTypeOK, Call, NoCall
<1>11. ASSUME StepPasses PROVE TotpTypeOK'
  BY <1>11 DEF StepPasses, TotpInv, TotpTypeOK, Steps
<1>12. ASSUME UNCHANGED totpVars PROVE TotpTypeOK'
  BY <1>12 DEF totpVars, TotpInv, TotpTypeOK
<1>. QED
  BY <1>1, <1>2, <1>3, <1>4, <1>5, <1>6, <1>7, <1>8, <1>9, <1>10, <1>11, <1>12 DEF TotpNext

\* A secret is generated once, and only its own set-up brings it into the row.
LEMMA SecretsAreNewStep == TotpInv /\ [TotpNext]_totpVars => SecretsAreNew'
<1> SUFFICES ASSUME TotpInv, [TotpNext]_totpVars PROVE SecretsAreNew'
  OBVIOUS
<1>1. ASSUME NEW k \in Calls, NEW secret \in Secrets, generate2FASecret(k, secret)
      PROVE  SecretsAreNew'
  BY <1>1 DEF generate2FASecret, Calling, TotpInv, SecretsAreNew
<1>2. ASSUME NEW k \in Calls, NEW s \in Steps, confirm2FA(k, s) PROVE SecretsAreNew'
  BY <1>2 DEF confirm2FA, Calling, TotpInv, SecretsAreNew
<1>3. ASSUME NEW k \in Calls, NEW s \in Steps, CodeRequired(k, s) PROVE SecretsAreNew'
  BY <1>3 DEF CodeRequired, Calling, TotpInv, SecretsAreNew
<1>4. ASSUME NEW k \in Calls, NEW s \in Steps, remove2FA(k, s) PROVE SecretsAreNew'
  BY <1>4 DEF remove2FA, Calling, TotpInv, SecretsAreNew
<1>5. ASSUME NEW k \in Calls, SetUp(k) PROVE SecretsAreNew'
  BY <1>5 DEF SetUp, Writes, TotpInv, TotpTypeOK, NoCall, SecretsAreNew
<1>6. ASSUME NEW k \in Calls, Activate(k) PROVE SecretsAreNew'
  BY <1>6 DEF Activate, Accepts, Writes, TotpInv, NoCall, CallsInForm, SecretsAreNew
<1>7. ASSUME NEW k \in Calls, VerifyCode(k) PROVE SecretsAreNew'
  BY <1>7 DEF VerifyCode, Calling, TotpInv, TotpTypeOK, NoCall, SecretsAreNew
<1>8. ASSUME NEW k \in Calls, StoreStep(k) PROVE SecretsAreNew'
  BY <1>8 DEF StoreStep, Accepts, Writes, TotpInv, NoCall, CallsInForm, SecretsAreNew
<1>9. ASSUME NEW k \in Calls, Drop(k) PROVE SecretsAreNew'
  BY <1>9 DEF Drop, Writes, TotpInv, NoCall, SecretsAreNew
<1>10. ASSUME NEW k \in Calls, CallFails(k) PROVE SecretsAreNew'
  BY <1>10 DEF CallFails, TotpInv, NoCall, SecretsAreNew
<1>11. ASSUME StepPasses PROVE SecretsAreNew'
  BY <1>11 DEF StepPasses, TotpInv, SecretsAreNew
<1>12. ASSUME UNCHANGED totpVars PROVE SecretsAreNew'
  BY <1>12 DEF totpVars, TotpInv, SecretsAreNew
<1>. QED
  BY <1>1, <1>2, <1>3, <1>4, <1>5, <1>6, <1>7, <1>8, <1>9, <1>10, <1>11, <1>12 DEF TotpNext

\* A call carries its step from its check to its write, and is overtaken only while it runs.
LEMMA CallsInFormStep == TotpInv /\ [TotpNext]_totpVars => CallsInForm'
<1> SUFFICES ASSUME TotpInv, [TotpNext]_totpVars PROVE CallsInForm'
  OBVIOUS
<1>1. ASSUME NEW k \in Calls, NEW secret \in Secrets, generate2FASecret(k, secret)
      PROVE  CallsInForm'
  BY <1>1 DEF generate2FASecret, Calling, TotpInv, CallsInForm
<1>2. ASSUME NEW k \in Calls, NEW s \in Steps, confirm2FA(k, s) PROVE CallsInForm'
  BY <1>2 DEF confirm2FA, Calling, TotpInv, CallsInForm
<1>3. ASSUME NEW k \in Calls, NEW s \in Steps, CodeRequired(k, s) PROVE CallsInForm'
  BY <1>3 DEF CodeRequired, Calling, TotpInv, CallsInForm
<1>4. ASSUME NEW k \in Calls, NEW s \in Steps, remove2FA(k, s) PROVE CallsInForm'
  BY <1>4 DEF remove2FA, Calling, TotpInv, CallsInForm
<1>5. ASSUME NEW k \in Calls, SetUp(k) PROVE CallsInForm'
  BY <1>5 DEF SetUp, Writes, TotpInv, NoCall, CallsInForm
<1>6. ASSUME NEW k \in Calls, Activate(k) PROVE CallsInForm'
  BY <1>6 DEF Activate, Writes, TotpInv, NoCall, CallsInForm
<1>7. ASSUME NEW k \in Calls, VerifyCode(k) PROVE CallsInForm'
  BY <1>7 DEF VerifyCode, Calling, TotpInv, TotpTypeOK, NoCall, CallsInForm
<1>8. ASSUME NEW k \in Calls, StoreStep(k) PROVE CallsInForm'
  BY <1>8 DEF StoreStep, Writes, TotpInv, NoCall, CallsInForm
<1>9. ASSUME NEW k \in Calls, Drop(k) PROVE CallsInForm'
  BY <1>9 DEF Drop, Writes, TotpInv, NoCall, CallsInForm
<1>10. ASSUME NEW k \in Calls, CallFails(k) PROVE CallsInForm'
  BY <1>10 DEF CallFails, TotpInv, NoCall, CallsInForm
<1>11. ASSUME StepPasses PROVE CallsInForm'
  BY <1>11 DEF StepPasses, TotpInv, CallsInForm
<1>12. ASSUME UNCHANGED totpVars PROVE CallsInForm'
  BY <1>12 DEF totpVars, TotpInv, CallsInForm
<1>. QED
  BY <1>1, <1>2, <1>3, <1>4, <1>5, <1>6, <1>7, <1>8, <1>9, <1>10, <1>11, <1>12 DEF TotpNext

\* A code that passes a check comes after the last step, so that it is new or was reopened.
LEMMA ChecksPassNewCodes ==
  ASSUME TotpInv, NEW s \in Steps, verifyUserTotp(s), PassesCheck(s)
  PROVE  repeated' \subseteq reopened
<1>1. <<row.secret, s>> \in accepted => <<row.secret, s>> \in reopened
  <2>1. row.last \in Int /\ s \in Int /\ s > row.last
    BY DEF verifyUserTotp, TotpInv, TotpTypeOK, Steps
  <2>2. \A code \in accepted : code[1] = row.secret => code[2] <= row.last \/ code \in reopened
    BY DEF TotpInv, StepsGrow
  <2>. QED
    BY <2>1, <2>2
<1>. QED
  BY <1>1 DEF PassesCheck, TotpInv, StepsGrow

\* A call that stores its step leaves no accepted code above it that is not reopened: it was
\* overtaken, or its step comes after the last.
LEMMA AcceptingGrows ==
  ASSUME TotpInv, NEW k \in Calls, calls[k].pc \in {"activate", "store"}, Accepts(k),
         repeated' = repeated, row'.secret = row.secret, row'.last = calls[k].step,
         calls' = [calls EXCEPT ![k] = NoCall], stale' = {i \in Calls \ {k} : calls[i] # NoCall}
  PROVE  StepsGrow'
<1>1. /\ row.last \in Int /\ calls[k].step \in Int
      /\ \A code \in accepted : code[2] \in Int
  BY DEF TotpInv, TotpTypeOK, Call, Steps
<1>2. repeated' \subseteq reopened'
  BY DEF Accepts, TotpInv, StepsGrow
<1>3. ASSUME NEW code \in accepted, code[1] = row.secret
      PROVE  code[2] <= calls[k].step \/ code \in reopened'
  <2>1. CASE k \in stale
    BY <1>1, <1>3, <2>1 DEF Accepts
  <2>2. CASE k \notin stale
    <3>1. calls[k].step > row.last /\ (code[2] <= row.last \/ code \in reopened)
      BY <1>3, <2>2 DEF TotpInv, StepsGrow
    <3>. QED
      BY <1>1, <3>1 DEF Accepts
  <2>. QED
    BY <2>1, <2>2
<1>4. \A code \in accepted' : code[1] = row.secret => code[2] <= calls[k].step \/ code \in reopened'
  <2>1. ASSUME NEW code \in accepted', code \notin accepted PROVE code[2] <= calls[k].step
    BY <1>1, <2>1 DEF Accepts
  <2>. QED
    BY <1>3, <2>1
<1>5. \A i \in Calls \ stale' : calls'[i].pc = "idle"
  BY DEF TotpInv, TotpTypeOK, NoCall
<1>. QED
  BY <1>2, <1>4, <1>5 DEF StepsGrow

\* A write overtakes every other call, so that a call that was not overtaken stores a step above
\* the row's.
LEMMA StepsGrowStep == TotpInv /\ [TotpNext]_totpVars => StepsGrow'
<1> SUFFICES ASSUME TotpInv, [TotpNext]_totpVars PROVE StepsGrow'
  OBVIOUS
<1>1. ASSUME NEW k \in Calls, NEW secret \in Secrets, generate2FASecret(k, secret)
      PROVE  StepsGrow'
  BY <1>1 DEF generate2FASecret, Calling, TotpInv, StepsGrow
<1>2. ASSUME NEW k \in Calls, NEW s \in Steps, confirm2FA(k, s) PROVE StepsGrow'
  <2>1. repeated' \subseteq reopened'
    BY <1>2, ChecksPassNewCodes DEF confirm2FA
  <2>. QED
    BY <1>2, <2>1 DEF confirm2FA, Calling, verifyUserTotp, TotpInv, StepsGrow
<1>3. ASSUME NEW k \in Calls, NEW s \in Steps, CodeRequired(k, s) PROVE StepsGrow'
  BY <1>3 DEF CodeRequired, Calling, TotpInv, StepsGrow
<1>4. ASSUME NEW k \in Calls, NEW s \in Steps, remove2FA(k, s) PROVE StepsGrow'
  <2>1. repeated' \subseteq reopened'
    BY <1>4, ChecksPassNewCodes DEF remove2FA
  <2>. QED
    BY <1>4, <2>1 DEF remove2FA, Calling, TotpInv, StepsGrow
<1>5. ASSUME NEW k \in Calls, SetUp(k) PROVE StepsGrow'
  BY <1>5 DEF SetUp, Writes, TotpInv, NoCall, SecretsAreNew, StepsGrow
<1>6. ASSUME NEW k \in Calls, Activate(k) PROVE StepsGrow'
  <2>1. row'.secret = row.secret /\ row'.last = calls[k].step
    BY <1>6 DEF Activate, Writes, TotpInv, TotpTypeOK
  <2>2. /\ calls[k].pc \in {"activate", "store"} /\ Accepts(k) /\ repeated' = repeated
        /\ calls' = [calls EXCEPT ![k] = NoCall] /\ stale' = {i \in Calls \ {k} : calls[i] # NoCall}
    BY <1>6 DEF Activate, Writes
  <2>. QED
    BY <2>1, <2>2, AcceptingGrows
<1>7. ASSUME NEW k \in Calls, VerifyCode(k) PROVE StepsGrow'
  <2>1. calls[k].step \in Steps
    BY <1>7 DEF VerifyCode, TotpInv, CallsInForm
  <2>2. repeated' \subseteq reopened'
    BY <1>7, <2>1, ChecksPassNewCodes DEF VerifyCode, TotpInv, StepsGrow
  <2>. QED
    BY <1>7, <2>2 DEF VerifyCode, Calling, verifyUserTotp, TotpInv, TotpTypeOK, NoCall, StepsGrow
<1>8. ASSUME NEW k \in Calls, StoreStep(k) PROVE StepsGrow'
  <2>1. row'.secret = row.secret /\ row'.last = calls[k].step
    BY <1>8 DEF StoreStep, Writes, TotpInv, TotpTypeOK
  <2>2. /\ calls[k].pc \in {"activate", "store"} /\ Accepts(k) /\ repeated' = repeated
        /\ calls' = [calls EXCEPT ![k] = NoCall] /\ stale' = {i \in Calls \ {k} : calls[i] # NoCall}
    BY <1>8 DEF StoreStep, Writes
  <2>. QED
    BY <2>1, <2>2, AcceptingGrows
<1>9. ASSUME NEW k \in Calls, Drop(k) PROVE StepsGrow'
  BY <1>9 DEF Drop, Writes, TotpInv, TotpTypeOK, NoCall, StepsGrow
<1>10. ASSUME NEW k \in Calls, CallFails(k) PROVE StepsGrow'
  BY <1>10 DEF CallFails, TotpInv, TotpTypeOK, NoCall, StepsGrow
<1>11. ASSUME StepPasses PROVE StepsGrow'
  BY <1>11 DEF StepPasses, TotpInv, StepsGrow
<1>12. ASSUME UNCHANGED totpVars PROVE StepsGrow'
  BY <1>12 DEF totpVars, TotpInv, StepsGrow
<1>. QED
  BY <1>1, <1>2, <1>3, <1>4, <1>5, <1>6, <1>7, <1>8, <1>9, <1>10, <1>11, <1>12 DEF TotpNext

\* A write that changes the secret crosses every confirmation on its way.
LEMMA ConfirmationsHoldStep == TotpInv /\ [TotpNext]_totpVars => ConfirmationsHold'
<1> SUFFICES ASSUME TotpInv, [TotpNext]_totpVars PROVE ConfirmationsHold'
  OBVIOUS
<1>1. ASSUME NEW k \in Calls, NEW secret \in Secrets, generate2FASecret(k, secret)
      PROVE  ConfirmationsHold'
  BY <1>1 DEF generate2FASecret, Calling, TotpInv, ConfirmationsHold
<1>2. ASSUME NEW k \in Calls, NEW s \in Steps, confirm2FA(k, s) PROVE ConfirmationsHold'
  BY <1>2 DEF confirm2FA, Calling, TotpInv, ConfirmationsHold
<1>3. ASSUME NEW k \in Calls, NEW s \in Steps, CodeRequired(k, s) PROVE ConfirmationsHold'
  BY <1>3 DEF CodeRequired, Calling, TotpInv, ConfirmationsHold
<1>4. ASSUME NEW k \in Calls, NEW s \in Steps, remove2FA(k, s) PROVE ConfirmationsHold'
  BY <1>4 DEF remove2FA, Calling, TotpInv, ConfirmationsHold
<1>5. ASSUME NEW k \in Calls, SetUp(k) PROVE ConfirmationsHold'
  BY <1>5 DEF SetUp, Writes, Confirming, TotpInv, TotpTypeOK, NoCall, ConfirmationsHold
<1>6. ASSUME NEW k \in Calls, Activate(k) PROVE ConfirmationsHold'
  BY <1>6 DEF Activate, Writes, TotpInv, NoCall, ConfirmationsHold
<1>7. ASSUME NEW k \in Calls, VerifyCode(k) PROVE ConfirmationsHold'
  BY <1>7 DEF VerifyCode, Calling, TotpInv, TotpTypeOK, NoCall, ConfirmationsHold
<1>8. ASSUME NEW k \in Calls, StoreStep(k) PROVE ConfirmationsHold'
  BY <1>8 DEF StoreStep, Writes, TotpInv, NoCall, ConfirmationsHold
<1>9. ASSUME NEW k \in Calls, Drop(k) PROVE ConfirmationsHold'
  BY <1>9 DEF Drop, Writes, Confirming, TotpInv, TotpTypeOK, NoCall, ConfirmationsHold
<1>10. ASSUME NEW k \in Calls, CallFails(k) PROVE ConfirmationsHold'
  BY <1>10 DEF CallFails, TotpInv, NoCall, ConfirmationsHold
<1>11. ASSUME StepPasses PROVE ConfirmationsHold'
  BY <1>11 DEF StepPasses, TotpInv, ConfirmationsHold
<1>12. ASSUME UNCHANGED totpVars PROVE ConfirmationsHold'
  BY <1>12 DEF totpVars, TotpInv, ConfirmationsHold
<1>. QED
  BY <1>1, <1>2, <1>3, <1>4, <1>5, <1>6, <1>7, <1>8, <1>9, <1>10, <1>11, <1>12 DEF TotpNext

\* What is switched on was confirmed.
LEMMA ActiveStep == TotpInv /\ [TotpNext]_totpVars => ActiveSecretWasConfirmed'
<1> SUFFICES ASSUME TotpInv, [TotpNext]_totpVars PROVE ActiveSecretWasConfirmed'
  OBVIOUS
<1>1. ASSUME NEW k \in Calls, NEW secret \in Secrets, generate2FASecret(k, secret)
      PROVE  ActiveSecretWasConfirmed'
  BY <1>1 DEF generate2FASecret, ActiveSecretWasConfirmed
<1>2. ASSUME NEW k \in Calls, NEW s \in Steps, confirm2FA(k, s) PROVE ActiveSecretWasConfirmed'
  BY <1>2 DEF confirm2FA, ActiveSecretWasConfirmed
<1>3. ASSUME NEW k \in Calls, NEW s \in Steps, CodeRequired(k, s) PROVE ActiveSecretWasConfirmed'
  BY <1>3 DEF CodeRequired, TotpInv, ActiveSecretWasConfirmed
<1>4. ASSUME NEW k \in Calls, NEW s \in Steps, remove2FA(k, s) PROVE ActiveSecretWasConfirmed'
  BY <1>4 DEF remove2FA, TotpInv, ActiveSecretWasConfirmed
<1>5. ASSUME NEW k \in Calls, SetUp(k) PROVE ActiveSecretWasConfirmed'
  BY <1>5 DEF SetUp, Writes, ActiveSecretWasConfirmed
<1>6. ASSUME NEW k \in Calls, Activate(k) PROVE ActiveSecretWasConfirmed'
  BY <1>6 DEF Activate, Writes, TotpInv, ConfirmationsHold, ActiveSecretWasConfirmed
<1>7. ASSUME NEW k \in Calls, VerifyCode(k) PROVE ActiveSecretWasConfirmed'
  BY <1>7 DEF VerifyCode, TotpInv, ActiveSecretWasConfirmed
<1>8. ASSUME NEW k \in Calls, StoreStep(k) PROVE ActiveSecretWasConfirmed'
  BY <1>8 DEF StoreStep, Writes, TotpInv, ActiveSecretWasConfirmed
<1>9. ASSUME NEW k \in Calls, Drop(k) PROVE ActiveSecretWasConfirmed'
  BY <1>9 DEF Drop, Writes, ActiveSecretWasConfirmed
<1>10. ASSUME NEW k \in Calls, CallFails(k) PROVE ActiveSecretWasConfirmed'
  BY <1>10 DEF CallFails, TotpInv, ActiveSecretWasConfirmed
<1>11. ASSUME StepPasses PROVE ActiveSecretWasConfirmed'
  BY <1>11 DEF StepPasses, TotpInv, ActiveSecretWasConfirmed
<1>12. ASSUME UNCHANGED totpVars PROVE ActiveSecretWasConfirmed'
  BY <1>12 DEF totpVars, TotpInv, ActiveSecretWasConfirmed
<1>. QED
  BY <1>1, <1>2, <1>3, <1>4, <1>5, <1>6, <1>7, <1>8, <1>9, <1>10, <1>11, <1>12 DEF TotpNext

\* At first there is no secret, no code was accepted and no call runs.
LEMMA TotpInvInit == TotpInit => TotpInv
<1>1. TotpInit => TotpTypeOK
  <2>1. NoCall \in Call
    BY DEF NoCall, Call
  <2>2. [secret |-> NoSecret, active |-> FALSE, last |-> 0]
           \in [secret: Secrets \cup {NoSecret}, active: BOOLEAN, last: 0..MaxStep]
    OBVIOUS
  <2>3. TotpInit => reopened \in SUBSET accepted /\ crossed \in BOOLEAN
    BY DEF TotpInit
  <2>4. TotpInit => row \in [secret: Secrets \cup {NoSecret}, active: BOOLEAN, last: 0..MaxStep]
    BY <2>2 DEF TotpInit
  <2>5. TotpInit => calls \in [Calls -> Call] /\ step \in Steps
    BY <2>1 DEF TotpInit, Steps
  <2>6. TotpInit => /\ generated \in SUBSET Secrets /\ confirmed \in SUBSET Secrets
                    /\ accepted \in SUBSET (Secrets \X Steps) /\ repeated \in SUBSET accepted
                    /\ stale \in SUBSET Calls
    BY DEF TotpInit
  <2>. QED
    BY <2>3, <2>4, <2>5, <2>6 DEF TotpTypeOK
<1>2. TotpInit => SecretsAreNew /\ CallsInForm /\ StepsGrow
  BY DEF TotpInit, SecretsAreNew, CallsInForm, StepsGrow, NoCall
<1>3. TotpInit => ConfirmationsHold /\ ActiveSecretWasConfirmed
  BY DEF TotpInit, ConfirmationsHold, ActiveSecretWasConfirmed, NoCall
<1>. QED
  BY <1>1, <1>2, <1>3 DEF TotpInv

\* Every behaviour of TotpSpec keeps the inductive invariant.
THEOREM TotpInvariant == TotpSpec => []TotpInv
<1>1. TotpInv /\ [TotpNext]_totpVars => TotpInv'
  BY TotpTypeStep, SecretsAreNewStep, CallsInFormStep, StepsGrowStep,
     ConfirmationsHoldStep, ActiveStep
  DEF TotpInv
<1>. QED
  BY <1>1, TotpInvInit, PTL DEF TotpSpec

\* A code whose step was stored passes no later check, however many calls there are, unless a
\* call has put a lower step over a row that another had written since it read it.
THEOREM CodesAreUsedOnce == TotpSpec => []CodeAcceptedOnce
<1>1. TotpInv => CodeAcceptedOnce
  BY DEF TotpInv, StepsGrow, CodeAcceptedOnce
<1>. QED
  BY <1>1, TotpInvariant, PTL

\* 2FA is on only with a secret that was confirmed, unless a set-up or a removal wrote the
\* row while a confirmation was on its way.
THEOREM ActiveWasConfirmed == TotpSpec => []ActiveSecretWasConfirmed
<1>1. TotpInv => ActiveSecretWasConfirmed
  BY DEF TotpInv
<1>. QED
  BY <1>1, TotpInvariant, PTL

-----------------------------------------------------------------------------
(* ConsoleTerminal *)

\* Every handler keeps the tables of sessions and requests well typed.
LEMMA TerminalTypeStep == TerminalInv /\ [TerminalNext]_terminalVars => TerminalTypeOK'
<1> SUFFICES ASSUME TerminalInv, [TerminalNext]_terminalVars PROVE TerminalTypeOK'
  OBVIOUS
<1>1. ASSUME NEW c \in Consoles, ConsoleConnects(c) PROVE TerminalTypeOK'
  BY <1>1 DEF ConsoleConnects, TerminalInv, TerminalTypeOK
<1>2. ASSUME NEW c \in Consoles, ConsoleDisconnects(c) PROVE TerminalTypeOK'
  BY <1>2
  DEF ConsoleDisconnects, Without, Removes, TerminalInv, TerminalTypeOK, Entry, NoEntry
<1>3. ASSUME NEW p \in Passes, PassExpires(p) PROVE TerminalTypeOK'
  BY <1>3 DEF PassExpires, TerminalInv, TerminalTypeOK
<1>4. ASSUME NEW p \in Passes, NEW a \in Agents, mintPurposeToken(p, a) PROVE TerminalTypeOK'
  BY <1>4 DEF mintPurposeToken, TerminalInv, TerminalTypeOK
<1>5. ASSUME NEW o \in Opens, OpenReads(o) PROVE TerminalTypeOK'
  <2>1. CASE canAccessAgent(opens[o].agent) /\ opens[o].pc = "access"
    BY <1>5, <2>1 DEF OpenReads, TerminalInv, TerminalTypeOK, Open
  <2>2. CASE canAccessAgent(opens[o].agent) /\ opens[o].pc = "metric"
    BY <1>5, <2>2 DEF OpenReads, TerminalInv, TerminalTypeOK, Open
  <2>3. CASE ~canAccessAgent(opens[o].agent)
    BY <1>5, <2>3 DEF OpenReads, Returns, NoOpen, TerminalInv, TerminalTypeOK, Open
  <2>. QED
    BY <1>5, <2>1, <2>2, <2>3 DEF OpenReads
<1>6. ASSUME NEW o \in Opens, NEW i \in Ids, OpenTerminal(o, i) PROVE TerminalTypeOK'
  <2>1. terminals' \in [Ids -> Entry]
    BY <1>6 DEF OpenTerminal, TerminalInv, TerminalTypeOK, SessionsInForm, Entry
  <2>2. opens' \in [Opens -> Open]
    BY <1>6 DEF OpenTerminal, Returns, TerminalInv, TerminalTypeOK, Open, NoOpen
  <2>3. consumed' \in SUBSET Passes
    BY <1>6 DEF OpenTerminal, TerminalInv, TerminalTypeOK, SessionsInForm
  <2>4. unattended' \in SUBSET Ids
    BY <1>6 DEF OpenTerminal, TerminalInv, TerminalTypeOK
  <2>. QED
    BY <1>6, <2>1, <2>2, <2>3, <2>4 DEF OpenTerminal, TerminalInv, TerminalTypeOK
<1>7. ASSUME NEW o \in Opens, NEW i \in Ids, RequestMetrics(o, i) PROVE TerminalTypeOK'
  BY <1>7 DEF RequestMetrics, Returns, TerminalInv, TerminalTypeOK, Entry, Open, NoOpen
<1>8. ASSUME NEW o \in Opens, NEW c \in Consoles, NEW p \in Passes, handleTerminalOpen(o, c, p)
      PROVE  TerminalTypeOK'
  BY <1>8 DEF handleTerminalOpen, TerminalInv, TerminalTypeOK, Open
<1>9. ASSUME NEW o \in Opens, NEW c \in Consoles, NEW a \in Agents,
             handleAgentMetricsRequest(o, c, a)
      PROVE  TerminalTypeOK'
  BY <1>9 DEF handleAgentMetricsRequest, TerminalInv, TerminalTypeOK, Open, NoOpen
<1>10. ASSUME NEW i \in Ids, MetricsEnd(i) PROVE TerminalTypeOK'
  BY <1>10 DEF MetricsEnd, TerminalInv, TerminalTypeOK, Entry, NoEntry
<1>11. ASSUME NEW c \in Consoles, NEW i \in Ids, handleTerminalClose(c, i) PROVE TerminalTypeOK'
  BY <1>11
  DEF handleTerminalClose, TerminalGoes, Removes, TerminalInv, TerminalTypeOK, Entry,
      NoEntry
<1>12. ASSUME NEW a \in Agents, NEW i \in Ids, forwardTerminalClosed(a, i) PROVE TerminalTypeOK'
  BY <1>12
  DEF forwardTerminalClosed, TerminalGoes, Removes, TerminalInv, TerminalTypeOK, Entry,
      NoEntry
<1>13. ASSUME NEW a \in Agents, AgentDisconnects(a) PROVE TerminalTypeOK'
  BY <1>13
  DEF AgentDisconnects, Without, Removes, TerminalInv, TerminalTypeOK, Entry, NoEntry
<1>14. ASSUME NEW a \in Agents, disconnectAgent(a) PROVE TerminalTypeOK'
  BY <1>14 DEF disconnectAgent, TerminalInv, TerminalTypeOK
<1>15. ASSUME NEW a \in Agents, AgentReturns(a) PROVE TerminalTypeOK'
  BY <1>15 DEF AgentReturns, TerminalInv, TerminalTypeOK
<1>16. ASSUME NEW a \in Agents, AgentChangesHands(a) PROVE TerminalTypeOK'
  BY <1>16 DEF AgentChangesHands, TerminalInv, TerminalTypeOK
<1>17. ASSUME UNCHANGED terminalVars PROVE TerminalTypeOK'
  BY <1>17 DEF terminalVars, TerminalInv, TerminalTypeOK
<1>. QED
  BY <1>1, <1>2, <1>3, <1>4, <1>5, <1>6, <1>7, <1>8, <1>9, <1>10, <1>11, <1>12, <1>13,
     <1>14, <1>15, <1>16, <1>17
  DEF TerminalNext

\* A handler comes from an open console and keeps what it was asked for.
LEMMA SessionsInFormStep == TerminalInv /\ [TerminalNext]_terminalVars => SessionsInForm'
<1> SUFFICES ASSUME TerminalInv, [TerminalNext]_terminalVars PROVE SessionsInForm'
  OBVIOUS
<1>1. ASSUME NEW c \in Consoles, ConsoleConnects(c) PROVE SessionsInForm'
  BY <1>1 DEF ConsoleConnects, TerminalInv, SessionsInForm
<1>2. ASSUME NEW c \in Consoles, ConsoleDisconnects(c) PROVE SessionsInForm'
  BY <1>2 DEF ConsoleDisconnects, Without, TerminalInv, SessionsInForm
<1>3. ASSUME NEW p \in Passes, PassExpires(p) PROVE SessionsInForm'
  BY <1>3 DEF PassExpires, TerminalInv, SessionsInForm
<1>4. ASSUME NEW p \in Passes, NEW a \in Agents, mintPurposeToken(p, a) PROVE SessionsInForm'
  BY <1>4 DEF mintPurposeToken, TerminalInv, SessionsInForm
<1>5. ASSUME NEW o \in Opens, OpenReads(o) PROVE SessionsInForm'
  <2>1. CASE canAccessAgent(opens[o].agent)
    <3>1. \A q \in Opens : /\ opens'[q].console = opens[q].console
                           /\ opens'[q].agent = opens[q].agent
                           /\ opens'[q].pass = opens[q].pass
                           /\ opens[q].pc = "idle" => opens'[q].pc = "idle"
                           /\ opens'[q].pc \in {"access", "open"} =>
                                 opens[q].pc \in {"access", "open"}
      BY <1>5, <2>1 DEF OpenReads, TerminalInv, TerminalTypeOK, Open
    <3>. QED
      BY <1>5, <3>1 DEF OpenReads, TerminalInv, SessionsInForm
  <2>2. CASE ~canAccessAgent(opens[o].agent)
    BY <1>5, <2>2
    DEF OpenReads, Returns, NoOpen, TerminalInv, TerminalTypeOK, SessionsInForm, NoEntry
  <2>. QED
    BY <2>1, <2>2
<1>6. ASSUME NEW o \in Opens, NEW i \in Ids, OpenTerminal(o, i) PROVE SessionsInForm'
  BY <1>6 DEF OpenTerminal, Returns, TerminalInv, TerminalTypeOK, SessionsInForm, NoOpen
<1>7. ASSUME NEW o \in Opens, NEW i \in Ids, RequestMetrics(o, i) PROVE SessionsInForm'
  BY <1>7 DEF RequestMetrics, Returns, TerminalInv, SessionsInForm, NoOpen
<1>8. ASSUME NEW o \in Opens, NEW c \in Consoles, NEW p \in Passes, handleTerminalOpen(o, c, p)
      PROVE  SessionsInForm'
  BY <1>8 DEF handleTerminalOpen, TerminalInv, TerminalTypeOK, SessionsInForm
<1>9. ASSUME NEW o \in Opens, NEW c \in Consoles, NEW a \in Agents,
             handleAgentMetricsRequest(o, c, a)
      PROVE  SessionsInForm'
  BY <1>9 DEF handleAgentMetricsRequest, TerminalInv, SessionsInForm
<1>10. ASSUME NEW i \in Ids, MetricsEnd(i) PROVE SessionsInForm'
  BY <1>10 DEF MetricsEnd, TerminalInv, SessionsInForm
<1>11. ASSUME NEW c \in Consoles, NEW i \in Ids, handleTerminalClose(c, i) PROVE SessionsInForm'
  BY <1>11 DEF handleTerminalClose, TerminalGoes, TerminalInv, SessionsInForm
<1>12. ASSUME NEW a \in Agents, NEW i \in Ids, forwardTerminalClosed(a, i) PROVE SessionsInForm'
  BY <1>12 DEF forwardTerminalClosed, TerminalGoes, TerminalInv, SessionsInForm
<1>13. ASSUME NEW a \in Agents, AgentDisconnects(a) PROVE SessionsInForm'
  BY <1>13 DEF AgentDisconnects, Without, TerminalInv, SessionsInForm
<1>14. ASSUME NEW a \in Agents, disconnectAgent(a) PROVE SessionsInForm'
  BY <1>14 DEF disconnectAgent, TerminalInv, SessionsInForm
<1>15. ASSUME NEW a \in Agents, AgentReturns(a) PROVE SessionsInForm'
  BY <1>15 DEF AgentReturns, TerminalInv, SessionsInForm
<1>16. ASSUME NEW a \in Agents, AgentChangesHands(a) PROVE SessionsInForm'
  BY <1>16 DEF AgentChangesHands, TerminalInv, SessionsInForm
<1>17. ASSUME UNCHANGED terminalVars PROVE SessionsInForm'
  BY <1>17 DEF terminalVars, TerminalInv, SessionsInForm
<1>. QED
  BY <1>1, <1>2, <1>3, <1>4, <1>5, <1>6, <1>7, <1>8, <1>9, <1>10, <1>11, <1>12, <1>13,
     <1>14, <1>15, <1>16, <1>17
  DEF TerminalNext

\* What ends a console or an Agent takes its sessions away or writes down that it leaves them.
LEMMA BothEndsStep == TerminalInv /\ [TerminalNext]_terminalVars => SessionHasBothEnds'
<1> SUFFICES ASSUME TerminalInv, [TerminalNext]_terminalVars PROVE SessionHasBothEnds'
  OBVIOUS
<1>1. ASSUME NEW c \in Consoles, ConsoleConnects(c) PROVE SessionHasBothEnds'
  BY <1>1 DEF ConsoleConnects, TerminalInv, SessionHasBothEnds
<1>2. ASSUME NEW c \in Consoles, ConsoleDisconnects(c) PROVE SessionHasBothEnds'
  BY <1>2 DEF ConsoleDisconnects, Without, Removes, TerminalInv, SessionHasBothEnds
<1>3. ASSUME NEW p \in Passes, PassExpires(p) PROVE SessionHasBothEnds'
  BY <1>3 DEF PassExpires, TerminalInv, SessionHasBothEnds
<1>4. ASSUME NEW p \in Passes, NEW a \in Agents, mintPurposeToken(p, a) PROVE SessionHasBothEnds'
  BY <1>4 DEF mintPurposeToken, TerminalInv, SessionHasBothEnds
<1>5. ASSUME NEW o \in Opens, OpenReads(o) PROVE SessionHasBothEnds'
  BY <1>5 DEF OpenReads, TerminalInv, SessionHasBothEnds
<1>6. ASSUME NEW o \in Opens, NEW i \in Ids, OpenTerminal(o, i) PROVE SessionHasBothEnds'
  BY <1>6
  DEF OpenTerminal, TerminalInv, TerminalTypeOK, SessionsInForm, SessionHasBothEnds,
      NoOpen
<1>7. ASSUME NEW o \in Opens, NEW i \in Ids, RequestMetrics(o, i) PROVE SessionHasBothEnds'
  BY <1>7 DEF RequestMetrics, TerminalInv, SessionHasBothEnds
<1>8. ASSUME NEW o \in Opens, NEW c \in Consoles, NEW p \in Passes, handleTerminalOpen(o, c, p)
      PROVE  SessionHasBothEnds'
  BY <1>8 DEF handleTerminalOpen, TerminalInv, SessionHasBothEnds
<1>9. ASSUME NEW o \in Opens, NEW c \in Consoles, NEW a \in Agents,
             handleAgentMetricsRequest(o, c, a)
      PROVE  SessionHasBothEnds'
  BY <1>9 DEF handleAgentMetricsRequest, TerminalInv, SessionHasBothEnds
<1>10. ASSUME NEW i \in Ids, MetricsEnd(i) PROVE SessionHasBothEnds'
  BY <1>10 DEF MetricsEnd, TerminalInv, SessionHasBothEnds
<1>11. ASSUME NEW c \in Consoles, NEW i \in Ids, handleTerminalClose(c, i)
       PROVE  SessionHasBothEnds'
  BY <1>11
  DEF handleTerminalClose, TerminalGoes, Removes, TerminalInv, TerminalTypeOK,
      SessionHasBothEnds
<1>12. ASSUME NEW a \in Agents, NEW i \in Ids, forwardTerminalClosed(a, i)
       PROVE  SessionHasBothEnds'
  BY <1>12
  DEF forwardTerminalClosed, TerminalGoes, Removes, TerminalInv, TerminalTypeOK,
      SessionHasBothEnds
<1>13. ASSUME NEW a \in Agents, AgentDisconnects(a) PROVE SessionHasBothEnds'
  BY <1>13 DEF AgentDisconnects, Without, Removes, TerminalInv, SessionHasBothEnds
<1>14. ASSUME NEW a \in Agents, disconnectAgent(a) PROVE SessionHasBothEnds'
  BY <1>14 DEF disconnectAgent, TerminalInv, SessionHasBothEnds
<1>15. ASSUME NEW a \in Agents, AgentReturns(a) PROVE SessionHasBothEnds'
  BY <1>15 DEF AgentReturns, TerminalInv, SessionHasBothEnds
<1>16. ASSUME NEW a \in Agents, AgentChangesHands(a) PROVE SessionHasBothEnds'
  BY <1>16 DEF AgentChangesHands, TerminalInv, SessionHasBothEnds
<1>17. ASSUME UNCHANGED terminalVars PROVE SessionHasBothEnds'
  BY <1>17 DEF terminalVars, TerminalInv, SessionHasBothEnds
<1>. QED
  BY <1>1, <1>2, <1>3, <1>4, <1>5, <1>6, <1>7, <1>8, <1>9, <1>10, <1>11, <1>12, <1>13,
     <1>14, <1>15, <1>16, <1>17
  DEF TerminalNext

\* At first there is no session and no handler.
LEMMA TerminalInvInit == TerminalInit => TerminalInv
BY DEF TerminalInit, TerminalInv, TerminalTypeOK, Entry, NoEntry, Open, NoOpen,
   SessionsInForm, SessionHasBothEnds

\* Every behaviour of TerminalSpec keeps the inductive invariant.
THEOREM TerminalInvariant == TerminalSpec => []TerminalInv
<1>1. TerminalInv /\ [TerminalNext]_terminalVars => TerminalInv'
  BY TerminalTypeStep, SessionsInFormStep, BothEndsStep DEF TerminalInv
<1>. QED
  BY <1>1, TerminalInvInit, PTL DEF TerminalSpec

\* Every terminal session has both its ends, for any number of consoles, Agents and handlers,
\* but for the two kinds that SessionHasBothEnds names.
THEOREM SessionsHaveEnds == TerminalSpec => []SessionHasBothEnds
<1>1. TerminalInv => SessionHasBothEnds
  BY DEF TerminalInv
<1>. QED
  BY <1>1, TerminalInvariant, PTL

-----------------------------------------------------------------------------
(* PacketGuard *)

\* Stamps stay between the bounds of the two clocks.
LEMMA PacketTypeStep == PacketInv /\ [PacketNext]_packetVars => PacketTypeOK'
<1> SUFFICES ASSUME PacketInv, [PacketNext]_packetVars PROVE PacketTypeOK'
  OBVIOUS
<1>1. ASSUME Clock PROVE PacketTypeOK'
  BY <1>1 DEF Clock, PacketInv, PacketTypeOK
<1>2. ASSUME RegisterAgain PROVE PacketTypeOK'
  BY <1>2 DEF RegisterAgain, PacketInv, PacketTypeOK
<1>3. ASSUME NEW s \in Signers, NEW p \in Packets, sign(s, p) PROVE PacketTypeOK'
  BY <1>3 DEF sign, PacketInv, PacketTypeOK, Unsent
<1>4. ASSUME NEW p \in Packets, verify(p) PROVE PacketTypeOK'
  BY <1>4 DEF verify, Prune, PacketInv, PacketTypeOK
<1>5. ASSUME UNCHANGED packetVars PROVE PacketTypeOK'
  BY <1>5 DEF packetVars, PacketInv, PacketTypeOK
<1>. QED
  BY <1>1, <1>2, <1>3, <1>4, <1>5 DEF PacketNext

\* Two packets that both pass the time check are within one window of each other, so that the
\* arrival of one does not make the guard forget the other.
LEMMA RememberedStep == PacketInv /\ [PacketNext]_packetVars => RememberedInWindow'
<1> SUFFICES ASSUME PacketInv, [PacketNext]_packetVars PROVE RememberedInWindow'
  OBVIOUS
<1>1. ASSUME Clock PROVE RememberedInWindow'
  BY <1>1 DEF Clock, PacketInv, PacketTypeOK, RememberedInWindow
<1>2. ASSUME RegisterAgain PROVE RememberedInWindow'
  BY <1>2 DEF RegisterAgain, PacketInv, RememberedInWindow
<1>3. ASSUME NEW s \in Signers, NEW p \in Packets, sign(s, p) PROVE RememberedInWindow'
  BY <1>3 DEF sign, PacketInv, PacketTypeOK, RememberedInWindow
<1>4. ASSUME NEW p \in Packets, verify(p) PROVE RememberedInWindow'
  BY <1>4 DEF verify, InWindow, Prune, Apart, PacketInv, PacketTypeOK, RememberedInWindow
<1>5. ASSUME UNCHANGED packetVars PROVE RememberedInWindow'
  BY <1>5 DEF packetVars, PacketInv, RememberedInWindow
<1>. QED
  BY <1>1, <1>2, <1>3, <1>4, <1>5 DEF PacketNext

\* At first no packet was signed or handed on.
LEMMA PacketInvInit == PacketInit => PacketInv
BY DEF PacketInit, PacketInv, PacketTypeOK, RememberedInWindow, Unsent

\* Every behaviour of PacketSpec keeps the inductive invariant.
THEOREM PacketInvariant == PacketSpec => []PacketInv
<1>1. PacketInv /\ [PacketNext]_packetVars => PacketInv'
  BY PacketTypeStep, RememberedStep DEF PacketInv
<1>. QED
  BY <1>1, PacketInvInit, PTL DEF PacketSpec

\* No copy of a packet is handled twice while no Agent's clock is ahead of the Hub's, for any
\* window and any number of Agents and of packets.
THEOREM PacketsPassOnce == PacketSpec => []PacketHandledOnce
<1>1. PacketInv => PacketHandledOnce
  BY DEF PacketInv, RememberedInWindow, PacketHandledOnce
<1>. QED
  BY <1>1, PacketInvariant, PTL

-----------------------------------------------------------------------------
(* AgentSecret *)

\* What a handler has in its hands once it has made a secret.
LEMMA PendingIsTyped ==
  ASSUME NEW x \in Register, NEW s \in Keys
  PROVE  /\ [x EXCEPT !.pc = "update", !.secret = s] \in Register
         /\ \A u \in AnyUuid : [x EXCEPT !.pc = "attach", !.uuid = u, !.secret = s] \in Register
<1>1. s \in AnyKey
  BY DEF AnyKey
<1>. QED
  BY <1>1 DEF Register

\* Every step keeps rows and handlers well typed.
LEMMA SecretTypeStep == SecretInv /\ [SecretNext]_secretVars => SecretTypeOK'
<1> SUFFICES ASSUME SecretInv, [SecretNext]_secretVars PROVE SecretTypeOK'
  OBVIOUS
<1>1. ASSUME ConnectionLost PROVE SecretTypeOK'
  BY <1>1 DEF ConnectionLost, SecretInv, SecretTypeOK, AnyKey
<1>2. ASSUME NEW r \in Registers, SendRegister(r) PROVE SecretTypeOK'
  BY <1>2 DEF SendRegister, SecretInv, SecretTypeOK, Register, AnyKey
<1>3. ASSUME NEW r \in Registers, CheckSignature(r) PROVE SecretTypeOK'
  BY <1>3
  DEF CheckSignature, SecretInv, SecretTypeOK, Register, NoRegistration, AnyUuid, AnyKey
<1>4. ASSUME NEW r \in Registers, FindAgent(r) PROVE SecretTypeOK'
  <2>1. CASE rows[registers[r].uuid] = NoKey
    <3>1. PICK s \in Keys \ issued :
             /\ issued' = issued \cup {s}
             /\ registers' = [registers EXCEPT ![r] = [@ EXCEPT !.pc = "update", !.secret = s]]
      BY <1>4, <2>1 DEF FindAgent
    <3>2. [registers[r] EXCEPT !.pc = "update", !.secret = s] \in Register
      BY PendingIsTyped DEF SecretInv, SecretTypeOK
    <3>3. registers' \in [Registers -> Register]
      BY <3>1, <3>2 DEF SecretInv, SecretTypeOK
    <3>4. issued' \in SUBSET Keys /\ unheard' \in SUBSET issued'
      BY <1>4, <3>1 DEF FindAgent, SecretInv, SecretTypeOK
    <3>. QED
      BY <1>4, <3>3, <3>4 DEF FindAgent, SecretInv, SecretTypeOK
  <2>2. CASE rows[registers[r].uuid] # NoKey
    BY <1>4, <2>2 DEF FindAgent, SecretInv, SecretTypeOK, Register
  <2>. QED
    BY <2>1, <2>2
<1>5. ASSUME NEW r \in Registers, UpdateAgent(r) PROVE SecretTypeOK'
  BY <1>5 DEF UpdateAgent, SecretInv, SecretTypeOK, Register, RegistersInForm
<1>6. ASSUME NEW r \in Registers, CreateAgent(r) PROVE SecretTypeOK'
  <2>1. PICK u \in Uuids, s \in Keys \ issued :
           /\ rows' = [rows EXCEPT ![u] = s]
           /\ issued' = issued \cup {s}
           /\ registers' = [registers EXCEPT ![r] =
                                [@ EXCEPT !.pc = "attach", !.uuid = u, !.secret = s]]
    BY <1>6 DEF CreateAgent
  <2>2. [registers[r] EXCEPT !.pc = "attach", !.uuid = u, !.secret = s] \in Register
    BY PendingIsTyped DEF SecretInv, SecretTypeOK, AnyUuid
  <2>3. registers' \in [Registers -> Register]
    BY <2>1, <2>2 DEF SecretInv, SecretTypeOK
  <2>4. rows' \in [Uuids -> AnyKey \cup {"none"}]
    BY <2>1 DEF SecretInv, SecretTypeOK, AnyKey
  <2>5. issued' \in SUBSET Keys /\ unheard' \in SUBSET issued'
    BY <1>6, <2>1 DEF CreateAgent, SecretInv, SecretTypeOK
  <2>. QED
    BY <1>6, <2>3, <2>4, <2>5 DEF CreateAgent, SecretInv, SecretTypeOK
<1>7. ASSUME NEW r \in Registers, AttachSecret(r) PROVE SecretTypeOK'
  BY <1>7
  DEF AttachSecret, SecretInv, SecretTypeOK, Register, At, RegistersInForm, HasSecret
<1>8. ASSUME NEW r \in Registers, RegisterReply(r) PROVE SecretTypeOK'
  BY <1>8
  DEF RegisterReply, SecretInv, SecretTypeOK, Register, NoRegistration, AnyUuid, AnyKey,
      SecretsAreIssued
<1>9. ASSUME NEW r \in Registers, RegisterFails(r) PROVE SecretTypeOK'
  BY <1>9
  DEF RegisterFails, SecretInv, SecretTypeOK, Register, NoRegistration, AnyUuid, AnyKey,
      SecretsAreIssued
<1>10. ASSUME UNCHANGED secretVars PROVE SecretTypeOK'
  BY <1>10 DEF secretVars, SecretInv, SecretTypeOK
<1>. QED
  BY <1>1, <1>2, <1>3, <1>4, <1>5, <1>6, <1>7, <1>8, <1>9, <1>10 DEF SecretNext

\* A row keeps the secret it has, so that what a handler has found out about it stays true.
LEMMA RegistersInFormStep == SecretInv /\ [SecretNext]_secretVars => RegistersInForm'
<1> SUFFICES ASSUME SecretInv, [SecretNext]_secretVars PROVE RegistersInForm'
  OBVIOUS
<1>1. ASSUME ConnectionLost PROVE RegistersInForm'
  BY <1>1 DEF ConnectionLost, SecretInv, At, RegistersInForm, HasSecret
<1>2. ASSUME NEW r \in Registers, SendRegister(r) PROVE RegistersInForm'
  BY <1>2 DEF SendRegister, SecretInv, At, RegistersInForm, HasSecret
<1>3. ASSUME NEW r \in Registers, CheckSignature(r) PROVE RegistersInForm'
  BY <1>3 DEF CheckSignature, SecretInv, NoRegistration, At, RegistersInForm, HasSecret
<1>4. ASSUME NEW r \in Registers, FindAgent(r) PROVE RegistersInForm'
  <2>1. CASE rows[registers[r].uuid] = NoKey
    <3>1. PICK s \in Keys \ issued :
             /\ issued' = issued \cup {s}
             /\ registers' = [registers EXCEPT ![r] = [@ EXCEPT !.pc = "update", !.secret = s]]
      BY <1>4, <2>1 DEF FindAgent
    <3>2. UNCHANGED <<rows, agent, current, attached, unheard>> /\ registers[r].pc = "find"
      BY <1>4 DEF FindAgent, At
    <3>3. registers[r].uuid \in Uuids /\ rows[registers[r].uuid] # "none"
      BY <1>4 DEF FindAgent, SecretInv, SecretTypeOK, Register, AnyUuid, Stored
    <3>. QED
      BY <2>1, <3>1, <3>2, <3>3 DEF SecretInv, At, RegistersInForm, HasSecret
  <2>2. CASE rows[registers[r].uuid] # NoKey
    BY <1>4, <2>2
    DEF FindAgent, SecretInv, SecretTypeOK, Register, AnyUuid, AnyKey, At, Stored,
        RegistersInForm, HasSecret
  <2>. QED
    BY <2>1, <2>2
<1>5. ASSUME NEW r \in Registers, UpdateAgent(r) PROVE RegistersInForm'
  BY <1>5
  DEF UpdateAgent, SecretInv, SecretTypeOK, Register, AnyKey, At, RegistersInForm,
      HasSecret
<1>6. ASSUME NEW r \in Registers, CreateAgent(r) PROVE RegistersInForm'
  BY <1>6 DEF CreateAgent, SecretInv, SecretTypeOK, At, RegistersInForm, HasSecret
<1>7. ASSUME NEW r \in Registers, AttachSecret(r) PROVE RegistersInForm'
  BY <1>7 DEF AttachSecret, SecretInv, At, RegistersInForm, HasSecret
<1>8. ASSUME NEW r \in Registers, RegisterReply(r) PROVE RegistersInForm'
  BY <1>8 DEF RegisterReply, SecretInv, NoRegistration, At, RegistersInForm, HasSecret
<1>9. ASSUME NEW r \in Registers, RegisterFails(r) PROVE RegistersInForm'
  BY <1>9
  DEF RegisterFails, SecretInv, NoRegistration, At, RegistersInForm, HasSecret
<1>10. ASSUME UNCHANGED secretVars PROVE RegistersInForm'
  BY <1>10 DEF secretVars, SecretInv, At, RegistersInForm, HasSecret
<1>. QED
  BY <1>1, <1>2, <1>3, <1>4, <1>5, <1>6, <1>7, <1>8, <1>9, <1>10 DEF SecretNext

\* Rows and sockets get their secrets from handlers.
LEMMA SecretsAreIssuedStep == SecretInv /\ [SecretNext]_secretVars => SecretsAreIssued'
<1> SUFFICES ASSUME SecretInv, [SecretNext]_secretVars PROVE SecretsAreIssued'
  OBVIOUS
<1>1. ASSUME ConnectionLost PROVE SecretsAreIssued'
  BY <1>1 DEF ConnectionLost, SecretInv, SecretsAreIssued
<1>2. ASSUME NEW r \in Registers, SendRegister(r) PROVE SecretsAreIssued'
  BY <1>2 DEF SendRegister, SecretInv, SecretTypeOK, At, SecretsAreIssued
<1>3. ASSUME NEW r \in Registers, CheckSignature(r) PROVE SecretsAreIssued'
  BY <1>3 DEF CheckSignature, SecretInv, NoRegistration, At, SecretsAreIssued
<1>4. ASSUME NEW r \in Registers, FindAgent(r) PROVE SecretsAreIssued'
  <2>1. CASE rows[registers[r].uuid] = NoKey
    <3>1. PICK s \in Keys \ issued :
             /\ issued' = issued \cup {s}
             /\ registers' = [registers EXCEPT ![r] = [@ EXCEPT !.pc = "update", !.secret = s]]
      BY <1>4, <2>1 DEF FindAgent
    <3>2. UNCHANGED <<rows, agent, current, attached, unheard>> /\ registers[r].pc = "find"
      BY <1>4 DEF FindAgent, At
    <3>3. registers[r].uuid \in Uuids /\ rows[registers[r].uuid] # "none"
      BY <1>4 DEF FindAgent, SecretInv, SecretTypeOK, Register, AnyUuid, Stored
    <3>. QED
      BY <2>1, <3>1, <3>2, <3>3 DEF SecretInv, At, SecretsAreIssued
  <2>2. CASE rows[registers[r].uuid] # NoKey
    BY <1>4, <2>2 DEF FindAgent, SecretInv, SecretTypeOK, Register, At, SecretsAreIssued
  <2>. QED
    BY <2>1, <2>2
<1>5. ASSUME NEW r \in Registers, UpdateAgent(r) PROVE SecretsAreIssued'
  BY <1>5 DEF UpdateAgent, SecretInv, At, SecretsAreIssued
<1>6. ASSUME NEW r \in Registers, CreateAgent(r) PROVE SecretsAreIssued'
  BY <1>6 DEF CreateAgent, SecretInv, At, SecretsAreIssued
<1>7. ASSUME NEW r \in Registers, AttachSecret(r) PROVE SecretsAreIssued'
  BY <1>7 DEF AttachSecret, SecretInv, At, RegistersInForm, SecretsAreIssued, HasSecret
<1>8. ASSUME NEW r \in Registers, RegisterReply(r) PROVE SecretsAreIssued'
  BY <1>8 DEF RegisterReply, SecretInv, NoRegistration, At, SecretsAreIssued
<1>9. ASSUME NEW r \in Registers, RegisterFails(r) PROVE SecretsAreIssued'
  BY <1>9
  DEF RegisterFails, SecretInv, NoRegistration, At, SecretsAreIssued
<1>10. ASSUME UNCHANGED secretVars PROVE SecretsAreIssued'
  BY <1>10 DEF secretVars, SecretInv, At, SecretsAreIssued
<1>. QED
  BY <1>1, <1>2, <1>3, <1>4, <1>5, <1>6, <1>7, <1>8, <1>9, <1>10 DEF SecretNext

\* A handler forgets its secret only with its answer.
LEMMA SecretsAreToldStep == SecretInv /\ [SecretNext]_secretVars => SecretsAreTold'
<1> SUFFICES ASSUME SecretInv, [SecretNext]_secretVars PROVE SecretsAreTold'
  OBVIOUS
<1>1. ASSUME ConnectionLost PROVE SecretsAreTold'
  BY <1>1 DEF ConnectionLost, SecretInv, SecretsAreTold, Excused
<1>2. ASSUME NEW r \in Registers, SendRegister(r) PROVE SecretsAreTold'
  BY <1>2
  DEF SendRegister, SecretInv, NoRegistration, RegistersInForm, SecretsAreTold, Excused
<1>3. ASSUME NEW r \in Registers, CheckSignature(r) PROVE SecretsAreTold'
  BY <1>3
  DEF CheckSignature, SecretInv, SecretTypeOK, At, RegistersInForm, SecretsAreTold,
      Excused
<1>4. ASSUME NEW r \in Registers, FindAgent(r) PROVE SecretsAreTold'
  <2>1. CASE rows[registers[r].uuid] = NoKey
    <3>1. PICK s \in Keys \ issued :
             /\ issued' = issued \cup {s}
             /\ registers' = [registers EXCEPT ![r] = [@ EXCEPT !.pc = "update", !.secret = s]]
      BY <1>4, <2>1 DEF FindAgent
    <3>2. UNCHANGED <<rows, agent, current, attached, unheard>> /\ registers[r].pc = "find"
      BY <1>4 DEF FindAgent, At
    <3>3. registers[r].uuid \in Uuids /\ rows[registers[r].uuid] # "none"
      BY <1>4 DEF FindAgent, SecretInv, SecretTypeOK, Register, AnyUuid, Stored
    <3>. QED
      BY <2>1, <3>1, <3>2, <3>3
      DEF SecretInv, SecretTypeOK, RegistersInForm, SecretsAreTold, Excused
  <2>2. CASE rows[registers[r].uuid] # NoKey
    BY <1>4, <2>2 DEF FindAgent, SecretInv, SecretTypeOK, Register, SecretsAreTold, Excused
  <2>. QED
    BY <2>1, <2>2
<1>5. ASSUME NEW r \in Registers, UpdateAgent(r) PROVE SecretsAreTold'
  BY <1>5 DEF UpdateAgent, SecretInv, SecretsAreTold, Excused
<1>6. ASSUME NEW r \in Registers, CreateAgent(r) PROVE SecretsAreTold'
  BY <1>6
  DEF CreateAgent, SecretInv, SecretTypeOK, At, RegistersInForm, SecretsAreTold, Excused
<1>7. ASSUME NEW r \in Registers, AttachSecret(r) PROVE SecretsAreTold'
  BY <1>7 DEF AttachSecret, SecretInv, SecretsAreTold, Excused
<1>8. ASSUME NEW r \in Registers, RegisterReply(r) PROVE SecretsAreTold'
  BY <1>8
  DEF RegisterReply, SecretInv, SecretTypeOK, At, SecretsAreTold, AgentKeepsSecret,
      Excused
<1>9. ASSUME NEW r \in Registers, RegisterFails(r) PROVE SecretsAreTold'
  BY <1>9
  DEF RegisterFails, SecretInv, SecretTypeOK, At, SecretsAreTold, Excused
<1>10. ASSUME UNCHANGED secretVars PROVE SecretsAreTold'
  BY <1>10 DEF secretVars, SecretInv, SecretsAreTold, Excused
<1>. QED
  BY <1>1, <1>2, <1>3, <1>4, <1>5, <1>6, <1>7, <1>8, <1>9, <1>10 DEF SecretNext

\* A handler makes a secret for a row that has none, which is not the row of an Agent
\* that has one.
LEMMA AgentKeepsSecretStep == SecretInv /\ [SecretNext]_secretVars => AgentKeepsSecret'
<1> SUFFICES ASSUME SecretInv, [SecretNext]_secretVars PROVE AgentKeepsSecret'
  OBVIOUS
<1>1. ASSUME ConnectionLost PROVE AgentKeepsSecret'
  BY <1>1 DEF ConnectionLost, SecretInv, AgentKeepsSecret, HasSecret
<1>2. ASSUME NEW r \in Registers, SendRegister(r) PROVE AgentKeepsSecret'
  BY <1>2 DEF SendRegister, SecretInv, SecretTypeOK, AgentKeepsSecret, HasSecret
<1>3. ASSUME NEW r \in Registers, CheckSignature(r) PROVE AgentKeepsSecret'
  BY <1>3 DEF CheckSignature, SecretInv, At, AgentKeepsSecret, HasSecret
<1>4. ASSUME NEW r \in Registers, FindAgent(r) PROVE AgentKeepsSecret'
  <2>1. CASE rows[registers[r].uuid] = NoKey
    <3>1. PICK s \in Keys \ issued :
             /\ issued' = issued \cup {s}
             /\ registers' = [registers EXCEPT ![r] = [@ EXCEPT !.pc = "update", !.secret = s]]
      BY <1>4, <2>1 DEF FindAgent
    <3>2. UNCHANGED <<rows, agent, current, attached, unheard>> /\ registers[r].pc = "find"
      BY <1>4 DEF FindAgent, At
    <3>3. registers[r].uuid \in Uuids /\ rows[registers[r].uuid] # "none"
      BY <1>4 DEF FindAgent, SecretInv, SecretTypeOK, Register, AnyUuid, Stored
    <3>. QED
      BY <2>1, <3>1, <3>2, <3>3 DEF SecretInv, At, AgentKeepsSecret, HasSecret
  <2>2. CASE rows[registers[r].uuid] # NoKey
    BY <1>4, <2>2
    DEF FindAgent, SecretInv, SecretTypeOK, Register, At, AgentKeepsSecret, HasSecret
  <2>. QED
    BY <2>1, <2>2
<1>5. ASSUME NEW r \in Registers, UpdateAgent(r) PROVE AgentKeepsSecret'
  BY <1>5
  DEF UpdateAgent, SecretInv, SecretTypeOK, Register, AnyKey, At, AgentKeepsSecret,
      HasSecret
<1>6. ASSUME NEW r \in Registers, CreateAgent(r) PROVE AgentKeepsSecret'
  BY <1>6 DEF CreateAgent, SecretInv, At, Stored, AgentKeepsSecret, HasSecret
<1>7. ASSUME NEW r \in Registers, AttachSecret(r) PROVE AgentKeepsSecret'
  BY <1>7 DEF AttachSecret, SecretInv, At, AgentKeepsSecret, HasSecret
<1>8. ASSUME NEW r \in Registers, RegisterReply(r) PROVE AgentKeepsSecret'
  BY <1>8
  DEF RegisterReply, SecretInv, SecretTypeOK, NoRegistration, At, RegistersInForm,
      AgentKeepsSecret, HasSecret
<1>9. ASSUME NEW r \in Registers, RegisterFails(r) PROVE AgentKeepsSecret'
  BY <1>9
  DEF RegisterFails, SecretInv, SecretTypeOK, NoRegistration, At, AgentKeepsSecret, HasSecret
<1>10. ASSUME UNCHANGED secretVars PROVE AgentKeepsSecret'
  BY <1>10 DEF secretVars, SecretInv, At, AgentKeepsSecret, HasSecret
<1>. QED
  BY <1>1, <1>2, <1>3, <1>4, <1>5, <1>6, <1>7, <1>8, <1>9, <1>10 DEF SecretNext

\* At first no secret was made, and the Agent has none.
LEMMA SecretInvInit == SecretInit => SecretInv
BY DEF SecretInit, SecretInv, SecretTypeOK, Register, NoRegistration, AnyUuid, AnyKey, At,
   RegistersInForm, SecretsAreIssued, SecretsAreTold, AgentKeepsSecret

\* Every behaviour of SecretSpec keeps the inductive invariant.
THEOREM SecretInvariant == SecretSpec => []SecretInv
<1>1. SecretInv /\ [SecretNext]_secretVars => SecretInv'
  BY SecretTypeStep, RegistersInFormStep, SecretsAreIssuedStep, SecretsAreToldStep,
     AgentKeepsSecretStep
  DEF SecretInv
<1>. QED
  BY <1>1, SecretInvInit, PTL DEF SecretSpec

\* The secret of an Agent's row is the Agent's own, or one that it is still to be told or
\* could not be told, for any number of connections.
THEOREM SecretsReachAgents == SecretSpec => []SecretReachesAgent
<1>1. SecretInv => SecretReachesAgent
  <2>. SUFFICES ASSUME SecretInv PROVE SecretReachesAgent
    OBVIOUS
  <2>1. ASSUME LockedOut PROVE Excused(rows[agent.uuid])
    <3>1. agent.uuid \in Uuids /\ rows[agent.uuid] \in Keys /\ rows[agent.uuid] # agent.secret
      BY <2>1 DEF LockedOut, Stored, SecretInv, SecretTypeOK, AnyUuid, AnyKey
    <3>. QED
      BY <3>1 DEF SecretInv, SecretsAreIssued, SecretsAreTold
  <2>2. ASSUME current # NoRegister, At(current, "idle"), attached # agent.secret
        PROVE  Excused(attached)
    BY <2>2 DEF SecretInv, SecretsAreIssued, SecretsAreTold
  <2>. QED
    BY <2>1, <2>2 DEF SecretReachesAgent
<1>. QED
  BY <1>1, SecretInvariant, PTL

\* A secret that is made is in no other handler's hands.
LEMMA PendingIsOwnStep == SecretInv /\ PendingIsOwn /\ [SecretNext]_secretVars => PendingIsOwn'
<1> SUFFICES ASSUME SecretInv, PendingIsOwn, [SecretNext]_secretVars PROVE PendingIsOwn'
  OBVIOUS
<1>1. ASSUME ConnectionLost PROVE PendingIsOwn'
  BY <1>1 DEF ConnectionLost, PendingIsOwn
<1>2. ASSUME NEW r \in Registers, SendRegister(r) PROVE PendingIsOwn'
  BY <1>2 DEF SendRegister, PendingIsOwn, SecretInv, SecretTypeOK
<1>3. ASSUME NEW r \in Registers, CheckSignature(r) PROVE PendingIsOwn'
  BY <1>3 DEF CheckSignature, PendingIsOwn, SecretInv, SecretTypeOK, NoRegistration
<1>4. ASSUME NEW r \in Registers, FindAgent(r) PROVE PendingIsOwn'
  <2>1. CASE rows[registers[r].uuid] = NoKey
    <3>1. PICK s \in Keys \ issued :
             /\ issued' = issued \cup {s}
             /\ registers' = [registers EXCEPT ![r] = [@ EXCEPT !.pc = "update", !.secret = s]]
      BY <1>4, <2>1 DEF FindAgent
    <3>2. \A q \in Registers : registers[q].secret # s
      BY <3>1 DEF SecretInv, SecretsAreIssued
    <3>. QED
      BY <3>1, <3>2 DEF PendingIsOwn, SecretInv, SecretTypeOK
  <2>2. CASE rows[registers[r].uuid] # NoKey
    <3>1. registers' = [registers EXCEPT ![r].pc = "update"]
      BY <1>4, <2>2 DEF FindAgent
    <3>. QED
      BY <3>1 DEF PendingIsOwn, SecretInv, SecretTypeOK
  <2>. QED
    BY <2>1, <2>2
<1>5. ASSUME NEW r \in Registers, UpdateAgent(r) PROVE PendingIsOwn'
  BY <1>5 DEF UpdateAgent, PendingIsOwn, SecretInv, SecretTypeOK
<1>6. ASSUME NEW r \in Registers, CreateAgent(r) PROVE PendingIsOwn'
  BY <1>6 DEF CreateAgent, PendingIsOwn, SecretInv, SecretTypeOK, SecretsAreIssued
<1>7. ASSUME NEW r \in Registers, AttachSecret(r) PROVE PendingIsOwn'
  BY <1>7 DEF AttachSecret, PendingIsOwn, SecretInv, SecretTypeOK
<1>8. ASSUME NEW r \in Registers, RegisterReply(r) PROVE PendingIsOwn'
  BY <1>8 DEF RegisterReply, PendingIsOwn, SecretInv, SecretTypeOK, NoRegistration
<1>9. ASSUME NEW r \in Registers, RegisterFails(r) PROVE PendingIsOwn'
  BY <1>9
  DEF RegisterFails, PendingIsOwn, SecretInv, SecretTypeOK, NoRegistration
<1>10. ASSUME UNCHANGED secretVars PROVE PendingIsOwn'
  BY <1>10 DEF secretVars, PendingIsOwn
<1>. QED
  BY <1>1, <1>2, <1>3, <1>4, <1>5, <1>6, <1>7, <1>8, <1>9, <1>10 DEF SecretNext

\* Only a handler that has made a secret writes one, and from then on it counts as written.
LEMMA NewSecretsStep == SecretInv /\ PendingIsOwn /\ [SecretNext]_secretVars => RowsGetNewSecrets
<1> SUFFICES ASSUME SecretInv, PendingIsOwn, [SecretNext]_secretVars PROVE RowsGetNewSecrets
  OBVIOUS
<1>1. ASSUME ConnectionLost PROVE RowsGetNewSecrets
  BY <1>1 DEF ConnectionLost, RowsGetNewSecrets, Written, At
<1>2. ASSUME NEW r \in Registers, SendRegister(r) PROVE RowsGetNewSecrets
  BY <1>2 DEF SendRegister, RowsGetNewSecrets, Written, At, SecretInv, SecretTypeOK
<1>3. ASSUME NEW r \in Registers, CheckSignature(r) PROVE RowsGetNewSecrets
  BY <1>3
  DEF CheckSignature, RowsGetNewSecrets, Written, At, SecretInv, SecretTypeOK, NoRegistration
<1>4. ASSUME NEW r \in Registers, FindAgent(r) PROVE RowsGetNewSecrets
  <2>1. CASE rows[registers[r].uuid] = NoKey
    <3>1. PICK s \in Keys \ issued :
             /\ issued' = issued \cup {s}
             /\ registers' = [registers EXCEPT ![r] = [@ EXCEPT !.pc = "update", !.secret = s]]
      BY <1>4, <2>1 DEF FindAgent
    <3>2. rows' = rows
      BY <1>4 DEF FindAgent
    <3>3. \A q \in Registers :
             registers'[q].pc = "update" =>
                registers'[q] = registers[q] \/ registers'[q].secret = s
      BY <3>1 DEF SecretInv, SecretTypeOK
    <3>4. Written \subseteq Written'
      BY <3>1, <3>3 DEF Written, At
    <3>. QED
      BY <3>2, <3>4 DEF RowsGetNewSecrets
  <2>2. CASE rows[registers[r].uuid] # NoKey
    <3>1. registers[r].secret = NoKey
      BY <1>4 DEF FindAgent, At, SecretInv, RegistersInForm
    <3>2. rows' = rows /\ issued' = issued /\ registers' = [registers EXCEPT ![r].pc = "update"]
      BY <1>4, <2>2 DEF FindAgent
    <3>3. \A q \in Registers : registers'[q].secret = registers[q].secret
      BY <3>2 DEF SecretInv, SecretTypeOK
    <3>4. \A q \in Registers \ {r} : registers'[q].pc = registers[q].pc
      BY <3>2 DEF SecretInv, SecretTypeOK
    <3>5. NoKey \notin issued
      BY DEF SecretInv, SecretTypeOK
    <3>6. Written \subseteq Written'
      BY <3>1, <3>2, <3>3, <3>4, <3>5 DEF Written, At
    <3>. QED
      BY <3>2, <3>6 DEF RowsGetNewSecrets
  <2>. QED
    BY <2>1, <2>2
<1>5. ASSUME NEW r \in Registers, UpdateAgent(r) PROVE RowsGetNewSecrets
  BY <1>5
  DEF UpdateAgent, RowsGetNewSecrets, Written, At, SecretInv, SecretTypeOK, PendingIsOwn,
      Register, RegistersInForm, SecretsAreIssued
<1>6. ASSUME NEW r \in Registers, CreateAgent(r) PROVE RowsGetNewSecrets
  BY <1>6
  DEF CreateAgent, RowsGetNewSecrets, Written, At, SecretInv, SecretTypeOK, SecretsAreIssued,
      RegistersInForm
<1>7. ASSUME NEW r \in Registers, AttachSecret(r) PROVE RowsGetNewSecrets
  BY <1>7 DEF AttachSecret, RowsGetNewSecrets, Written, At, SecretInv, SecretTypeOK
<1>8. ASSUME NEW r \in Registers, RegisterReply(r) PROVE RowsGetNewSecrets
  BY <1>8
  DEF RegisterReply, RowsGetNewSecrets, Written, At, SecretInv, SecretTypeOK, NoRegistration
<1>9. ASSUME NEW r \in Registers, RegisterFails(r) PROVE RowsGetNewSecrets
  BY <1>9
  DEF RegisterFails, RowsGetNewSecrets, Written, At, SecretInv, SecretTypeOK, NoRegistration
<1>10. ASSUME UNCHANGED secretVars PROVE RowsGetNewSecrets
  BY <1>10 DEF secretVars, RowsGetNewSecrets, Written, At
<1>. QED
  BY <1>1, <1>2, <1>3, <1>4, <1>5, <1>6, <1>7, <1>8, <1>9, <1>10 DEF SecretNext

\* registerAgent never takes the secret of a row away, and what it writes has never been in a
\* row before, however its handlers overlap: all that PreconnectVerdict lets happen to a row
\* (IssueSecret) is what the handlers can do to one.
THEOREM RowsAreGivenNew == SecretSpec => [][RowsGetNewSecrets]_secretVars
<1>1. SecretInit => PendingIsOwn
  BY DEF SecretInit, PendingIsOwn, NoRegistration
<1>2. SecretInv /\ PendingIsOwn /\ [SecretNext]_secretVars => PendingIsOwn'
  BY PendingIsOwnStep
<1>3. SecretInv /\ PendingIsOwn /\ [SecretNext]_secretVars => [RowsGetNewSecrets]_secretVars
  BY NewSecretsStep
<1>. QED
  BY <1>1, <1>2, <1>3, SecretInvariant, PTL DEF SecretSpec

-----------------------------------------------------------------------------
(* PreconnectVerdict *)

\* verify has one of three answers.
LEMMA VerdictIsTyped ==
  ASSUME NEW secret \in AnyPreSecret, NEW sig \in AnyPreSecret
  PROVE  /\ Verdict(secret, sig) \in Verdicts
         /\ Verdict(secret, sig) = "invalid_signature" => secret # sig
         /\ Verdict(secret, sig) = "no_secret" => secret = NoPreSecret
BY DEF Verdict, Verdicts

\* Entries are as old as they may be, and calls have the verdicts of verify.
LEMMA VerdictTypeStep == VerdictInv /\ [VerdictNext]_verdictVars => VerdictTypeOK'
<1> SUFFICES ASSUME VerdictInv, [VerdictNext]_verdictVars PROVE VerdictTypeOK'
  OBVIOUS
<1>1. ASSUME IssueSecret PROVE VerdictTypeOK'
  <2>1. pres' \in [Verifications -> Pre]
    BY <1>1 DEF IssueSecret, VerdictInv, VerdictTypeOK, Pre
  <2>2. signingSecret' \in AnyPreSecret /\ made' \in SUBSET PreSecrets /\ since' \in 0..SecretTtl
    BY <1>1 DEF IssueSecret, VerdictInv, VerdictTypeOK, AnyPreSecret
  <2>. QED
    BY <1>1, <2>1, <2>2 DEF IssueSecret, VerdictInv, VerdictTypeOK
<1>2. ASSUME Tick PROVE VerdictTypeOK'
  BY <1>2 DEF Tick, VerdictInv, VerdictTypeOK, Pre, AnyPreSecret, CachedSecret, NotCached
<1>3. ASSUME NEW v \in Verifications, verifyPreconnect(v) PROVE VerdictTypeOK'
  BY <1>3
  DEF verifyPreconnect, VerdictInv, VerdictTypeOK, Pre, AnyPreSecret, Verdicts, IsFinal, Verdict
<1>4. ASSUME NEW v \in Verifications, getSigningSecret(v) PROVE VerdictTypeOK'
  BY <1>4 DEF getSigningSecret, VerdictInv, VerdictTypeOK, Pre, AnyPreSecret
<1>5. ASSUME NEW v \in Verifications, cacheSigningSecret(v) PROVE VerdictTypeOK'
  BY <1>5
  DEF cacheSigningSecret, VerdictInv, VerdictTypeOK, Pre, AnyPreSecret, CachedSecret, Verdict,
      Verdicts
<1>6. ASSUME NEW v \in Verifications, AnswerPre(v) PROVE VerdictTypeOK'
  BY <1>6 DEF AnswerPre, VerdictInv, VerdictTypeOK, Pre, AnyPreSecret, NoPre
<1>7. ASSUME UNCHANGED verdictVars PROVE VerdictTypeOK'
  BY <1>7 DEF verdictVars, VerdictInv, VerdictTypeOK, Pre, AnyPreSecret
<1>. QED
  BY <1>1, <1>2, <1>3, <1>4, <1>5, <1>6, <1>7 DEF VerdictNext

\* What a row is given is not what it held: from then on no line in flight is a holder's.
LEMMA HoldersInFormStep == VerdictInv /\ [VerdictNext]_verdictVars => HoldersInForm'
<1> SUFFICES ASSUME VerdictInv, [VerdictNext]_verdictVars PROVE HoldersInForm'
  OBVIOUS
<1>1. ASSUME IssueSecret PROVE HoldersInForm'
  BY <1>1 DEF IssueSecret, VerdictInv, VerdictTypeOK, HoldersInForm, Pre, AnyPreSecret
<1>2. ASSUME Tick PROVE HoldersInForm'
  BY <1>2 DEF Tick, VerdictInv, VerdictTypeOK, HoldersInForm, Pre, AnyPreSecret
<1>3. ASSUME NEW v \in Verifications, verifyPreconnect(v) PROVE HoldersInForm'
  <2>1. PICK sig \in PreSecrets :
          /\ pres'[v].sig = sig /\ pres'[v].held = (signingSecret = sig)
          /\ pres'[v].pc # "fetched"
          /\ \A u \in Verifications \ {v} : pres'[u] = pres[u]
    BY <1>3, VerdictIsTyped
    DEF verifyPreconnect, VerdictInv, VerdictTypeOK, CachedSecret, NotCached, AnyPreSecret, Verdicts
  <2>. QED
    BY <1>3, <2>1 DEF verifyPreconnect, VerdictInv, HoldersInForm
<1>4. ASSUME NEW v \in Verifications, getSigningSecret(v) PROVE HoldersInForm'
  BY <1>4 DEF getSigningSecret, VerdictInv, VerdictTypeOK, HoldersInForm, Pre, AnyPreSecret
<1>5. ASSUME NEW v \in Verifications, cacheSigningSecret(v) PROVE HoldersInForm'
  BY <1>5
  DEF cacheSigningSecret, VerdictInv, VerdictTypeOK, HoldersInForm, Pre, AnyPreSecret, Verdict
<1>6. ASSUME NEW v \in Verifications, AnswerPre(v) PROVE HoldersInForm'
  BY <1>6 DEF AnswerPre, VerdictInv, VerdictTypeOK, HoldersInForm, Pre, AnyPreSecret, NoPre
<1>7. ASSUME UNCHANGED verdictVars PROVE HoldersInForm'
  BY <1>7 DEF verdictVars, VerdictInv, VerdictTypeOK, HoldersInForm, Pre, AnyPreSecret
<1>. QED
  BY <1>1, <1>2, <1>3, <1>4, <1>5, <1>6, <1>7 DEF VerdictNext

\* The verdict is final only where the secret was read for this line, or matches.
LEMMA HolderStep == VerdictInv /\ [VerdictNext]_verdictVars => HolderIsAccepted'
<1> SUFFICES ASSUME VerdictInv, [VerdictNext]_verdictVars PROVE HolderIsAccepted'
  OBVIOUS
<1>1. ASSUME IssueSecret PROVE HolderIsAccepted'
  BY <1>1
  DEF IssueSecret, VerdictInv, VerdictTypeOK, HoldersInForm, HolderIsAccepted, Pre, AnyPreSecret
<1>2. ASSUME Tick PROVE HolderIsAccepted'
  BY <1>2 DEF Tick, VerdictInv, VerdictTypeOK, HoldersInForm, HolderIsAccepted, Pre, AnyPreSecret
<1>3. ASSUME NEW v \in Verifications, verifyPreconnect(v) PROVE HolderIsAccepted'
  BY <1>3
  DEF verifyPreconnect, VerdictInv, VerdictTypeOK, HoldersInForm, HolderIsAccepted, Pre,
      AnyPreSecret, IsFinal, Verdict
<1>4. ASSUME NEW v \in Verifications, getSigningSecret(v) PROVE HolderIsAccepted'
  BY <1>4
  DEF getSigningSecret, VerdictInv, VerdictTypeOK, HoldersInForm, HolderIsAccepted, Pre,
      AnyPreSecret
<1>5. ASSUME NEW v \in Verifications, cacheSigningSecret(v) PROVE HolderIsAccepted'
  BY <1>5
  DEF cacheSigningSecret, VerdictInv, VerdictTypeOK, HoldersInForm, HolderIsAccepted, Pre,
      AnyPreSecret, Verdict
<1>6. ASSUME NEW v \in Verifications, AnswerPre(v) PROVE HolderIsAccepted'
  BY <1>6
  DEF AnswerPre, VerdictInv, VerdictTypeOK, HoldersInForm, HolderIsAccepted, Pre, AnyPreSecret,
      NoPre
<1>7. ASSUME UNCHANGED verdictVars PROVE HolderIsAccepted'
  BY <1>7
  DEF verdictVars, VerdictInv, VerdictTypeOK, HoldersInForm, HolderIsAccepted, Pre, AnyPreSecret
<1>. QED
  BY <1>1, <1>2, <1>3, <1>4, <1>5, <1>6, <1>7 DEF VerdictNext

\* A tick takes from an entry what it adds to the age of the row.
LEMMA OldSecretStep == VerdictInv /\ [VerdictNext]_verdictVars => OldSecretExpires'
<1> SUFFICES ASSUME VerdictInv, [VerdictNext]_verdictVars PROVE OldSecretExpires'
  OBVIOUS
<1>1. ASSUME IssueSecret PROVE OldSecretExpires'
  BY <1>1 DEF IssueSecret, VerdictInv, VerdictTypeOK, OldSecretExpires, CachedSecret, NotCached
<1>2. ASSUME Tick PROVE OldSecretExpires'
  BY <1>2 DEF Tick, VerdictInv, VerdictTypeOK, OldSecretExpires, CachedSecret, NotCached
<1>3. ASSUME NEW v \in Verifications, verifyPreconnect(v) PROVE OldSecretExpires'
  BY <1>3
  DEF verifyPreconnect, VerdictInv, VerdictTypeOK, OldSecretExpires, CachedSecret, NotCached
<1>4. ASSUME NEW v \in Verifications, getSigningSecret(v) PROVE OldSecretExpires'
  BY <1>4
  DEF getSigningSecret, VerdictInv, VerdictTypeOK, OldSecretExpires, CachedSecret, NotCached
<1>5. ASSUME NEW v \in Verifications, cacheSigningSecret(v) PROVE OldSecretExpires'
  BY <1>5
  DEF cacheSigningSecret, VerdictInv, VerdictTypeOK, OldSecretExpires, CachedSecret, NotCached
<1>6. ASSUME NEW v \in Verifications, AnswerPre(v) PROVE OldSecretExpires'
  BY <1>6 DEF AnswerPre, VerdictInv, VerdictTypeOK, OldSecretExpires, CachedSecret, NotCached
<1>7. ASSUME UNCHANGED verdictVars PROVE OldSecretExpires'
  BY <1>7 DEF verdictVars, VerdictInv, VerdictTypeOK, OldSecretExpires, CachedSecret, NotCached
<1>. QED
  BY <1>1, <1>2, <1>3, <1>4, <1>5, <1>6, <1>7 DEF VerdictNext

\* At first nothing is cached and no line has come.
LEMMA VerdictInvInit == VerdictInit => VerdictInv
BY DEF VerdictInit, VerdictInv, VerdictTypeOK, HoldersInForm, HolderIsAccepted, OldSecretExpires,
   CachedSecret, NotCached, Pre, NoPre, AnyPreSecret

\* Every behaviour of VerdictSpec keeps the inductive invariant.
THEOREM VerdictInvariant == VerdictSpec => []VerdictInv
<1>1. VerdictInv /\ [VerdictNext]_verdictVars => VerdictInv'
  BY VerdictTypeStep, HoldersInFormStep, HolderStep, OldSecretStep DEF VerdictInv
<1>. QED
  BY <1>1, VerdictInvInit, PTL DEF VerdictSpec

\* A line that is signed with the secret of the row is refused only from an entry that says
\* there is none, for any number of lines in flight and any number of secrets.
THEOREM HoldersAreAccepted == VerdictSpec => []HolderIsAccepted
<1>1. VerdictInv => HolderIsAccepted
  BY DEF VerdictInv
<1>. QED
  BY <1>1, VerdictInvariant, PTL

\* What the row no longer holds is believed for at most the lifetime of an entry, whatever
\* that is, but for the secret of a query that was overtaken.
THEOREM OldSecretsExpire == VerdictSpec => []OldSecretExpires
<1>1. VerdictInv => OldSecretExpires
  BY DEF VerdictInv
<1>. QED
  BY <1>1, VerdictInvariant, PTL

-----------------------------------------------------------------------------
(* The seven together *)

\* The parts share no state: a behaviour of the whole is a behaviour of each, so that what was
\* proved of a part holds of the whole.
LEMMA PartsAreFollowed ==
    /\ CredentialSpec => SessionSpec
    /\ CredentialSpec => MailSpec
    /\ CredentialSpec => TotpSpec
    /\ CredentialSpec => TerminalSpec
    /\ CredentialSpec => PacketSpec
    /\ CredentialSpec => SecretSpec
    /\ CredentialSpec => VerdictSpec
<1>1. CredentialInit =>
        /\ SessionInit /\ MailInit /\ TotpInit /\ TerminalInit
        /\ PacketInit /\ SecretInit /\ VerdictInit
  BY Zenon DEF CredentialInit
<1>2. ASSUME [CredentialNext]_credentialVars
      PROVE  /\ [SessionNext]_sessionVars /\ [MailNext]_mailVars /\ [TotpNext]_totpVars
             /\ [TerminalNext]_terminalVars /\ [PacketNext]_packetVars
             /\ [SecretNext]_secretVars /\ [VerdictNext]_verdictVars
  <2>1. CASE UNCHANGED credentialVars
    BY <2>1 DEF credentialVars
  <2>2. CASE CredentialNext
    BY <2>2 DEF CredentialNext
  <2>. QED
    BY <1>2, <2>1, <2>2
<1>. QED
  BY <1>1, <1>2, PTL DEF CredentialSpec, SessionSpec, MailSpec, TotpSpec, TerminalSpec,
     PacketSpec, SecretSpec, VerdictSpec

\* Every part keeps its state well typed.
THEOREM CredentialsTyped == CredentialSpec => []CredentialTypes
<1>1. /\ SessionInv => SessionTypeOK
      /\ MailInv => MailTypeOK
      /\ TotpInv => TotpTypeOK
      /\ TerminalInv => TerminalTypeOK
      /\ PacketInv => PacketTypeOK
      /\ SecretInv => SecretTypeOK
      /\ VerdictInv => VerdictTypeOK
  BY DEF SessionInv, MailInv, TotpInv, TerminalInv, PacketInv, SecretInv, VerdictInv
<1>. QED
  BY <1>1, PartsAreFollowed, SessionInvariant, MailInvariant, TotpInvariant,
     TerminalInvariant, PacketInvariant, SecretInvariant, VerdictInvariant, PTL
  DEF CredentialTypes

=============================================================================
