---------------------------- MODULE AuthSession ----------------------------
(***************************************************************************)
(* Login sessions: the rows of refresh_token, the refreshToken cookie of   *)
(* each browser of one user, and the requests that use it up.  A request   *)
(* carries the cookie of the moment it was sent, waits at every query, and *)
(* its answer sets or clears the cookie whenever it arrives, if it does.   *)
(* A browser sends several at the same time when its access token runs     *)
(* out.                                                                    *)
(***************************************************************************)
EXTENDS Naturals

CONSTANTS
    Browsers,
    Requests,       \* requests in flight at the same time
    Tokens,         \* refresh tokens that may come to be issued
    NoBrowser, NoToken,
    Grace           \* REFRESH_ROTATION_GRACE_MS, in ticks

ASSUME SessionConstants == NoBrowser \notin Browsers /\ NoToken \notin Tokens /\ Grace \in Nat

VARIABLES
    tokens,         \* the rows of refresh_token: state, and ticks since token_expired_at
    cookie,         \* per browser, refreshToken
    requests,       \* the requests in flight
    revoked,        \* history: per browser, the tokens its logouts have given up
    late            \* history: browsers that an answer reached too late or not at all

sessionVars == <<tokens, cookie, requests, revoked, late>>

Request == [op: {"none", "refresh", "logout", "login"},
            pc: {"idle", "active", "rotate", "recent", "sign", "set", "revoke", "clear"},
            browser: Browsers \cup {NoBrowser}, token: Tokens \cup {NoToken}]

NoRequest == [op |-> "none", pc |-> "idle", browser |-> NoBrowser, token |-> NoToken]

SessionTypeOK ==
    /\ tokens \in [Tokens -> [state: {"none", "active", "expired"}, age: 0..Grace + 1]]
    /\ cookie \in [Browsers -> Tokens \cup {NoToken}]
    /\ requests \in [Requests -> Request]
    /\ revoked \in [Browsers -> SUBSET Tokens]
    /\ late \in SUBSET Browsers

SessionInit ==
    /\ tokens = [t \in Tokens |-> [state |-> "none", age |-> 0]]
    /\ cookie = [b \in Browsers |-> NoToken]
    /\ requests = [r \in Requests |-> NoRequest]
    /\ revoked = [b \in Browsers |-> {}]
    /\ late = {}

-----------------------------------------------------------------------------
(* Helpers *)

Sends(r, b, op, pc) ==
    /\ requests[r] = NoRequest
    /\ requests' = [requests EXCEPT ![r] = [op |-> op, pc |-> pc, browser |-> b, token |-> cookie[b]]]
    /\ UNCHANGED <<tokens, cookie, revoked, late>>

Proceeds(r, pc) == requests' = [requests EXCEPT ![r].pc = pc]

Answered(r) == requests' = [requests EXCEPT ![r] = NoRequest]

Expire(t) == tokens' = [tokens EXCEPT ![t] = [state |-> "expired", age |-> 0]]

-----------------------------------------------------------------------------
(* TokenRefreshFilter and refresh *)

\* The access token has run out.  Without a cookie the filter answers at once and there is
\* nothing to clear.
RefreshRequest(r, b) ==
    /\ cookie[b] # NoToken
    /\ Sends(r, b, "refresh", "active")

FindActive(r) ==
    /\ requests[r].pc = "active"
    /\ Proceeds(r, IF tokens[requests[r].token].state = "active" THEN "rotate" ELSE "recent")
    /\ UNCHANGED <<tokens, cookie, revoked, late>>

\* By index: a token another request has expired meanwhile is expired again, from now.
Rotate(r) ==
    /\ requests[r].pc = "rotate"
    /\ Expire(requests[r].token)
    /\ Proceeds(r, "sign")
    /\ UNCHANGED <<cookie, revoked, late>>

\* Mutant: a token that is not active is refused.
NoGracePeriod(r) ==
    /\ requests[r].pc = "recent"
    /\ Proceeds(r, "clear")
    /\ UNCHANGED <<tokens, cookie, revoked, late>>

\* recentlyRotated: a token that was given up within the grace period still counts.
FindRecent(r) ==
    LET row == tokens[requests[r].token] IN
    /\ requests[r].pc = "recent"
    /\ Proceeds(r, IF row.state = "expired" /\ row.age <= Grace THEN "sign" ELSE "clear")
    /\ UNCHANGED <<tokens, cookie, revoked, late>>

\* A new row; jti makes its token different from every other.
signLoginTokens(r, t) ==
    /\ requests[r].pc = "sign"
    /\ tokens[t].state = "none"
    /\ tokens' = [tokens EXCEPT ![t].state = "active"]
    /\ requests' = [requests EXCEPT ![r] = [@ EXCEPT !.pc = "set", !.token = t]]
    /\ UNCHANGED <<cookie, revoked, late>>

\* setCookies, when the answer arrives.
SetCookies(r) ==
    /\ requests[r].pc = "set"
    /\ cookie' = [cookie EXCEPT ![requests[r].browser] = requests[r].token]
    /\ Answered(r)
    /\ UNCHANGED <<tokens, revoked, late>>

\* clearCookies, when the answer arrives.
ClearCookies(r) ==
    /\ requests[r].pc = "clear"
    /\ cookie' = [cookie EXCEPT ![requests[r].browser] = NoToken]
    /\ Answered(r)
    /\ UNCHANGED <<tokens, revoked, late>>

-----------------------------------------------------------------------------
(* login, register, logout *)

\* login has accepted the password and the TOTP code, or register has created the user.
LoginRequest(r, b) == Sends(r, b, "login", "sign")

LogoutRequest(r, b) == Sends(r, b, "logout", "revoke")

\* Only a token that is still active is given up.
revokeRefreshToken(r) ==
    LET t == requests[r].token IN
    /\ requests[r].pc = "revoke"
    /\ IF t # NoToken /\ tokens[t].state = "active" THEN Expire(t) ELSE UNCHANGED tokens
    /\ revoked' = [revoked EXCEPT ![requests[r].browser] = @ \cup ({t} \ {NoToken})]
    /\ Proceeds(r, "clear")
    /\ UNCHANGED <<cookie, late>>

-----------------------------------------------------------------------------
(* The network and the clock *)

\* The Hub stops, a query fails or the connection breaks.
RequestLost(r) ==
    /\ requests[r] # NoRequest
    /\ Answered(r)
    /\ late' = IF requests[r].pc \in {"sign", "set"} THEN late \cup {requests[r].browser} ELSE late
    /\ UNCHANGED <<tokens, cookie, revoked>>

\* Beyond the grace period ages are all alike.  A refresh that has not been answered when
\* the grace period of the cookie it came with, or that its browser still has, ends is late.
SessionTick ==
    /\ tokens' = [t \in Tokens |-> [tokens[t] EXCEPT
                    !.age = IF tokens[t].state = "expired" /\ @ <= Grace THEN @ + 1 ELSE @]]
    /\ late' = late \cup {b \in Browsers :
                  \E r \in Requests : requests[r].op = "refresh" /\ requests[r].browser = b /\
                     \E t \in {requests[r].token, cookie[b]} \ {NoToken} :
                        tokens'[t].state = "expired" /\ tokens'[t].age > Grace}
    /\ UNCHANGED <<cookie, requests, revoked>>

SessionNext ==
    \/ \E r \in Requests :
          \/ \E b \in Browsers : RefreshRequest(r, b) \/ LoginRequest(r, b) \/ LogoutRequest(r, b)
          \/ FindActive(r) \/ Rotate(r) \/ FindRecent(r)
          \/ \E t \in Tokens : signLoginTokens(r, t)
          \/ SetCookies(r) \/ ClearCookies(r) \/ revokeRefreshToken(r) \/ RequestLost(r)
    \/ SessionTick

SessionSpec == SessionInit /\ [][SessionNext]_sessionVars

-----------------------------------------------------------------------------
(* Properties *)

\* A browser that logged in and has not logged out is not sent back to the login page,
\* however many of its refreshes run at the same time, whatever the other browsers of the
\* user do: a refresh is refused only if its own browser has logged out with that token, or
\* an answer to this browser was lost or took longer than the grace period.
RefreshIsGranted ==
    \A r \in Requests : requests[r].op = "refresh" /\ requests[r].pc = "clear" =>
        requests[r].token \in revoked[requests[r].browser] \/ requests[r].browser \in late

=============================================================================
