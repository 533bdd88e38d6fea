----------------------------- MODULE TwoFactor -----------------------------
(***************************************************************************)
(* Two-factor authentication of one user: user_totp_secret, _active and    *)
(* last_used_totp_step, and the calls that set up, confirm, use and remove *)
(* a secret (TwoFactorAuthenticationService, TwoFactorGuard, login).  A    *)
(* call reads the row, verifies the code, and writes the row later,        *)
(* whatever it holds by then.  A code is the pair of a secret and a step.  *)
(***************************************************************************)
EXTENDS Naturals

CONSTANTS
    Secrets,        \* secrets that may be generated
    NoSecret,
    Calls,          \* calls at the same time
    Tolerance,      \* TOTP_EPOCH_TOLERANCE_SECONDS, in steps
    MaxStep         \* bound: the last time step

ASSUME TotpConstants ==
    /\ NoSecret \notin Secrets
    /\ Tolerance \in Nat /\ MaxStep \in Nat \ {0}

VARIABLES
    row,            \* the user's secret, active and last used step (0 for null)
    step,           \* the time step of the clock
    calls,          \* the suspended calls
    generated,      \* secrets that have been generated
    confirmed,      \* history: secrets of which a code was verified by confirm2FA
    accepted,       \* history: codes that confirmed or let someone in: the row was written
    repeated,       \* history: codes that have passed a check after that
    stale,          \* history: calls that another's write of the row has overtaken
    reopened,       \* history: accepted codes above the step that such a call has stored
    crossed         \* history: the row was set up or cleared while a confirmation was on its way

totpVars == <<row, step, calls, generated, confirmed, accepted, repeated, stale, reopened, crossed>>
totpHistory == <<confirmed, accepted, repeated, stale, reopened, crossed>>

Steps == 1..MaxStep

NoCall == [pc |-> "idle", secret |-> NoSecret, step |-> 0]

Call == [pc: {"idle", "qr", "activate", "verify", "store", "drop"},
         secret: Secrets \cup {NoSecret}, step: 0..MaxStep]

TotpTypeOK ==
    /\ row \in [secret: Secrets \cup {NoSecret}, active: BOOLEAN, last: 0..MaxStep]
    /\ step \in Steps
    /\ calls \in [Calls -> Call]
    /\ generated \in SUBSET Secrets /\ confirmed \in SUBSET Secrets
    /\ accepted \in SUBSET (Secrets \X Steps) /\ repeated \in SUBSET accepted
    /\ stale \in SUBSET Calls
    /\ reopened \in SUBSET accepted /\ crossed \in BOOLEAN

TotpInit ==
    /\ row = [secret |-> NoSecret, active |-> FALSE, last |-> 0]
    /\ step = 1
    /\ calls = [k \in Calls |-> NoCall]
    /\ generated = {} /\ confirmed = {} /\ accepted = {} /\ repeated = {}
    /\ stale = {} /\ reopened = {}
    /\ crossed = FALSE

-----------------------------------------------------------------------------
(* Helpers *)

\* Mutant: otplib is not told the last used step.
AnyStepInWindow(s) == s + Tolerance >= step /\ s <= step + Tolerance

\* The code of step s, with the row's secret, passes now.
verifyUserTotp(s) ==
    /\ s + Tolerance >= step /\ s <= step + Tolerance
    /\ s > row.last

\* The code of step s passes a check, after its step was stored if it was accepted before.
PassesCheck(s) == repeated' = repeated \cup ({<<row.secret, s>>} \cap accepted)

Calling(k, pc, secret, s) ==
    calls' = [calls EXCEPT ![k] = [pc |-> pc, secret |-> secret, step |-> s]]

\* The call of k ends with a write of the row, which overtakes the others.
Writes(k, newRow) ==
    /\ row' = newRow
    /\ calls' = [calls EXCEPT ![k] = NoCall]
    /\ stale' = {i \in Calls \ {k} : calls[i] # NoCall}

\* The code of k counts from now on: its step is written, over a later one when the row was
\* written since k read it.
Accepts(k) ==
    /\ accepted' = accepted \cup {<<calls[k].secret, calls[k].step>>}
    /\ reopened' = reopened \cup
          {code \in accepted : k \in stale /\ code[1] = row.secret /\ code[2] > calls[k].step}

Confirming(k) == \E i \in Calls \ {k} : calls[i].pc = "activate"

-----------------------------------------------------------------------------
(* generate2FASecret *)

\* Refused while 2FA is on.
generate2FASecret(k, secret) ==
    /\ calls[k] = NoCall
    /\ ~row.active
    /\ secret \notin generated
    /\ generated' = generated \cup {secret}
    /\ Calling(k, "qr", secret, 0)
    /\ UNCHANGED <<row, step, totpHistory>>

\* The QR code is drawn; the row is written by then, on or off.
SetUp(k) ==
    /\ calls[k].pc = "qr"
    /\ Writes(k, [secret |-> calls[k].secret, active |-> FALSE, last |-> 0])
    /\ crossed' = (crossed \/ Confirming(k))
    /\ UNCHANGED <<step, generated, confirmed, accepted, repeated, reopened>>

-----------------------------------------------------------------------------
(* confirm2FA *)

\* Mutant: any six digits confirm.
ConfirmUnseen(k, s) ==
    /\ calls[k] = NoCall
    /\ row.secret # NoSecret
    /\ Calling(k, "activate", row.secret, s)
    /\ UNCHANGED <<row, step, generated, totpHistory>>

confirm2FA(k, s) ==
    /\ calls[k] = NoCall
    /\ row.secret # NoSecret
    /\ verifyUserTotp(s)
    /\ PassesCheck(s)
    /\ confirmed' = confirmed \cup {row.secret}
    /\ Calling(k, "activate", row.secret, s)
    /\ UNCHANGED <<row, step, generated, accepted, stale, reopened, crossed>>

\* Whatever secret the row holds by now.
Activate(k) ==
    /\ calls[k].pc = "activate"
    /\ Writes(k, [row EXCEPT !.active = TRUE, !.last = calls[k].step])
    /\ Accepts(k)
    /\ UNCHANGED <<step, generated, confirmed, repeated, crossed>>

-----------------------------------------------------------------------------
(* verifyActiveUserTotp *)

\* login or TwoFactorGuard has seen that 2FA is on.
CodeRequired(k, s) ==
    /\ calls[k] = NoCall
    /\ row.active
    /\ Calling(k, "verify", NoSecret, s)
    /\ UNCHANGED <<row, step, generated, totpHistory>>

\* It reads the row again.
VerifyCode(k) ==
    /\ calls[k].pc = "verify"
    /\ IF row.secret # NoSecret /\ row.active /\ verifyUserTotp(calls[k].step)
       THEN Calling(k, "store", row.secret, calls[k].step) /\ PassesCheck(calls[k].step)
       ELSE calls' = [calls EXCEPT ![k] = NoCall] /\ UNCHANGED repeated
    /\ stale' = stale \ {k}
    /\ UNCHANGED <<row, step, generated, confirmed, accepted, reopened, crossed>>

StoreStep(k) ==
    /\ calls[k].pc = "store"
    /\ Writes(k, [row EXCEPT !.last = calls[k].step])
    /\ Accepts(k)
    /\ UNCHANGED <<step, generated, confirmed, repeated, crossed>>

-----------------------------------------------------------------------------
(* remove2FA *)

remove2FA(k, s) ==
    /\ calls[k] = NoCall
    /\ row.secret # NoSecret /\ row.active
    /\ verifyUserTotp(s)
    /\ PassesCheck(s)
    /\ Calling(k, "drop", row.secret, s)
    /\ UNCHANGED <<row, step, generated, confirmed, accepted, stale, reopened, crossed>>

Drop(k) ==
    /\ calls[k].pc = "drop"
    /\ Writes(k, [secret |-> NoSecret, active |-> FALSE, last |-> 0])
    /\ crossed' = (crossed \/ Confirming(k))
    /\ UNCHANGED <<step, generated, confirmed, accepted, repeated, reopened>>

-----------------------------------------------------------------------------
\* The query fails or the Hub stops before the write.
CallFails(k) ==
    /\ calls[k] # NoCall
    /\ calls' = [calls EXCEPT ![k] = NoCall]
    /\ stale' = stale \ {k}
    /\ UNCHANGED <<row, step, generated, confirmed, accepted, repeated, reopened, crossed>>

StepPasses ==
    /\ step < MaxStep
    /\ step' = step + 1
    /\ UNCHANGED <<row, calls, generated, totpHistory>>

TotpNext ==
    \/ \E k \in Calls :
          \/ \E secret \in Secrets : generate2FASecret(k, secret)
          \/ \E s \in Steps : confirm2FA(k, s) \/ CodeRequired(k, s) \/ remove2FA(k, s)
          \/ SetUp(k) \/ Activate(k) \/ VerifyCode(k) \/ StoreStep(k) \/ Drop(k) \/ CallFails(k)
    \/ StepPasses

TotpSpec == TotpInit /\ [][TotpNext]_totpVars

-----------------------------------------------------------------------------
(* Properties *)

\* A code whose step was stored passes no later check of confirm2FA, login, the guard or
\* remove2FA, unless a call has since put a lower step over a row that another had written
\* since it read it.  Calls that read the row before the first of them stores may accept one
\* code together; that is no later check.
CodeAcceptedOnce == repeated \subseteq reopened

\* 2FA is on only with a secret of which the user has proved to have it in an app, so that
\* the next login can succeed; unless a set-up or a removal wrote the row while a
\* confirmation was on its way.
ActiveSecretWasConfirmed == row.active => row.secret \in confirmed \/ crossed

=============================================================================
