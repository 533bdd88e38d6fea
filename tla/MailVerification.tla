-------------------------- MODULE MailVerification --------------------------
(***************************************************************************)
(* The verification codes of one mail address: issuing, re-sending and     *)
(* consuming them (AuthService).  Time is counted in ticks; ages beyond    *)
(* what any handler compares with are all alike.  The cooldown is checked, *)
(* a code chosen, its row written and the mail sent in steps of their own. *)
(***************************************************************************)
EXTENDS Naturals

CONSTANTS
    Codes,          \* rows of verification that may come to exist
    Handlers,       \* handlers at the same time
    NoCode,
    Ttl,            \* mail.verificationTtlMinutes, in ticks
    Cooldown        \* mail.verificationResendCooldownSeconds, in ticks

\* mail.config.ts: ten minutes and ninety seconds unless the environment says otherwise.
ASSUME MailConstants ==
    /\ NoCode \notin Codes
    /\ Ttl \in Nat /\ Cooldown \in Nat /\ Cooldown <= Ttl

VARIABLES
    codes,          \* the rows: state, ticks since created_at and last_sent_at; and whether a
                    \* mail with the code went out, and whether its last sending was spoiled
    user,           \* users.user_permission of the address, or that there is no user
    handlers        \* the suspended handlers; late: time passed since it chose its code

mailVars == <<codes, user, handlers>>

Code == [state: {"none", "issued", "consumed"}, age: 0..Ttl + 1, sent: 0..Cooldown,
         mailed: BOOLEAN, spoiled: BOOLEAN]

NoCodeRow == [state |-> "none", age |-> 0, sent |-> 0, mailed |-> FALSE, spoiled |-> FALSE]

Handler == [pc: {"idle", "cooldown", "reusable", "update", "create", "mail",
                 "user", "hash", "owner", "promote"},
            code: Codes \cup {NoCode}, late: BOOLEAN]

NoHandler == [pc |-> "idle", code |-> NoCode, late |-> FALSE]

MailTypeOK ==
    /\ codes \in [Codes -> Code]
    /\ user \in {"none", "unverified", "verified"}
    /\ handlers \in [Handlers -> Handler]

\* A new address, or that of a user from before addresses were verified.
MailInit ==
    /\ codes = [c \in Codes |-> NoCodeRow]
    /\ user \in {"none", "unverified"}
    /\ handlers = [h \in Handlers |-> NoHandler]

-----------------------------------------------------------------------------
(* Helpers *)

Enters(h, pc, c) ==
    /\ handlers[h] = NoHandler
    /\ handlers' = [handlers EXCEPT ![h] = [pc |-> pc, code |-> c, late |-> FALSE]]
    /\ UNCHANGED <<codes, user>>

Resumes(h, pc, c) == handlers' = [handlers EXCEPT ![h] = [pc |-> pc, code |-> c, late |-> FALSE]]

Leaves(h) == handlers' = [handlers EXCEPT ![h] = NoHandler]

\* Neither consumed nor expired (verificationIssuedAfter).
Valid(c) == codes[c].state = "issued" /\ codes[c].age <= Ttl

\* Some code of the address was sent less than the cooldown ago.
Refused == \E c \in Codes : codes[c].state # "none" /\ codes[c].sent < Cooldown

\* Mutant: a code is sent again as long as it is valid.
ReusableWhileValid(c) == codes[c].state = "issued" /\ codes[c].age <= Ttl

\* Not consumed, and valid for another cooldown at least.
Reusable(c) == codes[c].state = "issued" /\ codes[c].age <= Ttl - Cooldown

-----------------------------------------------------------------------------
(* verifyEmail, requestExistingEmailVerification and issueOrReuseVerification *)

\* An address that has a user is refused.
verifyEmail(h) ==
    /\ user = "none"
    /\ Enters(h, "cooldown", NoCode)

requestExistingEmailVerification(h) ==
    /\ user = "unverified"
    /\ Enters(h, "cooldown", NoCode)

CheckCooldown(h) ==
    /\ handlers[h].pc = "cooldown"
    /\ IF Refused THEN Leaves(h) ELSE Resumes(h, "reusable", NoCode)
    /\ UNCHANGED <<codes, user>>

\* The newest reusable code.
FindReusable(h, c) ==
    /\ handlers[h].pc = "reusable"
    /\ Reusable(c)
    /\ \A d \in Codes : Reusable(d) => codes[c].age <= codes[d].age
    /\ Resumes(h, "update", c)
    /\ UNCHANGED <<codes, user>>

FindNone(h) ==
    /\ handlers[h].pc = "reusable"
    /\ \A c \in Codes : ~Reusable(c)
    /\ Resumes(h, "create", NoCode)
    /\ UNCHANGED <<codes, user>>

\* The code and its age stay; whether it has been consumed meanwhile is not asked.
UpdateSent(h) ==
    LET c == handlers[h].code IN
    /\ handlers[h].pc = "update"
    /\ codes' = [codes EXCEPT ![c] = [@ EXCEPT !.sent = 0, !.spoiled = handlers[h].late]]
    /\ Resumes(h, "mail", c)
    /\ UNCHANGED user

CreateCode(h, c) ==
    /\ handlers[h].pc = "create"
    /\ codes[c].state = "none"
    /\ codes' = [codes EXCEPT ![c].state = "issued"]
    /\ Resumes(h, "mail", c)
    /\ UNCHANGED user

\* sendVerification or sendVerificationForExisting.
SendMail(h) ==
    /\ handlers[h].pc = "mail"
    /\ codes' = [codes EXCEPT ![handlers[h].code].mailed = TRUE]
    /\ Leaves(h)
    /\ UNCHANGED user

\* The mail service refuses the mail, or the Hub stops: the row says it was sent.
MailFails(h) ==
    /\ handlers[h].pc = "mail"
    /\ codes' = [codes EXCEPT ![handlers[h].code].spoiled = TRUE]
    /\ Leaves(h)
    /\ UNCHANGED user

-----------------------------------------------------------------------------
(* register and verifyExistingEmail: the owner of the mailbox uses a code *)

register(h, c) ==
    /\ Valid(c) /\ codes[c].mailed
    /\ Enters(h, "user", c)

\* A user with the address ends it; otherwise the password is hashed.
RegisterLooksUp(h) ==
    /\ handlers[h].pc = "user"
    /\ IF user = "none" THEN Resumes(h, "hash", handlers[h].code) ELSE Leaves(h)
    /\ UNCHANGED <<codes, user>>

\* One transaction: if the address has got a user meanwhile, it is rolled back.
RegisterCommit(h) ==
    /\ handlers[h].pc = "hash"
    /\ IF user = "none"
       THEN user' = "verified" /\ codes' = [codes EXCEPT ![handlers[h].code].state = "consumed"]
       ELSE UNCHANGED <<codes, user>>
    /\ Leaves(h)

verifyExistingEmail(h, c) ==
    /\ Valid(c) /\ codes[c].mailed
    /\ Enters(h, "owner", c)

VerifyLooksUp(h) ==
    /\ handlers[h].pc = "owner"
    /\ IF user = "none" THEN Leaves(h) ELSE Resumes(h, "promote", handlers[h].code)
    /\ UNCHANGED <<codes, user>>

VerifyCommit(h) ==
    /\ handlers[h].pc = "promote"
    /\ user' = "verified"
    /\ codes' = [codes EXCEPT ![handlers[h].code].state = "consumed"]
    /\ Leaves(h)

-----------------------------------------------------------------------------
\* The clock.
MailTick ==
    /\ codes' = [c \in Codes |-> IF codes[c].state = "none" THEN codes[c] ELSE
                   [codes[c] EXCEPT !.age = IF @ <= Ttl THEN @ + 1 ELSE @,
                                    !.sent = IF @ < Cooldown THEN @ + 1 ELSE @]]
    /\ handlers' = [h \in Handlers |-> [handlers[h] EXCEPT !.late = handlers[h].pc = "update"]]
    /\ UNCHANGED user

MailNext ==
    \/ \E h \in Handlers :
          \/ verifyEmail(h) \/ requestExistingEmailVerification(h) \/ CheckCooldown(h)
          \/ FindNone(h) \/ UpdateSent(h) \/ SendMail(h) \/ MailFails(h)
          \/ RegisterLooksUp(h) \/ RegisterCommit(h) \/ VerifyLooksUp(h) \/ VerifyCommit(h)
          \/ \E c \in Codes : FindReusable(h, c) \/ CreateCode(h, c) \/ register(h, c) \/ verifyExistingEmail(h, c)
    \/ MailTick

MailSpec == MailInit /\ [][MailNext]_mailVars

-----------------------------------------------------------------------------
(* Properties *)

\* Nobody who is still to verify the address is told to wait without a link that works:
\* while the cooldown of a sending refuses another mail, some code is valid and was mailed
\* or is about to be, unless that sending failed or time passed between choosing the code
\* and storing that it was sent.
WaitingHasCode ==
    user # "verified" =>
        \A c \in Codes : codes[c].state # "none" /\ codes[c].sent < Cooldown /\ ~codes[c].spoiled =>
            \E d \in Codes : Valid(d) /\ (codes[d].mailed \/ \E h \in Handlers : handlers[h].pc = "mail" /\ handlers[h].code = d)

=============================================================================
