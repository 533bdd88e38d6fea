--------------------------- MODULE MCCredentials ---------------------------
(***************************************************************************)
(* What users, consoles and Agents show to be let in, for TLC.  The parts  *)
(* share no state, so each behaviour follows one of them: the constant     *)
(* variable part says which, and the others stay as they began.            *)
(***************************************************************************)
EXTENDS AuthSession, MailVerification, TwoFactor, ConsoleTerminal, PacketGuard, AgentSecret,
        PreconnectVerdict, TLC

VARIABLE part

credentialVars ==
    <<part, sessionVars, mailVars, totpVars, terminalVars, packetVars, secretVars, verdictVars>>

CredentialInit ==
    /\ part \in {"session", "mail", "totp", "terminal", "packet", "secret", "verdict"}
    /\ SessionInit /\ TotpInit /\ TerminalInit
    /\ IF part = "mail" THEN MailInit ELSE MailInit /\ user = "none"
    /\ IF part = "packet" THEN PacketInit ELSE PacketInit /\ ahead = [s \in Signers |-> 0]
    /\ IF part = "secret" THEN SecretInit ELSE SecretInit /\ agent.uuid = NoUuid
    /\ IF part = "verdict" THEN VerdictInit ELSE VerdictInit /\ made = {}

CredentialNext ==
    \/ /\ part = "session" /\ SessionNext
       /\ UNCHANGED <<part, mailVars, totpVars, terminalVars, packetVars, secretVars,
                      verdictVars>>
    \/ /\ part = "mail" /\ MailNext
       /\ UNCHANGED <<part, sessionVars, totpVars, terminalVars, packetVars, secretVars,
                      verdictVars>>
    \/ /\ part = "totp" /\ TotpNext
       /\ UNCHANGED <<part, sessionVars, mailVars, terminalVars, packetVars, secretVars,
                      verdictVars>>
    \/ /\ part = "terminal" /\ TerminalNext
       /\ UNCHANGED <<part, sessionVars, mailVars, totpVars, packetVars, secretVars,
                      verdictVars>>
    \/ /\ part = "packet" /\ PacketNext
       /\ UNCHANGED <<part, sessionVars, mailVars, totpVars, terminalVars, secretVars,
                      verdictVars>>
    \/ /\ part = "secret" /\ SecretNext
       /\ UNCHANGED <<part, sessionVars, mailVars, totpVars, terminalVars, packetVars, verdictVars>>
    \/ /\ part = "verdict" /\ VerdictNext
       /\ UNCHANGED <<part, sessionVars, mailVars, totpVars, terminalVars, packetVars, secretVars>>

CredentialSpec == CredentialInit /\ [][CredentialNext]_credentialVars

\* The type invariants of the seven parts.
CredentialTypes ==
    /\ SessionTypeOK /\ MailTypeOK /\ TotpTypeOK /\ TerminalTypeOK
    /\ PacketTypeOK /\ SecretTypeOK /\ VerdictTypeOK

\* Tokens, codes, packets and keys are the same three values, handlers the same two.
Symmetry == Permutations(Tokens) \cup Permutations(Requests) \cup Permutations(Browsers)
=============================================================================
