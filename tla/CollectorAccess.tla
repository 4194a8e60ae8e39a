--------------------------- MODULE CollectorAccess ---------------------------
(***************************************************************************)
(* Collectors, their credentials, and the authentication of the requests   *)
(* that present them, while an administrator issues and revokes            *)
(* credentials and disables and enables collectors from another process.   *)
(*                                                                         *)
(* CollectorAuthenticator.authenticate is one transaction at READ          *)
(* COMMITTED: it reads the credential, reads the collector, decides, and   *)
(* commits an audit event, so that administration takes effect between its *)
(* statements.  Each call of the administrator reads one row and writes    *)
(* columns whose new values do not depend on it: one step.                 *)
(*                                                                         *)
(* A collector's tenant and source never change, and are one value here.   *)
(* No collector or credential is ever deleted, so that a credential read   *)
(* has its collector (the foreign key).                                    *)
(***************************************************************************)
EXTENDS Naturals, Sequences, FiniteSets, Functions

CONSTANTS
    Collector,
    Credential,
    Request,        \* requests that are under way at the same time
    MaxAttempts,    \* bound: attempts to authenticate
    MaxTime         \* bound: the clock

ASSUME AccessAssumption ==
    /\ MaxAttempts \in Nat
    /\ MaxTime \in Nat
    /\ Credential # {}

Never == MaxTime + 1    \* expires_at is null

Time == 0..MaxTime

CredentialRow == [collector : Collector, expires : 1..Never,
                  revoked : BOOLEAN, used : BOOLEAN]

\* Whose secret a bearer token holds, and whether it is the issued one.
Token == [form : {"wrong_secret", "genuine"}, credential : Credential]
            \cup [form : {"missing", "malformed"},
                  credential : {CHOOSE k \in Credential : TRUE}]

Reason == {"credentials_missing", "token_malformed", "credential_not_found",
           "credential_secret_mismatch", "credential_revoked",
           "credential_expired", "collector_disabled"}

VARIABLES
    clock,
    status,         \* of each collector
    credentials,    \* credential identifier -> row
    authEvents,     \* the audit events, each with its attempt
    attempts,       \* attempts so far
    auth,           \* the latest attempt of each request
    revocations     \* history: the credentials ever revoked

accounts == << clock, status, credentials, revocations >>
access == << accounts, authEvents, attempts, auth >>

NoAttempt ==
    [step |-> "none", number |-> 0,
     token |-> CHOOSE t \in Token : t.form = "missing",
     at |-> 0, row |-> << >>, barred |-> FALSE, disabled |-> FALSE]

AccessInit ==
    /\ clock = 0
    /\ status = [c \in Collector |-> "absent"]
    /\ credentials = << >>
    /\ authEvents = {}
    /\ attempts = 0
    /\ auth = [r \in Request |-> NoAttempt]
    /\ revocations = {}

-----------------------------------------------------------------------------
(* CollectorRepository.                                                    *)

Tick ==
    /\ clock < MaxTime
    /\ clock' = clock + 1
    /\ UNCHANGED << status, credentials, revocations, authEvents, attempts,
                    auth >>

CreateCollector(c) ==
    /\ status[c] = "absent"
    /\ status' = [status EXCEPT ![c] = "enabled"]
    /\ UNCHANGED << clock, credentials, revocations, authEvents, attempts,
                    auth >>

Disable(c) ==
    /\ status[c] = "enabled"
    /\ status' = [status EXCEPT ![c] = "disabled"]
    /\ UNCHANGED << clock, credentials, revocations, authEvents, attempts,
                    auth >>

\* No attempt under way has been disabled all along any more (history).
Enable(c) ==
    /\ status[c] = "disabled"
    /\ status' = [status EXCEPT ![c] = "enabled"]
    /\ auth' = [r \in Request |-> [auth[r] EXCEPT !.disabled = FALSE]]
    /\ UNCHANGED << clock, credentials, revocations, authEvents, attempts >>

IssueCredential(k, c, expires) ==
    /\ k \notin DOMAIN credentials
    /\ status[c] = "enabled"
    /\ expires > clock
    /\ credentials' =
         [j \in DOMAIN credentials \cup {k} |->
            IF j = k THEN [collector |-> c, expires |-> expires,
                           revoked |-> FALSE, used |-> FALSE]
            ELSE credentials[j]]
    /\ UNCHANGED << clock, status, revocations, authEvents, attempts, auth >>

Revoke(k) ==
    /\ k \in DOMAIN credentials
    /\ k \notin revocations
    /\ credentials' = [credentials EXCEPT ![k].revoked = TRUE]
    /\ revocations' = revocations \cup {k}
    /\ UNCHANGED << clock, status, authEvents, attempts, auth >>

Administer ==
    \/ Tick
    \/ \E c \in Collector :
          \/ CreateCollector(c)
          \/ Disable(c)
          \/ Enable(c)
          \/ \E k \in Credential, e \in 1..Never : IssueCredential(k, c, e)
    \/ \E k \in Credential : Revoke(k)

-----------------------------------------------------------------------------
(* CollectorAuthenticator.authenticate.                                    *)

\* The audit event of an attempt; a rejection says what it had found out.
AuthEvent(number, outcome, k) ==
    [attempt |-> number, outcome |-> outcome, credential |-> k]

\* Fault: the event is added, and lost when the session is closed.
RecordUncommitted(number, outcome, k) == authEvents

Record(number, outcome, k) == authEvents \cup {AuthEvent(number, outcome, k)}

Rejected(attempt, reason, known) ==
    /\ authEvents' = Record(attempt.number, reason, known)
    /\ UNCHANGED << accounts, attempts >>

\* After its commit an attempt answers, or fails because the commit is not
\* acknowledged.
Ending(outcome) == {outcome, "failed"}

Reject(r, reason) ==
    /\ Rejected(auth[r], reason, {auth[r].token.credential})
    /\ \E step \in Ending("rejected") : auth' = [auth EXCEPT ![r].step = step]

\* History: nothing that follows may accept the token.
Barred(k) ==
    \/ k \in revocations
    \/ k \in DOMAIN credentials /\ credentials[k].expires <= clock

\* What is rejected before the database is read.
Unreadable == [missing |-> "credentials_missing",
               malformed |-> "token_malformed"]

\* A client knows the secret of a credential that has been issued only.
Present(r, token) ==
    LET k == token.credential
        attempt(step) ==
           [step |-> step, number |-> attempts + 1, token |-> token,
            at |-> clock, row |-> << >>, barred |-> Barred(k),
            disabled |-> k \in DOMAIN credentials
                            /\ status[credentials[k].collector] = "disabled"]
    IN  /\ attempts < MaxAttempts
        /\ token.form = "genuine" => k \in DOMAIN credentials
        /\ attempts' = attempts + 1
        /\ \/ /\ token.form \in DOMAIN Unreadable
              /\ \E step \in Ending("rejected") :
                    auth' = [auth EXCEPT ![r] = attempt(step)]
              /\ authEvents' =
                    Record(attempts + 1, Unreadable[token.form], {})
           \/ /\ token.form \notin DOMAIN Unreadable
              /\ auth' = [auth EXCEPT ![r] = attempt("credential")]
              /\ UNCHANGED authEvents
        /\ UNCHANGED accounts

ReadCredential(r) ==
    LET k == auth[r].token.credential
    IN  /\ auth[r].step = "credential"
        /\ IF k \in DOMAIN credentials
           THEN /\ auth' = [auth EXCEPT ![r].row = credentials[k],
                                        ![r].step = "collector"]
                /\ UNCHANGED << accounts, attempts, authEvents >>
           ELSE Reject(r, "credential_not_found")

\* Fault: the row is written back as it was read.
StampedWholeRow(current, read) == [read EXCEPT !.used = TRUE]

\* The ORM updates the columns that were assigned, last_used_at alone.
Stamped(current, read) == [current EXCEPT !.used = TRUE]

\* The collector is read; what was read of it and of the credential decides.
Decide(r) ==
    LET a == auth[r]
        k == a.token.credential
    IN  /\ a.step = "collector"
        /\ CASE a.token.form = "wrong_secret" ->
                  Reject(r, "credential_secret_mismatch")
             [] a.token.form = "genuine" /\ a.row.revoked ->
                  Reject(r, "credential_revoked")
             [] /\ a.token.form = "genuine" /\ ~a.row.revoked
                /\ a.row.expires <= a.at ->
                  Reject(r, "credential_expired")
             [] /\ a.token.form = "genuine" /\ ~a.row.revoked
                /\ a.row.expires > a.at
                /\ status[a.row.collector] # "enabled" ->
                  Reject(r, "collector_disabled")
             [] OTHER ->
                  /\ auth' = [auth EXCEPT ![r].step = "accepting"]
                  /\ UNCHANGED << accounts, attempts, authEvents >>

\* The row is stamped and the event added in one commit.
Accept(r) ==
    LET k == auth[r].token.credential
    IN  /\ auth[r].step = "accepting"
        /\ credentials' =
             [credentials EXCEPT ![k] = Stamped(@, auth[r].row)]
        /\ authEvents' = Record(auth[r].number, "authenticated", {k})
        /\ \E step \in Ending("accepted") : auth' = [auth EXCEPT ![r].step = step]
        /\ UNCHANGED << clock, status, revocations, attempts >>

\* The database fails a statement or the commit, or the process ends.
Abandon(r) ==
    /\ auth[r].step \in {"credential", "collector", "accepting"}
    /\ auth' = [auth EXCEPT ![r].step = "failed"]
    /\ UNCHANGED << accounts, attempts, authEvents >>

Authenticate(r) ==
    ReadCredential(r) \/ Decide(r) \/ Accept(r) \/ Abandon(r)

-----------------------------------------------------------------------------

\* Types of the accounts and of the attempts.
AccessTypeOK ==
    /\ clock \in Time
    /\ status \in [Collector -> {"absent", "enabled", "disabled"}]
    /\ DOMAIN credentials \subseteq Credential
    /\ \A k \in DOMAIN credentials : credentials[k] \in CredentialRow
    /\ attempts \in 0..MaxAttempts
    /\ revocations \subseteq DOMAIN credentials
    /\ \A r \in Request :
          /\ auth[r].step \in {"none", "credential", "collector", "accepting",
                               "accepted", "rejected", "failed"}
          /\ auth[r].token \in Token
          /\ auth[r].number \in 0..attempts
          /\ auth[r].step \in {"collector", "accepting", "accepted"}
                => auth[r].row \in CredentialRow

(***************************************************************************)
(* An attempt that begins after its credential was revoked or had expired, *)
(* or that finds the collector disabled from its beginning to its end, is  *)
(* not accepted: a revocation lasts, whatever other attempts with the same *)
(* credential write to its row meanwhile (authenticate, revoke_credential, *)
(* disable_collector).                                                     *)
(***************************************************************************)
RevokedNeverAccepted ==
    \A r \in Request :
        auth[r].step = "accepted" => ~auth[r].barred /\ ~auth[r].disabled

=============================================================================
