------------------------- MODULE IngestionApi_proofs -------------------------
(***************************************************************************)
(* RevokedNeverAccepted, BatchReplyTrue and AuditMatchesReplies, for any   *)
(* collectors, credentials, requests and submissions.                      *)
(*                                                                         *)
(* The invariant follows a request through its two phases.  Honest: what   *)
(* an attempt has read of a credential that was barred when it began shows *)
(* it, or will.  Handled: what the reply and the results say of the stage  *)
(* of the attempt behind them.  ItemsTrue: the log only grows, and a       *)
(* conflict stays one.  Audited: attempts have numbers of their own, under *)
(* which the log has nothing before they end, and then one event.          *)
(***************************************************************************)
EXTENDS IngestionApi, TLAPS

Attempt ==
    [step : {"none", "credential", "collector", "accepting",
             "accepted", "rejected", "failed"},
     number : Nat, token : Token, at : Nat, row : CredentialRow \cup {<< >>},
     barred : BOOLEAN, disabled : BOOLEAN]

\* Replies of a route, which are given to authenticated requests only.
RouteReply == {"ingested", "immutable_conflict", "batch_size_exceeded",
               "scope_mismatch", "ontology_validation_failed",
               "store_unavailable"}

Reply == RouteReply \cup {"none", "unauthorized", "internal_error",
                          "request_body_too_large", "unsupported_media_type"}

Handling ==
    [batch : Seq(Payload), body : Body, single : BOOLEAN,
     stage : {"none", "authenticating", "putting", "done"},
     results : Seq({"created", "existing", "conflict"}), reply : Reply]

Typed ==
    /\ TypeOK
    /\ auth \in [Request -> Attempt]
    /\ request \in [Request -> Handling]

Key(r) == auth[r].token.credential

RevocationsShow == \A k \in revocations : credentials[k].revoked

UnderWay == {"credential", "collector", "accepting"}

\* What an attempt has found out, or is going to.
Honest(r) ==
    /\ auth[r].step = "credential" =>
          /\ auth[r].barred =>
                /\ Key(r) \in DOMAIN credentials
                /\ \/ credentials[Key(r)].revoked
                   \/ credentials[Key(r)].expires <= auth[r].at
          /\ auth[r].disabled =>
                /\ Key(r) \in DOMAIN credentials
                /\ status[credentials[Key(r)].collector] = "disabled"
    /\ auth[r].step = "collector" =>
          /\ auth[r].barred =>
                auth[r].row.revoked \/ auth[r].row.expires <= auth[r].at
          /\ auth[r].disabled => status[auth[r].row.collector] = "disabled"
    /\ auth[r].step \in {"accepting", "accepted"} =>
          ~auth[r].barred /\ ~auth[r].disabled
    /\ auth[r].step \in {"collector", "accepting"} =>
          Key(r) \in DOMAIN credentials
    /\ auth[r].step \in UnderWay =>
          auth[r].token.form \in {"genuine", "wrong_secret"}

\* A request's stage, results and reply, and the attempt they stand on.
Handled(r) ==
    /\ request[r].stage \in {"none", "authenticating"} =>
          request[r].results = << >>
    /\ request[r].stage # "done" => request[r].reply = "none"
    /\ request[r].stage = "authenticating" =>
          auth[r].step \in UnderWay /\ request[r].batch # << >>
    /\ request[r].stage = "putting" =>
          /\ auth[r].step = "accepted"
          /\ Faults(r) = {}
          /\ Len(request[r].results) < Len(request[r].batch)
    /\ request[r].results # << >> =>
          auth[r].step = "accepted" /\ Faults(r) = {}
    /\ Len(request[r].results) <= Len(request[r].batch)
    /\ request[r].reply \in {"ingested", "immutable_conflict"} =>
          Len(request[r].results) = Len(request[r].batch)
    /\ request[r].reply \in RouteReply => auth[r].step = "accepted"
    /\ request[r].reply = "unauthorized" => auth[r].step = "rejected"
    /\ request[r].reply = "unsupported_media_type" => auth[r].step = "none"
    /\ request[r].stage # "authenticating" => auth[r].step \notin UnderWay

\* What was said of the items put so far.
ItemsTrue(r) ==
    \A i \in DOMAIN request[r].results :
        IF request[r].results[i] = "conflict"
        THEN /\ request[r].batch[i] \notin Stored
             /\ Conflicts(request[r].batch[i])
        ELSE Disposition(request[r].batch[i]) = "existing"

\* Attempts are told apart by their numbers.
Numbered ==
    /\ \A e \in authEvents : e.attempt \in 1..attempts
    /\ \A r \in Request :
          /\ auth[r].number \in 0..attempts
          /\ auth[r].step = "none" <=> auth[r].number = 0
    /\ \A r, s \in Request :
          r # s /\ auth[r].number = auth[s].number => auth[r].number = 0

Audited(r) ==
    /\ auth[r].step \in UnderWay \cup {"none"} => Outcomes(r) = {}
    /\ auth[r].step = "accepted" => Outcomes(r) = {"authenticated"}
    /\ auth[r].step = "rejected" =>
          \E reason \in Reason : Outcomes(r) = {reason}

IInv ==
    /\ Typed
    /\ RevocationsShow
    /\ Numbered
    /\ \A r \in Request :
          Honest(r) /\ Handled(r) /\ ItemsTrue(r) /\ Audited(r)

-----------------------------------------------------------------------------
(* What the steps of authentication do, in the terms of the invariant.     *)

\* An attempt as administration leaves it.
Same(r) ==
    /\ auth'[r].step = auth[r].step
    /\ auth'[r].number = auth[r].number
    /\ auth'[r].token = auth[r].token
    /\ auth'[r].at = auth[r].at
    /\ auth'[r].row = auth[r].row
    /\ auth'[r].barred = auth[r].barred
    /\ auth'[r].disabled => auth[r].disabled

\* A step of authentication in which r goes on to a step.
Advances(r, step) ==
    /\ auth'[r] = [auth[r] EXCEPT !.step = step]
    /\ auth' \in [Request -> Attempt]
    /\ \A s \in Request \ {r} : auth'[s] = auth[s]
    /\ UNCHANGED << clock, status, revocations, attempts >>

LEMMA NoAttemptTyped ==
    /\ NoAttempt \in Attempt
    /\ NoAttempt.step = "none"
    /\ NoAttempt.number = 0
<1>1. [form |-> "missing", credential |-> CHOOSE k \in Credential : TRUE]
        \in Token
  BY DEF Token
<1>2. (CHOOSE t \in Token : t.form = "missing") \in Token
  BY <1>1
<1> QED
  BY <1>2 DEF NoAttempt, Attempt

LEMMA Administered ==
    ASSUME Typed, Administer
    PROVE  /\ auth' \in [Request -> Attempt]
           /\ authEvents' = authEvents /\ attempts' = attempts
           /\ \A r \in Request : Same(r)
<1>1. CASE \E c \in Collector : Enable(c)
  <2>1. auth' = [r \in Request |-> [auth[r] EXCEPT !.disabled = FALSE]]
    BY <1>1 DEF Enable
  <2>2. \A r \in Request : auth'[r] = [auth[r] EXCEPT !.disabled = FALSE]
    BY <2>1
  <2>3. ASSUME NEW r \in Request
        PROVE  auth'[r] \in Attempt /\ Same(r)
    <3>1. auth[r] \in Attempt /\ auth'[r] = [auth[r] EXCEPT !.disabled = FALSE]
      BY <2>2 DEF Typed
    <3>2. auth'[r] \in Attempt
      BY <3>1 DEF Attempt
    <3>3. Same(r)
      BY <3>1, SMTT(30) DEF Attempt, Same
    <3> QED
      BY <3>2, <3>3
  <2> QED
    BY <1>1, <2>1, <2>3 DEF Enable
<1>2. CASE UNCHANGED << auth, authEvents, attempts >>
  BY <1>2 DEF Same, Typed
<1> QED
  BY <1>1, <1>2 DEF Administer, Tick, CreateCollector, Disable, IssueCredential,
                    Revoke

\* An attempt begins: it is rejected at once, or reads the credential.
LEMMA Presented ==
    ASSUME Typed, NEW r \in Request, NEW token \in Token, Present(r, token)
    PROVE  /\ UNCHANGED accounts
           /\ attempts' = attempts + 1
           /\ attempts < MaxAttempts
           /\ \E step \in {"credential", "rejected", "failed"} :
              \E barred, disabled \in BOOLEAN :
                 /\ auth' = [auth EXCEPT ![r] =
                      [step |-> step, number |-> attempts + 1,
                       token |-> token, at |-> clock, row |-> << >>,
                       barred |-> barred, disabled |-> disabled]]
                 /\ barred => Barred(token.credential)
                 /\ disabled =>
                      /\ token.credential \in DOMAIN credentials
                      /\ status[credentials[token.credential].collector]
                            = "disabled"
                 /\ step = "credential" =>
                      /\ token.form \in {"genuine", "wrong_secret"}
                      /\ authEvents' = authEvents
                 /\ step # "credential" =>
                      \E reason \in Reason : authEvents' =
                         authEvents \cup {AuthEvent(attempts + 1, reason, {})}
<1> DEFINE barred == Barred(token.credential)
           disabled ==
              /\ token.credential \in DOMAIN credentials
              /\ status[credentials[token.credential].collector] = "disabled"
           attempt(step) ==
              [step |-> step, number |-> attempts + 1, token |-> token,
               at |-> clock, row |-> << >>, barred |-> barred,
               disabled |-> disabled]
<1>1. barred \in BOOLEAN /\ disabled \in BOOLEAN
  BY DEF Barred
<1>2. /\ UNCHANGED accounts
      /\ attempts' = attempts + 1
      /\ attempts < MaxAttempts
      /\ \/ /\ token.form \in DOMAIN Unreadable
            /\ \E step \in {"rejected", "failed"} :
                  auth' = [auth EXCEPT ![r] = attempt(step)]
            /\ authEvents' = authEvents \cup
                  {AuthEvent(attempts + 1, Unreadable[token.form], {})}
         \/ /\ token.form \notin DOMAIN Unreadable
            /\ auth' = [auth EXCEPT ![r] = attempt("credential")]
            /\ authEvents' = authEvents
  BY DEF Present, Ending, Record
<1>3. token.form \in {"wrong_secret", "genuine", "missing", "malformed"}
  BY DEF Token
<1>4. CASE token.form \in DOMAIN Unreadable
  <2>1. Unreadable[token.form] \in Reason
    BY <1>4 DEF Unreadable, Reason
  <2> PICK step \in {"rejected", "failed"} :
             auth' = [auth EXCEPT ![r] = attempt(step)]
    BY <1>2, <1>4
  <2>2. /\ barred => Barred(token.credential)
        /\ disabled =>
             /\ token.credential \in DOMAIN credentials
             /\ status[credentials[token.credential].collector] = "disabled"
    OBVIOUS
  <2> HIDE DEF barred, disabled
  <2>3. step # "credential"
    OBVIOUS
  <2> QED
    BY <1>1, <1>2, <1>4, <2>1, <2>2, <2>3
<1>5. CASE token.form \notin DOMAIN Unreadable
  <2>1. token.form \in {"genuine", "wrong_secret"}
    BY <1>3, <1>5 DEF Unreadable
  <2>2. /\ barred => Barred(token.credential)
        /\ disabled =>
             /\ token.credential \in DOMAIN credentials
             /\ status[credentials[token.credential].collector] = "disabled"
    OBVIOUS
  <2> HIDE DEF barred, disabled
  <2> QED
    BY <1>1, <1>2, <1>5, <2>1, <2>2
<1> QED
  BY <1>4, <1>5

\* An attempt under way goes on in one of five ways.
LEMMA Authenticating ==
    ASSUME Typed, NEW r \in Request, Honest(r), Authenticate(r)
    PROVE  /\ auth[r].step \in UnderWay
           /\ \/ \* the credential is there
                 /\ auth[r].step = "credential"
                 /\ Key(r) \in DOMAIN credentials
                 /\ auth'[r] = [auth[r] EXCEPT !.row = credentials[Key(r)],
                                               !.step = "collector"]
                 /\ auth' \in [Request -> Attempt]
                 /\ \A s \in Request \ {r} : auth'[s] = auth[s]
                 /\ UNCHANGED << accounts, attempts, authEvents >>
              \/ \* it is good
                 /\ auth[r].step = "collector"
                 /\ Advances(r, "accepting")
                 /\ ~auth[r].row.revoked
                 /\ auth[r].row.expires > auth[r].at
                 /\ status[auth[r].row.collector] = "enabled"
                 /\ UNCHANGED << credentials, authEvents >>
              \/ \* it is used
                 /\ auth[r].step = "accepting"
                 /\ \E step \in {"accepted", "failed"} : Advances(r, step)
                 /\ credentials' =
                      [credentials EXCEPT ![Key(r)] = [@ EXCEPT !.used = TRUE]]
                 /\ authEvents' = authEvents \cup
                      {AuthEvent(auth[r].number, "authenticated", {Key(r)})}
              \/ \* it is not
                 /\ \E step \in {"rejected", "failed"} : Advances(r, step)
                 /\ \E reason \in Reason : authEvents' = authEvents \cup
                      {AuthEvent(auth[r].number, reason, {Key(r)})}
                 /\ UNCHANGED credentials
              \/ \* nothing comes of it
                 /\ Advances(r, "failed")
                 /\ UNCHANGED << credentials, authEvents >>
<1> DEFINE GoesOn(step) == auth' = [auth EXCEPT ![r].step = step]
<1>a. auth \in [Request -> Attempt] /\ auth[r] \in Attempt
  BY DEF Typed
<1>1. ASSUME NEW step \in {"accepting", "accepted", "rejected", "failed"},
             GoesOn(step), UNCHANGED << clock, status, revocations, attempts >>
      PROVE  Advances(r, step)
  BY <1>1, <1>a DEF Advances, Attempt
<1>2. ASSUME NEW reason \in Reason, Reject(r, reason)
      PROVE  /\ \E step \in {"rejected", "failed"} : Advances(r, step)
             /\ \E why \in Reason : authEvents' = authEvents \cup
                   {AuthEvent(auth[r].number, why, {Key(r)})}
             /\ UNCHANGED credentials
  <2>1. /\ authEvents' = authEvents \cup
              {AuthEvent(auth[r].number, reason, {Key(r)})}
        /\ UNCHANGED << accounts, attempts >>
        /\ \E step \in {"rejected", "failed"} : GoesOn(step)
    BY <1>2 DEF Reject, Rejected, Record, Ending, Key
  <2> QED
    BY <1>1, <2>1 DEF accounts
<1>3. CASE ReadCredential(r)
  <2>1. auth[r].step = "credential"
    BY <1>3 DEF ReadCredential
  <2>2. CASE Key(r) \in DOMAIN credentials
    <3>1. /\ auth' = [auth EXCEPT ![r].row = credentials[Key(r)],
                                  ![r].step = "collector"]
          /\ UNCHANGED << accounts, attempts, authEvents >>
      BY <1>3, <2>2 DEF ReadCredential, Key
    <3>2. credentials[Key(r)] \in CredentialRow
      BY <2>2 DEF Typed, TypeOK, AccessTypeOK
    <3> QED
      BY <1>a, <2>1, <2>2, <3>1, <3>2 DEF Attempt, UnderWay
  <2>3. CASE Key(r) \notin DOMAIN credentials
    <3>1. Reject(r, "credential_not_found")
      BY <1>3, <2>3 DEF ReadCredential, Key
    <3> QED
      BY <1>2, <2>1, <3>1 DEF Reason, UnderWay
  <2> QED
    BY <2>2, <2>3
<1>4. CASE Decide(r)
  <2>1. auth[r].step = "collector" /\ auth[r].step \in UnderWay
    BY <1>4 DEF Decide, UnderWay
  <2>2. /\ auth[r].row \in CredentialRow
        /\ auth[r].row.revoked \in BOOLEAN
        /\ auth[r].row.expires \in Nat
        /\ auth[r].at \in Nat
        /\ auth[r].token.form \in {"genuine", "wrong_secret"}
    <3>1. auth[r].row \in CredentialRow
      BY <2>1 DEF Typed, TypeOK, AccessTypeOK
    <3>2. Never \in Nat
      BY AccessAssumption DEF Never
    <3> QED
      BY <1>a, <2>1, <3>1, <3>2 DEF Attempt, CredentialRow, Honest
  <2>3. CASE auth[r].token.form = "wrong_secret"
    <3>1. Reject(r, "credential_secret_mismatch")
      BY <1>4, <2>3 DEF Decide
    <3> QED
      BY <1>2, <2>1, <3>1 DEF Reason
  <2>4. CASE auth[r].token.form = "genuine" /\ auth[r].row.revoked
    <3>1. Reject(r, "credential_revoked")
      BY <1>4, <2>4 DEF Decide
    <3> QED
      BY <1>2, <2>1, <3>1 DEF Reason
  <2>5. CASE /\ auth[r].token.form = "genuine" /\ ~auth[r].row.revoked
             /\ auth[r].row.expires <= auth[r].at
    <3>1. Reject(r, "credential_expired")
      BY <1>4, <2>2, <2>5 DEF Decide
    <3> QED
      BY <1>2, <2>1, <3>1 DEF Reason
  <2>6. CASE /\ auth[r].token.form = "genuine" /\ ~auth[r].row.revoked
             /\ auth[r].row.expires > auth[r].at
             /\ status[auth[r].row.collector] # "enabled"
    <3>1. Reject(r, "collector_disabled")
      BY <1>4, <2>2, <2>6 DEF Decide
    <3> QED
      BY <1>2, <2>1, <3>1 DEF Reason
  <2>7. CASE /\ auth[r].token.form = "genuine" /\ ~auth[r].row.revoked
             /\ auth[r].row.expires > auth[r].at
             /\ status[auth[r].row.collector] = "enabled"
    <3>1. /\ GoesOn("accepting")
          /\ UNCHANGED << accounts, attempts, authEvents >>
      BY <1>4, <2>2, <2>7 DEF Decide
    <3> QED
      BY <1>1, <2>1, <2>7, <3>1 DEF accounts
  <2>8. auth[r].row.expires <= auth[r].at \/ auth[r].row.expires > auth[r].at
    BY <2>2
  <2> QED
    BY ONLY <2>2, <2>3, <2>4, <2>5, <2>6, <2>7, <2>8
<1>5. CASE Accept(r)
  <2>1. /\ auth[r].step = "accepting"
        /\ credentials' =
             [credentials EXCEPT ![Key(r)] = [@ EXCEPT !.used = TRUE]]
        /\ authEvents' = authEvents \cup
             {AuthEvent(auth[r].number, "authenticated", {Key(r)})}
        /\ \E step \in {"accepted", "failed"} : GoesOn(step)
        /\ UNCHANGED << clock, status, revocations, attempts >>
    BY <1>5 DEF Accept, Record, Stamped, Ending, Key
  <2> QED
    BY <1>1, <2>1 DEF UnderWay
<1>6. CASE Abandon(r)
  <2>1. /\ auth[r].step \in UnderWay
        /\ GoesOn("failed")
        /\ UNCHANGED << accounts, attempts, authEvents >>
    BY <1>6 DEF Abandon, UnderWay
  <2> QED
    BY <1>1, <2>1 DEF accounts
<1> QED
  BY <1>3, <1>4, <1>5, <1>6 DEF Authenticate

-----------------------------------------------------------------------------
(* What the steps of a request do.                                         *)

\* Nothing is put, and the request is answered.
Ends(r, reply) ==
    request'[r] = [request[r] EXCEPT !.stage = "done", !.reply = reply]

Others(r) ==
    \A s \in Request \ {r} : auth'[s] = auth[s] /\ request'[s] = request[s]

LEMMA AnswerSent ==
    ASSUME NEW q, NEW reply
    PROVE  \E sent \in {reply, "request_body_too_large"} :
              Answered(q, reply) = [q EXCEPT !.stage = "done", !.reply = sent]
  BY DEF Answered, Sent

LEMMA Refused ==
    ASSUME Typed, NEW r \in Request, NEW submission \in Submission,
           Refuse(r, submission)
    PROVE  /\ \E reply \in {"unsupported_media_type",
                            "request_body_too_large"} :
                 request'[r] = [batch |-> submission.batch,
                                body |-> submission.body,
                                single |-> submission.single, stage |-> "done",
                                results |-> << >>, reply |-> reply]
           /\ request' \in [Request -> Handling]
           /\ auth' \in [Request -> Attempt]
           /\ auth'[r] = NoAttempt
           /\ Others(r)
           /\ UNCHANGED << accounts, authEvents, attempts, log >>
<1> DEFINE answer(reply) ==
       [batch |-> submission.batch, body |-> submission.body,
        single |-> submission.single, stage |-> "done",
        results |-> << >>, reply |-> reply]
<1>1. PICK reply \in {"unsupported_media_type", "request_body_too_large"} :
         request' = [request EXCEPT ![r] = answer(reply)]
  <2>1. Refusal[submission.body]
           \in {"unsupported_media_type", "request_body_too_large"}
    BY DEF Refuse, Refusal
  <2>2. request' = [request EXCEPT ![r] = answer(Refusal[submission.body])]
    BY DEF Refuse, Received
  <2> QED
    BY <2>1, <2>2
<1>2. answer(reply) \in Handling
  BY SubmissionAssumption DEF Handling, Reply, RouteReply
<1>3. auth' = [auth EXCEPT ![r] = NoAttempt]
  BY DEF Refuse
<1>4. UNCHANGED << accounts, authEvents, attempts, log >>
  BY DEF Refuse
<1> QED
  BY <1>1, <1>2, <1>3, <1>4, NoAttemptTyped DEF Typed, Others

\* The reply to an attempt that ended, and none before that.
LEMMA AuthenticatedReply ==
    ASSUME NEW r \in Request, NEW q
    PROVE  /\ auth'[r].step = "rejected" =>
                \E sent \in {"unauthorized", "request_body_too_large"} :
                   Authenticated(r, q) =
                      [q EXCEPT !.stage = "done", !.reply = sent]
           /\ auth'[r].step = "failed" =>
                \E sent \in {"internal_error", "request_body_too_large"} :
                   Authenticated(r, q) =
                      [q EXCEPT !.stage = "done", !.reply = sent]
           /\ auth'[r].step \notin {"rejected", "failed"} =>
                Authenticated(r, q) = q
  BY AnswerSent DEF Authenticated

LEMMA Submitted ==
    ASSUME Typed, NEW r \in Request, NEW submission \in Submission,
           NEW token \in Token, Submit(r, submission, token)
    PROVE  /\ \E stage \in {"authenticating", "done"},
                 reply \in {"none", "unauthorized", "internal_error",
                            "request_body_too_large"} :
                 /\ request'[r] = [batch |-> submission.batch,
                                   body |-> submission.body,
                                   single |-> submission.single,
                                   stage |-> stage, results |-> << >>,
                                   reply |-> reply]
                 /\ auth'[r].step = "credential" =>
                       stage = "authenticating" /\ reply = "none"
                 /\ auth'[r].step # "credential" => stage = "done"
                 /\ reply = "unauthorized" => auth'[r].step = "rejected"
           /\ submission.batch # << >>
           /\ request' \in [Request -> Handling]
           /\ auth' \in [Request -> Attempt]
           /\ Others(r)
           /\ Present(r, token)
           /\ log' = log
<1> DEFINE q == [batch |-> submission.batch, body |-> submission.body,
                 single |-> submission.single, stage |-> "authenticating",
                 results |-> << >>, reply |-> "none"]
<1>1. /\ request' = [request EXCEPT ![r] = Authenticated(r, q)]
      /\ Present(r, token)
      /\ log' = log
  BY DEF Submit, Received
<1>2. q \in Handling /\ submission.batch # << >>
  BY SubmissionAssumption DEF Handling, Reply, RouteReply
<1>3. PICK step \in {"credential", "rejected", "failed"},
           barred \in BOOLEAN, disabled \in BOOLEAN :
         auth' = [auth EXCEPT ![r] =
            [step |-> step, number |-> attempts + 1, token |-> token,
             at |-> clock, row |-> << >>,
             barred |-> barred, disabled |-> disabled]]
  BY <1>1, Presented
<1>4. /\ auth' \in [Request -> Attempt]
      /\ auth'[r].step = step
      /\ \A s \in Request \ {r} : auth'[s] = auth[s]
  BY <1>3 DEF Typed, TypeOK, AccessTypeOK, Attempt, Time
<1> HIDE DEF q
<1>5. /\ request'[r] = Authenticated(r, q)
      /\ \A s \in Request \ {r} : request'[s] = request[s]
      /\ DOMAIN request' = Request
      /\ request' = [s \in Request |-> request'[s]]
  BY <1>1 DEF Typed
<1>6. \E stage \in {"authenticating", "done"},
         reply \in {"none", "unauthorized", "internal_error",
                    "request_body_too_large"} :
         /\ request'[r] = [q EXCEPT !.stage = stage, !.reply = reply]
         /\ auth'[r].step = "credential" =>
               stage = "authenticating" /\ reply = "none"
         /\ auth'[r].step # "credential" => stage = "done"
         /\ reply = "unauthorized" => auth'[r].step = "rejected"
  <2>1. CASE step = "credential"
    <3>1. request'[r] = q
      <4>1. auth'[r].step \notin {"rejected", "failed"}
        BY <1>4, <2>1
      <4>2. Authenticated(r, q) = q
        BY <4>1, AuthenticatedReply
      <4> QED
        BY <1>5, <4>2
    <3>2. q.stage = "authenticating" /\ q.reply = "none"
      BY DEF q
    <3>3. q = [q EXCEPT !.stage = "authenticating", !.reply = "none"]
      BY <1>2, <3>2 DEF Handling
    <3> QED
      BY <1>4, <2>1, <3>1, <3>3
  <2>2. CASE step = "rejected"
    <3> PICK sent \in {"unauthorized", "request_body_too_large"} :
             Authenticated(r, q) = [q EXCEPT !.stage = "done", !.reply = sent]
      BY <1>4, <2>2, AuthenticatedReply
    <3>1. request'[r] = [q EXCEPT !.stage = "done", !.reply = sent]
      BY <1>5
    <3> QED
      BY <1>4, <2>2, <3>1
  <2>3. CASE step = "failed"
    <3> PICK sent \in {"internal_error", "request_body_too_large"} :
             Authenticated(r, q) = [q EXCEPT !.stage = "done", !.reply = sent]
      BY <1>4, <2>3, AuthenticatedReply
    <3>1. request'[r] = [q EXCEPT !.stage = "done", !.reply = sent]
      BY <1>5
    <3> QED
      BY <1>4, <2>3, <3>1
  <2> QED
    BY <2>1, <2>2, <2>3
<1>7. request'[r] \in Handling
  BY <1>2, <1>6 DEF Handling, Reply, RouteReply
<1>8. request' \in [Request -> Handling]
  BY <1>5, <1>7 DEF Typed
<1> QED
  BY <1>1, <1>2, <1>4, <1>5, <1>6, <1>8 DEF Others, q

\* Faults are found in the batch and the collector of the principal.
LEMMA SameFaults ==
    ASSUME NEW r \in Request, auth'[r].row = auth[r].row,
           request'[r].batch = request[r].batch
    PROVE  Faults(r)' = Faults(r)
  BY DEF Faults, InScope

LEMMA PrevalidationReply ==
    ASSUME NEW r \in Request
    PROVE  \/ /\ Faults(r) = {}
              /\ Prevalidated(r) = [request[r] EXCEPT !.stage = "putting"]
           \/ \E reply \in {"batch_size_exceeded", "scope_mismatch",
                            "ontology_validation_failed",
                            "request_body_too_large"} :
                 Prevalidated(r) =
                    [request[r] EXCEPT !.stage = "done", !.reply = reply]
<1>1. \A reply : \E sent \in {reply, "request_body_too_large"} :
         Answered(request[r], reply) =
            [request[r] EXCEPT !.stage = "done", !.reply = sent]
  BY AnswerSent
<1> QED
  BY <1>1 DEF Prevalidated

LEMMA AuthenticationRun ==
    ASSUME Typed, NEW r \in Request, Honest(r), RunAuthentication(r)
    PROVE  /\ request[r].stage = "authenticating"
           /\ Authenticate(r)
           /\ log' = log
           /\ request' \in [Request -> Handling]
           /\ auth' \in [Request -> Attempt]
           /\ Others(r)
           /\ \/ /\ auth'[r].step \in UnderWay
                 /\ request'[r] = request[r]
              \/ /\ auth'[r].step = "rejected"
                 /\ \E reply \in {"unauthorized", "request_body_too_large"} :
                       Ends(r, reply)
              \/ /\ auth'[r].step = "failed"
                 /\ \E reply \in {"internal_error",
                                  "request_body_too_large"} : Ends(r, reply)
              \/ /\ auth'[r].step = "accepted"
                 /\ auth'[r].row = auth[r].row
                 /\ \/ /\ Faults(r) = {}
                       /\ request'[r] =
                             [request[r] EXCEPT !.stage = "putting"]
                    \/ \E reply \in {"batch_size_exceeded", "scope_mismatch",
                            "ontology_validation_failed",
                            "request_body_too_large"} : Ends(r, reply)
<1>1. /\ request[r].stage = "authenticating"
      /\ Authenticate(r)
      /\ log' = log
      /\ request' = [request EXCEPT ![r] =
            IF auth'[r].step = "accepted" THEN Prevalidated(r)
            ELSE Authenticated(r, request[r])]
  BY DEF RunAuthentication
<1>2. /\ auth' \in [Request -> Attempt]
      /\ \A s \in Request \ {r} : auth'[s] = auth[s]
      /\ auth'[r].step \in UnderWay \cup {"rejected", "failed", "accepted"}
      /\ auth'[r].step = "accepted" => auth'[r].row = auth[r].row
  <2>1. auth[r] \in Attempt
    BY DEF Typed
  <2>2. ASSUME NEW step \in {"accepting", "accepted", "rejected", "failed"},
               Advances(r, step)
        PROVE  /\ auth' \in [Request -> Attempt]
               /\ \A s \in Request \ {r} : auth'[s] = auth[s]
               /\ auth'[r].step = step
               /\ auth'[r].row = auth[r].row
    BY <2>1, <2>2 DEF Advances, Attempt
  <2>3. \/ /\ auth'[r] = [auth[r] EXCEPT !.row = credentials[Key(r)],
                                          !.step = "collector"]
           /\ auth' \in [Request -> Attempt]
           /\ \A s \in Request \ {r} : auth'[s] = auth[s]
        \/ \E step \in {"accepting", "accepted", "rejected", "failed"} :
              Advances(r, step)
    BY <1>1, Authenticating
  <2> QED
    BY <2>1, <2>2, <2>3 DEF Attempt, UnderWay
<1>3. /\ request'[r] = IF auth'[r].step = "accepted" THEN Prevalidated(r)
                       ELSE Authenticated(r, request[r])
      /\ \A s \in Request \ {r} : request'[s] = request[s]
      /\ request' = [s \in Request |-> request'[s]]
  BY <1>1 DEF Typed
<1>4. \/ /\ auth'[r].step \in UnderWay
         /\ request'[r] = request[r]
      \/ /\ auth'[r].step = "rejected"
         /\ \E reply \in {"unauthorized", "request_body_too_large"} :
               Ends(r, reply)
      \/ /\ auth'[r].step = "failed"
         /\ \E reply \in {"internal_error", "request_body_too_large"} :
               Ends(r, reply)
      \/ /\ auth'[r].step = "accepted"
         /\ \/ /\ Faults(r) = {}
               /\ request'[r] = [request[r] EXCEPT !.stage = "putting"]
            \/ \E reply \in {"batch_size_exceeded", "scope_mismatch",
                    "ontology_validation_failed",
                    "request_body_too_large"} : Ends(r, reply)
  <2> DEFINE q == request[r]
  <2>1. CASE auth'[r].step \in UnderWay
    BY <1>3, <2>1, AuthenticatedReply DEF UnderWay
  <2>2. CASE auth'[r].step = "rejected"
    <3> PICK sent \in {"unauthorized", "request_body_too_large"} :
             Authenticated(r, q) = [q EXCEPT !.stage = "done", !.reply = sent]
      BY <2>2, AuthenticatedReply
    <3> QED
      BY <1>3, <2>2 DEF Ends
  <2>3. CASE auth'[r].step = "failed"
    <3> PICK sent \in {"internal_error", "request_body_too_large"} :
             Authenticated(r, q) = [q EXCEPT !.stage = "done", !.reply = sent]
      BY <2>3, AuthenticatedReply
    <3> QED
      BY <1>3, <2>3 DEF Ends
  <2>4. CASE auth'[r].step = "accepted"
    BY <1>3, <2>4, PrevalidationReply DEF Ends
  <2> QED
    BY <1>2, <2>1, <2>2, <2>3, <2>4
<1>5. request'[r] \in Handling
  BY <1>4 DEF Ends, Typed, Handling, Reply, RouteReply
<1>6. request' \in [Request -> Handling]
  BY <1>3, <1>5 DEF Typed
<1> QED
  BY <1>1, <1>2, <1>3, <1>4, <1>6 DEF Others

LEMMA RangeAppend ==
    ASSUME NEW s \in Seq(Payload), NEW o \in Payload
    PROVE  Range(Append(s, o)) = Range(s) \cup {o}
<1>1. /\ DOMAIN Append(s, o) = DOMAIN s \cup {Len(s) + 1}
      /\ Append(s, o)[Len(s) + 1] = o
      /\ \A i \in DOMAIN s : Append(s, o)[i] = s[i]
  OBVIOUS
<1> QED
  BY <1>1 DEF Range

\* A put takes the next item.
LEMMA ItemPut ==
    ASSUME Typed, NEW r \in Request, Handled(r), PutItem(r)
    PROVE  /\ request[r].stage = "putting"
           /\ Item(r) \in Payload
           /\ Item(r) = request[r].batch[Len(request[r].results) + 1]
           /\ request' \in [Request -> Handling]
           /\ UNCHANGED access
           /\ \A s \in Request \ {r} : request'[s] = request[s]
           /\ request'[r].batch = request[r].batch
           /\ request'[r].results =
                 Append(request[r].results, Disposition(Item(r)))
           /\ \/ /\ request'[r].stage = "putting"
                 /\ request'[r].reply = request[r].reply
                 /\ Len(request'[r].results) < Len(request[r].batch)
              \/ /\ request'[r].stage = "done"
                 /\ request'[r].reply \in {"ingested", "immutable_conflict",
                                           "request_body_too_large"}
                 /\ Len(request'[r].results) = Len(request[r].batch)
           /\ \/ Disposition(Item(r)) # "created" /\ log' = log
              \/ /\ Disposition(Item(r)) = "created"
                 /\ log' = Append(log, Item(r))
<1> DEFINE results == Append(request[r].results, Disposition(Item(r)))
<1>1. /\ request[r].stage = "putting"
      /\ UNCHANGED access
      /\ request' =
             IF Len(results) < Len(request[r].batch)
             THEN [request EXCEPT ![r].results = results]
             ELSE [request EXCEPT ![r] =
                     Answered([request[r] EXCEPT !.results = results],
                              Ingested(request[r].single, results))]
  BY DEF PutItem
<1>2. Disposition(Item(r)) \in {"created", "existing", "conflict"}
  BY DEF Disposition
<1>3. /\ request[r] \in Handling
      /\ request[r].results \in Seq({"created", "existing", "conflict"})
      /\ request[r].batch \in Seq(Payload)
      /\ Len(request[r].results) < Len(request[r].batch)
  BY <1>1 DEF Typed, Handling, Handled
<1>4. /\ results \in Seq({"created", "existing", "conflict"})
      /\ Len(results) = Len(request[r].results) + 1
      /\ Item(r) \in Payload
      /\ Len(request[r].results) \in Nat /\ Len(request[r].batch) \in Nat
  BY <1>2, <1>3 DEF Item
<1>5. \/ Disposition(Item(r)) # "created" /\ log' = log
      \/ /\ Disposition(Item(r)) = "created"
         /\ log' = Append(log, Item(r))
  BY <1>2 DEF PutItem, Store!AppendObservation, AfterConflict
<1> HIDE DEF results
<1>6. CASE Len(results) < Len(request[r].batch)
  <2>1. request' = [request EXCEPT ![r].results = results]
    BY <1>1, <1>6
  <2>2. request'[r] = [request[r] EXCEPT !.results = results]
    BY <2>1 DEF Typed
  <2>3. request'[r] \in Handling
    BY <1>3, <1>4, <2>2 DEF Handling, Reply, RouteReply
  <2>4. /\ request' \in [Request -> Handling]
        /\ \A s \in Request \ {r} : request'[s] = request[s]
    BY <2>1, <2>2, <2>3 DEF Typed
  <2>5. /\ request'[r].batch = request[r].batch
        /\ request'[r].results = results
        /\ request'[r].stage = "putting"
        /\ request'[r].reply = request[r].reply
    BY <1>1, <1>3, <2>2 DEF Handling, Reply, RouteReply
  <2> QED
    BY <1>1, <1>4, <1>5, <1>6, <2>4, <2>5 DEF results, Item
<1>7. CASE ~(Len(results) < Len(request[r].batch))
  <2> DEFINE q == [request[r] EXCEPT !.results = results]
  <2>1. Ingested(request[r].single, results)
           \in {"ingested", "immutable_conflict"}
    BY DEF Ingested
  <2>2. PICK sent \in {"ingested", "immutable_conflict",
                       "request_body_too_large"} :
           Answered(q, Ingested(request[r].single, results)) =
              [q EXCEPT !.stage = "done", !.reply = sent]
    BY <2>1, AnswerSent
  <2>3. request' = [request EXCEPT ![r] =
                      [q EXCEPT !.stage = "done", !.reply = sent]]
    BY <1>1, <1>7, <2>2
  <2>4. /\ request'[r] = [q EXCEPT !.stage = "done", !.reply = sent]
        /\ \A s \in Request \ {r} : request'[s] = request[s]
    BY <2>3 DEF Typed
  <2>5. /\ request'[r] \in Handling
        /\ request'[r].batch = request[r].batch
        /\ request'[r].results = results
        /\ request'[r].stage = "done"
        /\ request'[r].reply = sent
    BY <1>3, <1>4, <2>4 DEF Handling, Reply, RouteReply
  <2>6. request' \in [Request -> Handling]
    BY <2>3, <2>4, <2>5 DEF Typed
  <2>7. Len(results) = Len(request[r].batch)
    BY <1>3, <1>4, <1>7
  <2> QED
    BY <1>1, <1>4, <1>5, <2>4, <2>5, <2>6, <2>7 DEF results, Item
<1> QED
  BY <1>6, <1>7

LEMMA PutFailed ==
    ASSUME Typed, NEW r \in Request, Handled(r), PutFails(r)
    PROVE  /\ request[r].stage = "putting"
           /\ Item(r) \in Payload
           /\ request' \in [Request -> Handling]
           /\ UNCHANGED access
           /\ \A s \in Request \ {r} : request'[s] = request[s]
           /\ \E reply \in {"store_unavailable", "request_body_too_large"} :
                 Ends(r, reply)
           /\ \/ log' = log
              \/ /\ Disposition(Item(r)) = "created"
                 /\ log' = Append(log, Item(r))
<1>1. /\ request[r].stage = "putting"
      /\ UNCHANGED access
      /\ request' = [request EXCEPT ![r] =
                       Answered(request[r], "store_unavailable")]
      /\ \/ log' = log
         \/ /\ Disposition(Item(r)) = "created"
            /\ log' = Append(log, Item(r))
  BY DEF PutFails, Store!AppendObservation
<1>2. /\ request[r] \in Handling
      /\ request[r].results \in Seq({"created", "existing", "conflict"})
      /\ request[r].batch \in Seq(Payload)
      /\ Len(request[r].results) < Len(request[r].batch)
  BY <1>1 DEF Typed, Handling, Handled
<1>3. Item(r) \in Payload
  BY <1>2 DEF Item
<1>4. PICK reply \in {"store_unavailable", "request_body_too_large"} :
         request' = [request EXCEPT ![r] =
            [request[r] EXCEPT !.stage = "done", !.reply = reply]]
  BY <1>1, AnswerSent
<1>5. Ends(r, reply)
  BY <1>4 DEF Typed, Ends
<1>6. /\ request' \in [Request -> Handling]
      /\ \A s \in Request \ {r} : request'[s] = request[s]
  BY <1>2, <1>4 DEF Typed, Handling, Reply, RouteReply
<1> QED
  BY <1>1, <1>3, <1>5, <1>6

-----------------------------------------------------------------------------
(* Types.                                                                  *)

AccountsOK ==
    /\ clock \in Time
    /\ status \in [Collector -> {"absent", "enabled", "disabled"}]
    /\ DOMAIN credentials \subseteq Credential
    /\ \A k \in DOMAIN credentials : credentials[k] \in CredentialRow
    /\ revocations \subseteq DOMAIN credentials

AttemptsOK ==
    /\ attempts \in 0..MaxAttempts
    /\ auth \in [Request -> Attempt]
    /\ \A r \in Request :
          /\ auth[r].number \in 0..attempts
          /\ auth[r].step \in {"collector", "accepting", "accepted"}
                => auth[r].row \in CredentialRow

LEMMA TypedParts ==
    ASSUME AccountsOK, AttemptsOK, request \in [Request -> Handling],
           log \in Seq(Payload)
    PROVE  Typed
<1>1. AccessTypeOK
  BY DEF AccessTypeOK, AccountsOK, AttemptsOK, Attempt
<1> QED
  BY <1>1 DEF Typed, TypeOK, AttemptsOK, Handling

LEMMA PartsTyped ==
    ASSUME Typed
    PROVE  AccountsOK /\ AttemptsOK /\ request \in [Request -> Handling]
              /\ log \in Seq(Payload)
  BY DEF Typed, TypeOK, AccessTypeOK, AccountsOK, AttemptsOK

LEMMA InitTyped == Init => Typed
<1> SUFFICES ASSUME Init PROVE Typed
  OBVIOUS
<1>1. AccountsOK
  <2>1. DOMAIN << >> = {}
    OBVIOUS
  <2> QED
    <3>1. clock \in Time
      BY AccessAssumption DEF Init, AccessInit, Time
    <3>2. DOMAIN credentials = {} /\ revocations = {}
      BY <2>1 DEF Init, AccessInit
    <3>3. status \in [Collector -> {"absent", "enabled", "disabled"}]
      BY DEF Init, AccessInit
    <3> QED
      BY <3>1, <3>2, <3>3 DEF AccountsOK
<1>2. AttemptsOK
  BY AccessAssumption, NoAttemptTyped
     DEF Init, AccessInit, AttemptsOK
<1>3. request \in [Request -> Handling] /\ log \in Seq(Payload)
  BY DEF Init, Store!Init, NoRequest, Handling, Body, Reply
<1> QED
  BY <1>1, <1>2, <1>3, TypedParts

LEMMA Steps ==
    ASSUME [Next]_vars
    PROVE  \/ Administer /\ UNCHANGED << log, request >>
           \/ \E r \in Request, submission \in Submission :
                 Refuse(r, submission)
           \/ \E r \in Request, submission \in Submission, token \in Token :
                 Submit(r, submission, token)
           \/ \E r \in Request : RunAuthentication(r)
           \/ \E r \in Request : PutItem(r)
           \/ \E r \in Request : PutFails(r)
           \/ UNCHANGED << clock, status, credentials, revocations,
                           authEvents, attempts, auth, log, request >>
  BY DEF Next, Serve, vars, access, accounts

LEMMA AdministeredAccounts ==
    ASSUME Typed, Administer
    PROVE  AccountsOK'
<1>1. AccountsOK
  BY PartsTyped
<1>2. CASE Tick
  BY <1>1, <1>2, AccessAssumption DEF Tick, AccountsOK, Time
<1>3. ASSUME NEW c \in Collector, CreateCollector(c)
      PROVE  AccountsOK'
  BY <1>1, <1>3 DEF CreateCollector, AccountsOK
<1>4. ASSUME NEW c \in Collector, Disable(c)
      PROVE  AccountsOK'
  BY <1>1, <1>4 DEF Disable, AccountsOK
<1>5. ASSUME NEW c \in Collector, Enable(c)
      PROVE  AccountsOK'
  BY <1>1, <1>5 DEF Enable, AccountsOK
<1>6. ASSUME NEW c \in Collector, NEW k \in Credential, NEW e \in 1..Never,
             IssueCredential(k, c, e)
      PROVE  AccountsOK'
  <2>1. [collector |-> c, expires |-> e, revoked |-> FALSE, used |-> FALSE]
           \in CredentialRow
    BY DEF CredentialRow
  <2> QED
    BY <1>1, <1>6, <2>1 DEF IssueCredential, AccountsOK
<1>7. ASSUME NEW k \in Credential, Revoke(k)
      PROVE  AccountsOK'
  <2>1. credentials[k] \in CredentialRow
    BY <1>1, <1>7 DEF Revoke, AccountsOK
  <2>2. [credentials[k] EXCEPT !.revoked = TRUE] \in CredentialRow
    BY <2>1 DEF CredentialRow
  <2>3. credentials' = [credentials EXCEPT
                          ![k] = [credentials[k] EXCEPT !.revoked = TRUE]]
    BY <1>7 DEF Revoke
  <2> QED
    BY <1>1, <1>7, <2>2, <2>3 DEF Revoke, AccountsOK
<1> QED
  BY <1>2, <1>3, <1>4, <1>5, <1>6, <1>7 DEF Administer

LEMMA AuthenticatingTyped ==
    ASSUME Typed, NEW r \in Request, Honest(r), Authenticate(r)
    PROVE  AccountsOK' /\ AttemptsOK'
<1>1. AccountsOK /\ AttemptsOK /\ auth[r] \in Attempt
  BY PartsTyped DEF AttemptsOK
<1>2. ASSUME UNCHANGED << clock, status, credentials, revocations >>
      PROVE  AccountsOK'
  BY <1>1, <1>2 DEF AccountsOK
<1>3. ASSUME credentials' =
               [credentials EXCEPT ![Key(r)] = [@ EXCEPT !.used = TRUE]],
             UNCHANGED << clock, status, revocations >>
      PROVE  AccountsOK'
  <2>1. \A k \in DOMAIN credentials :
          [credentials[k] EXCEPT !.used = TRUE] \in CredentialRow
    BY <1>1 DEF AccountsOK, CredentialRow
  <2> QED
    BY <1>1, <1>3, <2>1 DEF AccountsOK
<1>4. ASSUME NEW step \in {"accepting", "accepted", "rejected", "failed"},
             Advances(r, step),
             step \in {"accepting", "accepted"} =>
                auth[r].step \in {"collector", "accepting"}
      PROVE  AttemptsOK'
  <2>1. /\ auth'[r].number = auth[r].number
        /\ auth'[r].row = auth[r].row
        /\ auth'[r].step = step
    BY <1>1, <1>4 DEF Advances, Attempt
  <2> QED
    BY <1>1, <1>4, <2>1 DEF Advances, AttemptsOK
<1>5. ASSUME auth[r].step = "credential", Key(r) \in DOMAIN credentials,
             auth'[r] = [auth[r] EXCEPT !.row = credentials[Key(r)],
                                        !.step = "collector"],
             auth' \in [Request -> Attempt], UNCHANGED attempts,
             \A s \in Request \ {r} : auth'[s] = auth[s]
      PROVE  AttemptsOK'
  <2>1. /\ auth'[r].number = auth[r].number
        /\ auth'[r].row \in CredentialRow
    BY <1>1, <1>5 DEF Attempt, AccountsOK
  <2> QED
    BY <1>1, <1>5, <2>1 DEF AttemptsOK
<1>6. AccountsOK'
  BY <1>2, <1>3, Authenticating DEF Advances, accounts
<1>7. AttemptsOK'
  BY <1>4, <1>5, Authenticating
<1> QED
  BY <1>6, <1>7

LEMMA TypedStep ==
    ASSUME Typed, [Next]_vars, \A r \in Request : Honest(r) /\ Handled(r)
    PROVE  Typed'
<1>1. AccountsOK /\ AttemptsOK /\ request \in [Request -> Handling]
         /\ log \in Seq(Payload)
  BY PartsTyped
<1>2. ASSUME AccountsOK', AttemptsOK', request' \in [Request -> Handling],
             log' \in Seq(Payload)
      PROVE  Typed'
  <2>1. AccessTypeOK'
    BY <1>2 DEF AccessTypeOK, AccountsOK, AttemptsOK, Attempt
  <2> QED
    BY <1>2, <2>1 DEF Typed, TypeOK, AttemptsOK, Handling
<1>3. CASE Administer /\ UNCHANGED << log, request >>
  <2>1. AccountsOK'
    BY <1>3, AdministeredAccounts
  <2>2. AttemptsOK'
    BY <1>1, <1>3, Administered DEF AttemptsOK, Same
  <2> QED
    BY <1>1, <1>2, <1>3, <2>1, <2>2
<1>4. ASSUME NEW r \in Request, NEW submission \in Submission,
             Refuse(r, submission)
      PROVE  Typed'
  <2>1. AccountsOK'
    <3>1. UNCHANGED << clock, status, credentials, revocations >>
      BY <1>1, <1>4, Refused DEF accounts
    <3> QED
      BY <1>1, <3>1 DEF AccountsOK
  <2>2. AttemptsOK'
    <3>1. /\ auth' \in [Request -> Attempt]
          /\ auth'[r] = NoAttempt
          /\ \A s \in Request \ {r} : auth'[s] = auth[s]
          /\ attempts' = attempts
      BY <1>4, Refused DEF Others
    <3> QED
      BY <1>1, <3>1, NoAttemptTyped DEF AttemptsOK
  <2> QED
    BY <1>1, <1>2, <1>4, <2>1, <2>2, Refused
<1>5. ASSUME NEW r \in Request, NEW submission \in Submission,
             NEW token \in Token, Submit(r, submission, token)
      PROVE  Typed'
  <2>1. Present(r, token) /\ auth' \in [Request -> Attempt] /\ Others(r)
    BY <1>5, Submitted
  <2>2. AccountsOK'
    BY <1>1, <2>1, Presented DEF AccountsOK, accounts
  <2>3. /\ auth'[r].number = attempts + 1
        /\ auth'[r].step \in {"credential", "rejected", "failed"}
        /\ attempts' = attempts + 1 /\ attempts < MaxAttempts
    BY <1>1, <2>1, Presented DEF AttemptsOK
  <2>4. AttemptsOK'
    BY <1>1, <2>1, <2>3, AccessAssumption DEF AttemptsOK, Others
  <2> QED
    BY <1>1, <1>2, <1>5, <2>2, <2>4, Submitted
<1>6. ASSUME NEW r \in Request, RunAuthentication(r)
      PROVE  Typed'
  BY <1>1, <1>2, <1>6, AuthenticationRun, AuthenticatingTyped
<1>7. ASSUME NEW r \in Request, PutItem(r) \/ PutFails(r)
      PROVE  Typed'
  <2>1. /\ request' \in [Request -> Handling]
        /\ log' \in Seq(Payload)
        /\ UNCHANGED access
    <3>1. /\ request' \in [Request -> Handling]
          /\ UNCHANGED access
          /\ Item(r) \in Payload
          /\ log' = log \/ log' = Append(log, Item(r))
      BY <1>7, ItemPut, PutFailed
    <3> QED
      BY <1>1, <3>1
  <2> QED
    BY <1>1, <1>2, <2>1 DEF access, accounts, AccountsOK, AttemptsOK
<1>8. CASE UNCHANGED << clock, status, credentials, revocations, authEvents,
                        attempts, auth, log, request >>
  BY <1>1, <1>2, <1>8 DEF AccountsOK, AttemptsOK
<1> QED
  BY <1>3, <1>4, <1>5, <1>6, <1>7, <1>8, Steps

-----------------------------------------------------------------------------
(* Revocation.                                                             *)

LEMMA InitHonest == Init => RevocationsShow /\ \A r \in Request : Honest(r)
  BY NoAttemptTyped DEF Init, AccessInit, RevocationsShow, Honest, UnderWay

LEMMA RevocationsStep ==
    ASSUME Typed, [Next]_vars, RevocationsShow,
           \A r \in Request : Honest(r) /\ Handled(r)
    PROVE  RevocationsShow'
<1>1. AccountsOK
  BY PartsTyped
<1>2. CASE UNCHANGED << credentials, revocations >>
  BY <1>2 DEF RevocationsShow
<1>3. ASSUME NEW c \in Collector, NEW k \in Credential, NEW e \in 1..Never,
             IssueCredential(k, c, e)
      PROVE  RevocationsShow'
  BY <1>1, <1>3 DEF IssueCredential, RevocationsShow, AccountsOK
<1>4. ASSUME NEW k \in Credential, Revoke(k)
      PROVE  RevocationsShow'
  <2>1. credentials[k] \in CredentialRow
    BY <1>1, <1>4 DEF Revoke, AccountsOK
  <2>2. credentials' = [credentials EXCEPT
                          ![k] = [credentials[k] EXCEPT !.revoked = TRUE]]
    BY <1>4 DEF Revoke
  <2>3. [credentials[k] EXCEPT !.revoked = TRUE].revoked
    BY <2>1 DEF CredentialRow
  <2> QED
    BY <1>1, <1>4, <2>2, <2>3 DEF Revoke, RevocationsShow, AccountsOK
<1>5. ASSUME NEW r \in Request, RunAuthentication(r)
      PROVE  RevocationsShow'
  <2>1. Authenticate(r)
    BY <1>5, AuthenticationRun
  <2>2. \/ UNCHANGED << credentials, revocations >>
        \/ /\ credentials' =
                [credentials EXCEPT ![Key(r)] = [@ EXCEPT !.used = TRUE]]
           /\ revocations' = revocations
    BY <2>1, Authenticating DEF Advances, accounts
  <2>3. ASSUME credentials' =
                  [credentials EXCEPT ![Key(r)] = [@ EXCEPT !.used = TRUE]],
               revocations' = revocations
        PROVE  RevocationsShow'
    <3>1. \A k \in DOMAIN credentials :
            [credentials[k] EXCEPT !.used = TRUE].revoked
               = credentials[k].revoked
      BY <1>1 DEF AccountsOK, CredentialRow
    <3> QED
      BY <1>1, <2>3, <3>1 DEF AccountsOK, RevocationsShow
  <2> QED
    BY <1>2, <2>2, <2>3
<1>6. CASE Administer
  BY <1>2, <1>3, <1>4, <1>6
     DEF Administer, Tick, CreateCollector, Disable, Enable
<1>7. ASSUME NEW r \in Request, NEW submission \in Submission,
             Refuse(r, submission)
      PROVE  RevocationsShow'
  BY <1>2, <1>7, Refused DEF accounts
<1>8. ASSUME NEW r \in Request, NEW submission \in Submission,
             NEW token \in Token, Submit(r, submission, token)
      PROVE  RevocationsShow'
  <2>1. UNCHANGED accounts
    BY <1>8, Submitted, Presented
  <2> QED
    BY <1>2, <2>1 DEF accounts
<1>9. ASSUME NEW r \in Request, PutItem(r) \/ PutFails(r)
      PROVE  RevocationsShow'
  BY <1>2, <1>9, ItemPut, PutFailed DEF access, accounts
<1> QED
  BY <1>2, <1>5, <1>6, <1>7, <1>8, <1>9, Steps

\* What others do to the accounts takes nothing from what r has found.
LEMMA HonestKept ==
    ASSUME Typed, NEW r \in Request, Honest(r), Same(r),
           \A k \in DOMAIN credentials :
              /\ k \in DOMAIN credentials'
              /\ credentials'[k].collector = credentials[k].collector
              /\ credentials'[k].expires = credentials[k].expires
              /\ credentials[k].revoked => credentials'[k].revoked,
           \A c \in Collector :
              status[c] = "disabled" /\ auth'[r].disabled
                 => status'[c] = "disabled"
    PROVE  Honest(r)'
<1>1. /\ AccountsOK
      /\ auth[r].step \in {"collector", "accepting", "accepted"}
            => auth[r].row \in CredentialRow
  BY PartsTyped DEF AttemptsOK
<1>2. Key(r)' = Key(r)
  BY DEF Same, Key
<1>3. \A k \in DOMAIN credentials : credentials[k].collector \in Collector
  BY <1>1 DEF AccountsOK, CredentialRow
<1>4. auth[r].step = "collector" => auth[r].row.collector \in Collector
  BY <1>1 DEF CredentialRow
<1> QED
  BY <1>2, <1>3, <1>4 DEF Honest, Same, UnderWay

LEMMA HonestAdministered ==
    ASSUME Typed, Administer, NEW r \in Request, Honest(r)
    PROVE  Honest(r)'
<1>1. Same(r) /\ AccountsOK
  BY Administered, PartsTyped
<1>2. ASSUME UNCHANGED credentials
      PROVE  \A k \in DOMAIN credentials :
              /\ k \in DOMAIN credentials'
              /\ credentials'[k].collector = credentials[k].collector
              /\ credentials'[k].expires = credentials[k].expires
              /\ credentials[k].revoked => credentials'[k].revoked
  BY <1>2
<1>3. CASE Tick
  BY <1>1, <1>2, <1>3, HonestKept DEF Tick
<1>4. ASSUME NEW c \in Collector, CreateCollector(c)
      PROVE  Honest(r)'
  <2>1. \A d \in Collector : status[d] = "disabled" => status'[d] = "disabled"
    BY <1>1, <1>4 DEF CreateCollector, AccountsOK
  <2> QED
    BY <1>1, <1>2, <1>4, <2>1, HonestKept DEF CreateCollector
<1>5. ASSUME NEW c \in Collector, Disable(c)
      PROVE  Honest(r)'
  <2>1. \A d \in Collector : status[d] = "disabled" => status'[d] = "disabled"
    BY <1>1, <1>5 DEF Disable, AccountsOK
  <2> QED
    BY <1>1, <1>2, <1>5, <2>1, HonestKept DEF Disable
<1>6. ASSUME NEW c \in Collector, Enable(c)
      PROVE  Honest(r)'
  <2>1. auth'[r] = [auth[r] EXCEPT !.disabled = FALSE] /\ auth[r] \in Attempt
    BY <1>6 DEF Enable, Typed
  <2>2. ~auth'[r].disabled
    BY <2>1 DEF Attempt
  <2> QED
    BY <1>1, <1>2, <1>6, <2>2, HonestKept DEF Enable
<1>7. ASSUME NEW c \in Collector, NEW k \in Credential, NEW e \in 1..Never,
             IssueCredential(k, c, e)
      PROVE  Honest(r)'
  <2>1. \A j \in DOMAIN credentials :
           j \in DOMAIN credentials' /\ credentials'[j] = credentials[j]
    BY <1>7 DEF IssueCredential
  <2> QED
    BY <1>1, <1>7, <2>1, HonestKept DEF IssueCredential
<1>8. ASSUME NEW k \in Credential, Revoke(k)
      PROVE  Honest(r)'
  <2>1. credentials[k] \in CredentialRow
    BY <1>1, <1>8 DEF Revoke, AccountsOK
  <2>2. credentials' = [credentials EXCEPT
                          ![k] = [credentials[k] EXCEPT !.revoked = TRUE]]
    BY <1>8 DEF Revoke
  <2> DEFINE row == [credentials[k] EXCEPT !.revoked = TRUE]
  <2>3. /\ row.revoked
        /\ row.collector = credentials[k].collector
        /\ row.expires = credentials[k].expires
    BY <2>1 DEF CredentialRow
  <2> HIDE DEF row
  <2>4. credentials' = [credentials EXCEPT ![k] = row]
    BY <2>2 DEF row
  <2>5. \A j \in DOMAIN credentials :
              /\ j \in DOMAIN credentials'
              /\ credentials'[j].collector = credentials[j].collector
              /\ credentials'[j].expires = credentials[j].expires
              /\ credentials[j].revoked => credentials'[j].revoked
    BY <2>3, <2>4
  <2> QED
    BY <1>1, <1>8, <2>5, HonestKept DEF Revoke
<1> QED
  BY <1>3, <1>4, <1>5, <1>6, <1>7, <1>8 DEF Administer

LEMMA HonestPresented ==
    ASSUME Typed, RevocationsShow, NEW r \in Request, NEW token \in Token,
           Present(r, token)
    PROVE  Honest(r)'
<1>1. AccountsOK /\ auth \in [Request -> Attempt]
  BY PartsTyped DEF Typed
<1>2. UNCHANGED << clock, status, credentials, revocations >>
  BY Presented DEF accounts
<1> PICK step \in {"credential", "rejected", "failed"},
         barred \in BOOLEAN, disabled \in BOOLEAN :
                 /\ auth' = [auth EXCEPT ![r] =
                      [step |-> step, number |-> attempts + 1,
                       token |-> token, at |-> clock, row |-> << >>,
                       barred |-> barred, disabled |-> disabled]]
                 /\ barred => Barred(token.credential)
                 /\ disabled =>
                      /\ token.credential \in DOMAIN credentials
                      /\ status[credentials[token.credential].collector]
                            = "disabled"
                 /\ step = "credential" =>
                      token.form \in {"genuine", "wrong_secret"}
  BY Presented
<1>3. /\ auth'[r].step = step
      /\ auth'[r].token = token
      /\ auth'[r].at = clock
      /\ auth'[r].barred = barred
      /\ auth'[r].disabled = disabled
  BY <1>1
<1>4. barred =>
        /\ token.credential \in DOMAIN credentials
        /\ \/ credentials[token.credential].revoked
           \/ credentials[token.credential].expires <= clock
  BY <1>1 DEF Barred, RevocationsShow, AccountsOK
<1>5. Key(r)' = token.credential
  BY <1>3 DEF Key
<1> QED
  BY <1>2, <1>3, <1>4, <1>5 DEF Honest, UnderWay

LEMMA HonestAuthenticating ==
    ASSUME Typed, NEW r \in Request, Honest(r), Authenticate(r)
    PROVE  Honest(r)'
<1>1. AccountsOK /\ auth[r] \in Attempt
  BY PartsTyped DEF Typed
<1>2. ASSUME NEW step \in {"accepting", "accepted", "rejected", "failed"},
             Advances(r, step)
      PROVE  /\ auth'[r].step = step
             /\ auth'[r].number = auth[r].number
             /\ auth'[r].token = auth[r].token
             /\ auth'[r].at = auth[r].at
             /\ auth'[r].row = auth[r].row
             /\ auth'[r].barred = auth[r].barred
             /\ auth'[r].disabled = auth[r].disabled
  BY <1>1, <1>2 DEF Advances, Attempt
<1>3. ASSUME NEW step \in {"rejected", "failed"}, Advances(r, step)
      PROVE  Honest(r)'
  BY <1>2, <1>3 DEF Honest, UnderWay
<1>4. CASE /\ auth[r].step = "credential"
           /\ Key(r) \in DOMAIN credentials
           /\ auth'[r] = [auth[r] EXCEPT !.row = credentials[Key(r)],
                                         !.step = "collector"]
           /\ UNCHANGED << accounts, attempts, authEvents >>
  <2>1. /\ auth'[r].step = "collector"
        /\ auth'[r].row = credentials[Key(r)]
        /\ auth'[r].token = auth[r].token
        /\ auth'[r].at = auth[r].at
        /\ auth'[r].barred = auth[r].barred
        /\ auth'[r].disabled = auth[r].disabled
    BY <1>1, <1>4 DEF Attempt
  <2>2. Key(r)' = Key(r)
    BY <2>1 DEF Key
  <2> QED
    BY <1>4, <2>1, <2>2 DEF Honest, UnderWay, accounts
<1>5. CASE /\ auth[r].step = "collector"
           /\ Advances(r, "accepting")
           /\ ~auth[r].row.revoked
           /\ auth[r].row.expires > auth[r].at
           /\ status[auth[r].row.collector] = "enabled"
           /\ UNCHANGED << credentials, authEvents >>
  <2>1. Key(r)' = Key(r)
    BY <1>2, <1>5 DEF Key
  <2>2. auth[r].row \in CredentialRow /\ auth[r].at \in Nat
           /\ auth[r].row.expires \in Nat
    BY <1>1, <1>5, PartsTyped, AccessAssumption
       DEF AttemptsOK, CredentialRow, Attempt, Never
  <2>3. ~auth[r].barred /\ ~auth[r].disabled
    BY <1>5, <2>2 DEF Honest
  <2> QED
    BY <1>2, <1>5, <2>1, <2>3 DEF Honest, UnderWay
<1>6. CASE /\ auth[r].step = "accepting"
           /\ Advances(r, "accepted")
  BY <1>2, <1>6 DEF Honest, UnderWay
<1> QED
  BY <1>3, <1>4, <1>5, <1>6, Authenticating

LEMMA HonestStep ==
    ASSUME Typed, [Next]_vars, RevocationsShow, NEW r \in Request,
           \A s \in Request : Honest(s) /\ Handled(s)
    PROVE  Honest(r)'
<1>1. AccountsOK
  BY PartsTyped
<1>2. ASSUME UNCHANGED << status, credentials >>, auth'[r] = auth[r]
      PROVE  Honest(r)'
  BY <1>2 DEF Honest, Key
<1>3. CASE Administer
  BY <1>3, HonestAdministered
<1>4. ASSUME NEW s \in Request, NEW submission \in Submission,
             Refuse(s, submission)
      PROVE  Honest(r)'
  <2>1. CASE s = r
    <3>1. auth'[r] = NoAttempt
      BY <1>4, <2>1, Refused
    <3> QED
      BY <3>1, NoAttemptTyped DEF Honest, UnderWay
  <2>2. CASE s # r
    BY <1>2, <1>4, <2>2, Refused DEF Others, accounts
  <2> QED
    BY <2>1, <2>2
<1>5. ASSUME NEW s \in Request, NEW submission \in Submission,
             NEW token \in Token, Submit(s, submission, token)
      PROVE  Honest(r)'
  <2>1. Present(s, token) /\ Others(s)
    BY <1>5, Submitted
  <2>2. CASE s = r
    BY <2>1, <2>2, HonestPresented
  <2>3. CASE s # r
    BY <1>2, <2>1, <2>3, Presented DEF Others, accounts
  <2> QED
    BY <2>2, <2>3
<1>6. ASSUME NEW s \in Request, RunAuthentication(s)
      PROVE  Honest(r)'
  <2>1. Authenticate(s) /\ Others(s)
    BY <1>6, AuthenticationRun
  <2>2. CASE s = r
    BY <2>1, <2>2, HonestAuthenticating
  <2>3. CASE s # r
    <3>1. Same(r)
      BY <2>1, <2>3 DEF Others, Same
    <3>2. status' = status /\
            (\/ credentials' = credentials
             \/ credentials' =
                  [credentials EXCEPT ![Key(s)] = [@ EXCEPT !.used = TRUE]])
      BY <2>1, Authenticating DEF Advances, accounts
    <3>3. \A k \in DOMAIN credentials :
            LET row == [credentials[k] EXCEPT !.used = TRUE]
            IN  /\ row.collector = credentials[k].collector
                /\ row.expires = credentials[k].expires
                /\ row.revoked = credentials[k].revoked
      BY <1>1 DEF AccountsOK, CredentialRow
    <3>4. \A k \in DOMAIN credentials :
              /\ k \in DOMAIN credentials'
              /\ credentials'[k].collector = credentials[k].collector
              /\ credentials'[k].expires = credentials[k].expires
              /\ credentials[k].revoked => credentials'[k].revoked
      BY <3>2, <3>3
    <3> QED
      BY <3>1, <3>2, <3>4, HonestKept
  <2> QED
    BY <2>2, <2>3
<1>7. ASSUME NEW s \in Request, PutItem(s) \/ PutFails(s)
      PROVE  Honest(r)'
  BY <1>2, <1>7, ItemPut, PutFailed DEF access, accounts
<1> QED
  BY <1>2, <1>3, <1>4, <1>5, <1>6, <1>7, Steps

-----------------------------------------------------------------------------
(* Replies and the stages they stand on.                                   *)

LEMMA InitHandled == Init => \A r \in Request : Handled(r)
<1>1. Len(<< >>) = 0
  OBVIOUS
<1> QED
  BY <1>1, NoAttemptTyped
     DEF Init, AccessInit, NoRequest, Handled, RouteReply, UnderWay

LEMMA HandledKept ==
    ASSUME NEW r \in Request, Handled(r), request'[r] = request[r],
           auth'[r].step = auth[r].step, auth'[r].row = auth[r].row
    PROVE  Handled(r)'
<1>1. Faults(r)' = Faults(r)
  BY SameFaults
<1> QED
  BY <1>1 DEF Handled, UnderWay

LEMMA HandledRefused ==
    ASSUME Typed, NEW r \in Request, NEW submission \in Submission,
           Refuse(r, submission)
    PROVE  Handled(r)'
<1> PICK reply \in {"unsupported_media_type", "request_body_too_large"} :
         request'[r] = [batch |-> submission.batch, body |-> submission.body,
                        single |-> submission.single, stage |-> "done",
                        results |-> << >>, reply |-> reply]
  BY Refused
<1>1. /\ request'[r].stage = "done"
      /\ request'[r].results = << >>
      /\ request'[r].reply = reply
      /\ request'[r].batch = submission.batch
  OBVIOUS
<1>2. auth'[r].step = "none"
  BY Refused, NoAttemptTyped
<1>3. Len(<< >>) = 0 /\ Len(submission.batch) \in Nat
  BY SubmissionAssumption
<1> QED
  BY <1>1, <1>2, <1>3 DEF Handled, RouteReply, UnderWay

LEMMA HandledSubmitted ==
    ASSUME Typed, NEW r \in Request, NEW submission \in Submission,
           NEW token \in Token, Submit(r, submission, token)
    PROVE  Handled(r)'
<1> PICK stage \in {"authenticating", "done"},
         reply \in {"none", "unauthorized", "internal_error",
                    "request_body_too_large"} :
         /\ request'[r] = [batch |-> submission.batch,
                           body |-> submission.body,
                           single |-> submission.single,
                           stage |-> stage, results |-> << >>,
                           reply |-> reply]
         /\ auth'[r].step = "credential" =>
               stage = "authenticating" /\ reply = "none"
         /\ auth'[r].step # "credential" => stage = "done"
         /\ reply = "unauthorized" => auth'[r].step = "rejected"
  BY Submitted
<1>1. /\ request'[r].stage = stage
      /\ request'[r].results = << >>
      /\ request'[r].reply = reply
      /\ request'[r].batch = submission.batch
  OBVIOUS
<1>2. auth'[r].step \in {"credential", "rejected", "failed"}
  <2>1. Present(r, token) /\ auth \in [Request -> Attempt]
    BY Submitted DEF Typed
  <2> QED
    BY <2>1, Presented
<1>3. /\ Len(<< >>) = 0 /\ Len(submission.batch) \in Nat
      /\ submission.batch # << >>
  BY SubmissionAssumption
<1> QED
  BY <1>1, <1>2, <1>3 DEF Handled, RouteReply, UnderWay

LEMMA HandledAuthenticated ==
    ASSUME Typed, NEW r \in Request, Honest(r), Handled(r),
           RunAuthentication(r)
    PROVE  Handled(r)'
<1>1. /\ request[r] \in Handling
      /\ request[r].stage = "authenticating"
      /\ request[r].results = << >>
      /\ request[r].batch # << >>
      /\ request[r].reply = "none"
      /\ auth[r].step \in UnderWay
  BY AuthenticationRun DEF Typed, Handled
<1>2. Len(<< >>) = 0 /\ Len(request[r].batch) > 0
  <2>1. request[r].batch \in Seq(Payload)
    BY <1>1 DEF Handling
  <2> QED
    BY <1>1, <2>1
<1>3. ASSUME NEW reply, Ends(r, reply)
      PROVE  /\ request'[r].stage = "done"
             /\ request'[r].results = << >>
             /\ request'[r].batch = request[r].batch
             /\ request'[r].reply = reply
  BY <1>1, <1>3 DEF Ends, Handling
<1>4. CASE auth'[r].step \in UnderWay /\ request'[r] = request[r]
  BY <1>1, <1>2, <1>4 DEF Handled, RouteReply, UnderWay
<1>5. CASE /\ auth'[r].step = "rejected"
           /\ \E reply \in {"unauthorized", "request_body_too_large"} :
                 Ends(r, reply)
  BY <1>2, <1>3, <1>5 DEF Handled, RouteReply, UnderWay
<1>6. CASE /\ auth'[r].step = "failed"
           /\ \E reply \in {"internal_error", "request_body_too_large"} :
                 Ends(r, reply)
  BY <1>2, <1>3, <1>6 DEF Handled, RouteReply, UnderWay
<1>7. CASE /\ auth'[r].step = "accepted"
           /\ auth'[r].row = auth[r].row
           /\ Faults(r) = {}
           /\ request'[r] = [request[r] EXCEPT !.stage = "putting"]
  <2>1. /\ request'[r].stage = "putting"
        /\ request'[r].results = << >>
        /\ request'[r].batch = request[r].batch
        /\ request'[r].reply = "none"
    BY <1>1, <1>7 DEF Handling
  <2>2. Faults(r)' = {}
    BY <1>7, <2>1, SameFaults
  <2> QED
    BY <1>2, <1>7, <2>1, <2>2 DEF Handled, RouteReply, UnderWay
<1>8. CASE /\ auth'[r].step = "accepted"
           /\ \E reply \in {"batch_size_exceeded", "scope_mismatch",
                            "ontology_validation_failed",
                            "request_body_too_large"} : Ends(r, reply)
  BY <1>2, <1>3, <1>8 DEF Handled, RouteReply, UnderWay
<1> QED
  BY <1>4, <1>5, <1>6, <1>7, <1>8, AuthenticationRun

LEMMA HandledPut ==
    ASSUME Typed, NEW r \in Request, Handled(r), PutItem(r) \/ PutFails(r)
    PROVE  Handled(r)'
<1>1. /\ request[r] \in Handling
      /\ request[r].stage = "putting"
      /\ UNCHANGED access
  BY ItemPut, PutFailed DEF Typed
<1>2. auth' = auth
  BY <1>1 DEF access, accounts
<1>3. /\ auth[r].step = "accepted"
      /\ Faults(r) = {}
      /\ Len(request[r].results) < Len(request[r].batch)
      /\ Len(request[r].results) \in Nat
      /\ Len(request[r].batch) \in Nat
  BY <1>1 DEF Handled, Handling
<1>4. CASE PutItem(r)
  <2>1. Faults(r)' = {}
    BY <1>2, <1>3, <1>4, ItemPut, SameFaults
  <2>2. /\ request'[r].batch = request[r].batch
        /\ \/ /\ request'[r].stage = "putting"
              /\ request'[r].reply = request[r].reply
              /\ Len(request'[r].results) < Len(request[r].batch)
           \/ /\ request'[r].stage = "done"
              /\ request'[r].reply \in {"ingested", "immutable_conflict",
                                        "request_body_too_large"}
              /\ Len(request'[r].results) = Len(request[r].batch)
        /\ request'[r] \in Handling
    BY <1>4, ItemPut
  <2>3. Len(request'[r].results) \in Nat
    BY <2>2 DEF Handling
  <2>4. request[r].reply = "none"
    BY <1>1 DEF Handled
  <2> QED
    BY <1>2, <1>3, <2>1, <2>2, <2>3, <2>4 DEF Handled, RouteReply, UnderWay
<1>5. CASE PutFails(r)
  <2> PICK reply \in {"store_unavailable", "request_body_too_large"} :
           Ends(r, reply)
    BY <1>5, PutFailed
  <2>1. /\ request'[r].stage = "done"
        /\ request'[r].results = request[r].results
        /\ request'[r].batch = request[r].batch
        /\ request'[r].reply = reply
    BY <1>1 DEF Ends, Handling
  <2>2. Faults(r)' = {}
    BY <1>2, <1>3, <2>1, SameFaults
  <2> QED
    BY <1>2, <1>3, <2>1, <2>2 DEF Handled, RouteReply, UnderWay
<1> QED
  BY <1>4, <1>5

LEMMA HandledStep ==
    ASSUME Typed, [Next]_vars, NEW r \in Request,
           \A s \in Request : Honest(s) /\ Handled(s)
    PROVE  Handled(r)'
<1>1. ASSUME request'[r] = request[r], auth'[r] = auth[r]
      PROVE  Handled(r)'
  BY <1>1, HandledKept
<1>2. CASE Administer /\ UNCHANGED << log, request >>
  <2>1. Same(r)
    BY <1>2, Administered
  <2> QED
    BY <1>2, <2>1, HandledKept DEF Same
<1>3. ASSUME NEW s \in Request, NEW submission \in Submission,
             Refuse(s, submission)
      PROVE  Handled(r)'
  <2>1. Others(s)
    BY <1>3, Refused
  <2> QED
    BY <1>1, <1>3, <2>1, HandledRefused DEF Others
<1>4. ASSUME NEW s \in Request, NEW submission \in Submission,
             NEW token \in Token, Submit(s, submission, token)
      PROVE  Handled(r)'
  <2>1. Others(s)
    BY <1>4, Submitted
  <2> QED
    BY <1>1, <1>4, <2>1, HandledSubmitted DEF Others
<1>5. ASSUME NEW s \in Request, RunAuthentication(s)
      PROVE  Handled(r)'
  <2>1. Others(s)
    BY <1>5, AuthenticationRun
  <2> QED
    BY <1>1, <1>5, <2>1, HandledAuthenticated DEF Others
<1>6. ASSUME NEW s \in Request, PutItem(s) \/ PutFails(s)
      PROVE  Handled(r)'
  <2>1. CASE s = r
    BY <1>6, <2>1, HandledPut
  <2>2. CASE s # r
    <3>1. request'[r] = request[r] /\ UNCHANGED access
      BY <1>6, <2>2, ItemPut, PutFailed
    <3> QED
      BY <1>1, <3>1 DEF access, accounts
  <2> QED
    BY <2>1, <2>2
<1>7. CASE UNCHANGED << clock, status, credentials, revocations, authEvents,
                        attempts, auth, log, request >>
  BY <1>1, <1>7
<1> QED
  BY <1>2, <1>3, <1>4, <1>5, <1>6, <1>7, Steps

-----------------------------------------------------------------------------
(* Results and the log.                                                    *)

\* The same of a set of observations.
ConflictsIn(S, o) ==
    \E p \in S :
        \/ p.obs = o.obs /\ p # o
        \/ /\ \A q \in S : q.obs # o.obs
           /\ p.evidence.id = o.evidence.id /\ p.evidence # o.evidence

SaidTrue(S, result, o) ==
    IF result = "conflict" THEN o \notin S /\ ConflictsIn(S, o) ELSE o \in S

LEMMA ItemsSaid ==
    ASSUME NEW r \in Request
    PROVE  ItemsTrue(r) <=>
              \A i \in DOMAIN request[r].results :
                 SaidTrue(Stored, request[r].results[i], request[r].batch[i])
  BY DEF ItemsTrue, SaidTrue, Disposition, Conflicts, ConflictsIn

LEMMA ItemsSaidNext ==
    ASSUME NEW r \in Request
    PROVE  ItemsTrue(r)' <=>
              \A i \in DOMAIN request'[r].results :
                 SaidTrue(Stored', request'[r].results[i],
                          request'[r].batch[i])
  BY DEF ItemsTrue, SaidTrue, Disposition, Conflicts, ConflictsIn

\* The log grows by an observation that contradicts nothing in it.
Grown(o) ==
    /\ o \notin Stored /\ ~ConflictsIn(Stored, o)
    /\ Stored' = Stored \cup {o}

LEMMA Created ==
    ASSUME Typed, NEW o \in Payload, Disposition(o) = "created",
           log' = Append(log, o)
    PROVE  Grown(o)
<1>1. log \in Seq(Payload)
  BY PartsTyped
<1>2. Stored' = Stored \cup {o}
  BY <1>1, RangeAppend DEF Stored
<1> QED
  BY <1>2 DEF Grown, Disposition, Conflicts, ConflictsIn

LEMMA LogGrows ==
    ASSUME Typed, [Next]_vars,
           \A r \in Request : Honest(r) /\ Handled(r)
    PROVE  Stored' = Stored \/ \E o \in Payload : Grown(o)
<1>1. ASSUME NEW r \in Request, PutItem(r) \/ PutFails(r)
      PROVE  log' = log \/ \E o \in Payload : Grown(o)
  BY <1>1, ItemPut, PutFailed, Created
<1>2. log' = log \/ \E o \in Payload : Grown(o)
  BY <1>1, Steps, Refused, Submitted, AuthenticationRun
<1> QED
  BY <1>2 DEF Stored

\* What a result says of an item stays so.
LEMMA SaidLasts ==
    ASSUME Stored' = Stored \/ (\E o \in Payload : Grown(o)),
           NEW p, NEW result, SaidTrue(Stored, result, p)
    PROVE  SaidTrue(Stored', result, p)
<1>1. CASE Stored' = Stored
  BY <1>1
<1>2. ASSUME NEW o \in Payload, Grown(o)
      PROVE  SaidTrue(Stored', result, p)
  <2>1. CASE result # "conflict"
    BY <1>2, <2>1 DEF Grown, SaidTrue
  <2>2. CASE result = "conflict"
    <3>1. p # o /\ p \notin Stored /\ ConflictsIn(Stored, p)
      BY <1>2, <2>2 DEF Grown, SaidTrue
    <3>2. CASE \E q \in Stored : q.obs = p.obs /\ q # p
      BY <1>2, <2>2, <3>1, <3>2 DEF Grown, ConflictsIn, SaidTrue
    <3>3. CASE /\ \A q \in Stored : q.obs # p.obs
               /\ \E q \in Stored :
                     q.evidence.id = p.evidence.id /\ q.evidence # p.evidence
      BY <1>2, <2>2, <3>1, <3>3 DEF Grown, ConflictsIn, SaidTrue
    <3> QED
      BY <3>1, <3>2, <3>3 DEF ConflictsIn
  <2> QED
    BY <2>1, <2>2
<1> QED
  BY <1>1, <1>2

LEMMA ItemsPut ==
    ASSUME Typed, NEW r \in Request, Handled(r), ItemsTrue(r), PutItem(r),
           Stored' = Stored \/ (\E o \in Payload : Grown(o))
    PROVE  ItemsTrue(r)'
<1> DEFINE p == Item(r)
           results == request[r].results
           n == Len(results)
           d == Disposition(p)
<1>1. /\ results \in Seq({"created", "existing", "conflict"})
      /\ request'[r].batch = request[r].batch
      /\ request'[r].results = Append(results, d)
      /\ p = request[r].batch[n + 1]
      /\ p \in Payload
      /\ \/ d # "created" /\ log' = log
         \/ d = "created" /\ log' = Append(log, p)
  BY ItemPut DEF Typed, Handling
<1>2. SaidTrue(Stored', d, p)
  <2>1. CASE d = "created" /\ log' = Append(log, p)
    BY <1>1, <2>1, Created DEF Grown, SaidTrue
  <2>2. CASE d # "created" /\ log' = log
    BY <2>2 DEF Disposition, SaidTrue, Stored, Conflicts, ConflictsIn
  <2> QED
    BY <1>1, <2>1, <2>2
<1> HIDE DEF p, results, n, d
<1>3. ASSUME NEW i \in DOMAIN results
      PROVE  SaidTrue(Stored', results[i], request[r].batch[i])
  <2>1. SaidTrue(Stored, results[i], request[r].batch[i])
    BY <1>3, ItemsSaid DEF results
  <2> QED
    BY <2>1, SaidLasts
<1>4. /\ DOMAIN Append(results, d) = DOMAIN results \cup {n + 1}
      /\ Append(results, d)[n + 1] = d
      /\ \A i \in DOMAIN results : Append(results, d)[i] = results[i]
  BY <1>1 DEF n
<1> QED
  BY <1>1, <1>2, <1>3, <1>4, ItemsSaidNext

LEMMA ItemsStep ==
    ASSUME Typed, [Next]_vars, NEW r \in Request,
           \A s \in Request : Honest(s) /\ Handled(s) /\ ItemsTrue(s)
    PROVE  ItemsTrue(r)'
<1>1. Stored' = Stored \/ \E o \in Payload : Grown(o)
  BY LogGrows
<1>2. ASSUME request'[r].results = request[r].results,
             request'[r].batch = request[r].batch
      PROVE  ItemsTrue(r)'
  <2>1. ASSUME NEW i \in DOMAIN request[r].results
        PROVE  SaidTrue(Stored', request[r].results[i], request[r].batch[i])
    <3>1. SaidTrue(Stored, request[r].results[i], request[r].batch[i])
      BY <2>1, ItemsSaid
    <3> QED
      BY <1>1, <3>1, SaidLasts
  <2> QED
    BY <1>2, <2>1, ItemsSaidNext
<1>3. ASSUME request'[r].results = << >>
      PROVE  ItemsTrue(r)'
  <2>1. DOMAIN << >> = {}
    OBVIOUS
  <2> QED
    BY <1>3, <2>1 DEF ItemsTrue
<1>4. CASE Administer /\ UNCHANGED << log, request >>
  BY <1>2, <1>4
<1>5. ASSUME NEW s \in Request, NEW submission \in Submission,
             Refuse(s, submission)
      PROVE  ItemsTrue(r)'
  <2>1. request'[s].results = << >> /\ Others(s)
    <3> PICK reply \in {"unsupported_media_type", "request_body_too_large"} :
             request'[s] =
                [batch |-> submission.batch, body |-> submission.body,
                 single |-> submission.single, stage |-> "done",
                 results |-> << >>, reply |-> reply]
      BY <1>5, Refused
    <3>1. Others(s)
      BY <1>5, Refused
    <3> QED
      BY <3>1
  <2> QED
    BY <1>2, <1>3, <2>1 DEF Others
<1>6. ASSUME NEW s \in Request, NEW submission \in Submission,
             NEW token \in Token, Submit(s, submission, token)
      PROVE  ItemsTrue(r)'
  <2>1. request'[s].results = << >> /\ Others(s)
    <3> PICK stage \in {"authenticating", "done"},
             reply \in {"none", "unauthorized", "internal_error",
                        "request_body_too_large"} :
             /\ request'[s] = [batch |-> submission.batch,
                               body |-> submission.body,
                               single |-> submission.single,
                               stage |-> stage, results |-> << >>,
                               reply |-> reply]
             /\ auth'[s].step = "credential" =>
                   stage = "authenticating" /\ reply = "none"
             /\ auth'[s].step # "credential" => stage = "done"
             /\ reply = "unauthorized" => auth'[s].step = "rejected"
      BY <1>6, Submitted
    <3>1. Others(s)
      BY <1>6, Submitted
    <3> QED
      BY <3>1
  <2> QED
    BY <1>2, <1>3, <2>1 DEF Others
<1>7. ASSUME NEW s \in Request, NEW reply,
             \/ request'[s] = request[s]
             \/ request'[s] = [request[s] EXCEPT !.stage = "putting"]
             \/ Ends(s, reply)
      PROVE  /\ request'[s].results = request[s].results
             /\ request'[s].batch = request[s].batch
  <2>1. request[s] \in Handling
    BY DEF Typed
  <2> QED
    BY <1>7, <2>1 DEF Ends, Handling
<1>8. ASSUME NEW s \in Request, RunAuthentication(s)
      PROVE  ItemsTrue(r)'
  <2>1. /\ Others(s)
        /\ \/ request'[s] = request[s]
           \/ request'[s] = [request[s] EXCEPT !.stage = "putting"]
           \/ \E reply : Ends(s, reply)
    BY <1>8, AuthenticationRun
  <2> QED
    BY <1>2, <1>7, <2>1 DEF Others
<1>9. ASSUME NEW s \in Request, PutFails(s)
      PROVE  ItemsTrue(r)'
  <2>1. /\ \A q \in Request \ {s} : request'[q] = request[q]
        /\ \E reply : Ends(s, reply)
    BY <1>9, PutFailed
  <2> QED
    BY <1>2, <1>7, <2>1
<1>10. ASSUME NEW s \in Request, PutItem(s)
       PROVE  ItemsTrue(r)'
  <2>1. CASE s # r
    BY <1>2, <1>10, <2>1, ItemPut
  <2>2. CASE s = r
    BY <1>1, <1>10, <2>2, ItemsPut
  <2> QED
    BY <2>1, <2>2
<1>11. CASE UNCHANGED << clock, status, credentials, revocations, authEvents,
                         attempts, auth, log, request >>
  BY <1>2, <1>11
<1> QED
  BY <1>4, <1>5, <1>6, <1>8, <1>9, <1>10, <1>11, Steps

-----------------------------------------------------------------------------
(* The audit log.                                                          *)

LEMMA InitAudited == Init => Numbered /\ \A r \in Request : Audited(r)
<1> SUFFICES ASSUME Init PROVE Numbered /\ \A r \in Request : Audited(r)
  OBVIOUS
<1>1. /\ authEvents = {} /\ attempts = 0
      /\ \A r \in Request : auth[r].step = "none" /\ auth[r].number = 0
  BY NoAttemptTyped DEF Init, AccessInit
<1> QED
  BY <1>1 DEF Numbered, Audited, Outcomes, UnderWay

\* An event under another number says nothing of r.
LEMMA OutcomesKept ==
    ASSUME NEW r \in Request, auth'[r].number = auth[r].number,
           \/ authEvents' = authEvents
           \/ \E n, outcome, k : /\ n # auth[r].number
                                 /\ authEvents' = authEvents \cup
                                       {AuthEvent(n, outcome, k)}
    PROVE  Outcomes(r)' = Outcomes(r)
  BY DEF Outcomes, AuthEvent

\* The first event under the number of r decides.
LEMMA OutcomesOwn ==
    ASSUME NEW r \in Request, NEW outcome, NEW k,
           authEvents' = authEvents \cup
                            {AuthEvent(auth'[r].number, outcome, k)},
           \A e \in authEvents : e.attempt # auth'[r].number
    PROVE  Outcomes(r)' = {outcome}
<1> DEFINE own == AuthEvent(auth'[r].number, outcome, k)
<1>1. own.attempt = auth'[r].number /\ own.outcome = outcome
  BY DEF AuthEvent
<1> HIDE DEF own
<1>2. authEvents' = authEvents \cup {own}
  BY DEF own
<1>3. {e \in authEvents' : e.attempt = auth'[r].number} = {own}
  BY <1>1, <1>2
<1> QED
  BY <1>1, <1>3 DEF Outcomes

LEMMA NoOutcomes ==
    ASSUME NEW r \in Request, Outcomes(r) = {}
    PROVE  \A e \in authEvents : e.attempt # auth[r].number
  BY DEF Outcomes

LEMMA AuditedKept ==
    ASSUME NEW r \in Request, Audited(r), auth'[r].step = auth[r].step,
           auth'[r].number = auth[r].number,
           \/ authEvents' = authEvents
           \/ \E n, outcome, k : /\ n # auth[r].number
                                 /\ authEvents' = authEvents \cup
                                       {AuthEvent(n, outcome, k)}
    PROVE  Audited(r)'
<1>1. Outcomes(r)' = Outcomes(r)
  BY OutcomesKept
<1> QED
  BY <1>1 DEF Audited, UnderWay

LEMMA PresentedAudited ==
    ASSUME Typed, Numbered, \A s \in Request : Audited(s),
           NEW r \in Request, NEW token \in Token, Present(r, token),
           \A s \in Request \ {r} : auth'[s] = auth[s]
    PROVE  Numbered' /\ \A s \in Request : Audited(s)'
<1>1. /\ auth \in [Request -> Attempt]
      /\ attempts \in Nat
      /\ attempts' = attempts + 1
  BY PartsTyped, Presented, AccessAssumption DEF Typed, AttemptsOK
<1> PICK step \in {"credential", "rejected", "failed"},
         barred \in BOOLEAN, disabled \in BOOLEAN :
                 /\ auth' = [auth EXCEPT ![r] =
                      [step |-> step, number |-> attempts + 1,
                       token |-> token, at |-> clock, row |-> << >>,
                       barred |-> barred, disabled |-> disabled]]
                 /\ step = "credential" => authEvents' = authEvents
                 /\ step # "credential" =>
                      \E reason \in Reason : authEvents' =
                         authEvents \cup {AuthEvent(attempts + 1, reason, {})}
  BY Presented
<1>2. /\ auth'[r].step = step
      /\ auth'[r].number = attempts + 1
  BY <1>1
<1>3. \A e \in authEvents : e.attempt \in 1..attempts
  BY DEF Numbered
<1>4. \A e \in authEvents : e.attempt # attempts + 1
  BY <1>1, <1>3
<1>5. \A s \in Request : auth[s].number \in 0..attempts
  BY DEF Numbered
<1>6. \A s \in Request : auth[s].number # attempts + 1
  BY <1>1, <1>5
<1>7. authEvents' = authEvents \/
        \E reason \in Reason : authEvents' =
           authEvents \cup {AuthEvent(attempts + 1, reason, {})}
  OBVIOUS
<1>8. Numbered'
  <2>1. \A e \in authEvents' : e.attempt \in 1..attempts'
    <3>1. \A e \in authEvents' : e.attempt \in 1..attempts
                                   \/ e.attempt = attempts + 1
      BY <1>3, <1>7 DEF AuthEvent
    <3> QED
      BY <1>1, <3>1
  <2>2. \A s \in Request : /\ auth'[s].number \in 0..attempts'
                           /\ auth'[s].step = "none" <=> auth'[s].number = 0
    <3>1. ASSUME NEW s \in Request, s # r
          PROVE  /\ auth'[s].number \in 0..attempts'
                 /\ auth'[s].step = "none" <=> auth'[s].number = 0
      BY <1>1, <1>5, <3>1 DEF Numbered
    <3>2. /\ auth'[r].number \in 0..attempts'
          /\ auth'[r].step = "none" <=> auth'[r].number = 0
      BY <1>1, <1>2
    <3> QED
      BY <3>1, <3>2
  <2>3. \A s, t \in Request :
           s # t /\ auth'[s].number = auth'[t].number => auth'[s].number = 0
    BY <1>2, <1>6 DEF Numbered
  <2> QED
    BY <2>1, <2>2, <2>3 DEF Numbered
<1>9. ASSUME NEW s \in Request, s # r
      PROVE  Audited(s)'
  BY <1>6, <1>7, <1>9, AuditedKept
<1>10. Audited(r)'
  <2>1. CASE step = "credential"
    <3>1. Outcomes(r)' = {}
      BY <1>2, <1>4, <2>1 DEF Outcomes
    <3> QED
      BY <1>2, <2>1, <3>1 DEF Audited, UnderWay
  <2>2. CASE step # "credential"
    <3>1. PICK reason \in Reason : authEvents' =
             authEvents \cup {AuthEvent(attempts + 1, reason, {})}
      BY <2>2
    <3>2. Outcomes(r)' = {reason}
      BY <1>2, <1>4, <3>1, OutcomesOwn
    <3> QED
      BY <1>2, <2>2, <3>2 DEF Audited, UnderWay
  <2> QED
    BY <2>1, <2>2
<1> QED
  BY <1>8, <1>9, <1>10

LEMMA AuthenticatingAudited ==
    ASSUME Typed, Numbered, \A s \in Request : Audited(s),
           NEW r \in Request, Honest(r), Authenticate(r)
    PROVE  Numbered' /\ \A s \in Request : Audited(s)'
<1>1. /\ auth[r] \in Attempt
      /\ auth[r].step \in UnderWay
      /\ \A s \in Request \ {r} : auth'[s] = auth[s]
      /\ attempts' = attempts
  BY Authenticating DEF Typed, Advances
<1> DEFINE n == auth[r].number
<1>2. /\ n # 0 /\ n \in 0..attempts /\ attempts \in Nat
      /\ Outcomes(r) = {}
      /\ \A s \in Request \ {r} : auth[s].number # n
  BY <1>1, PartsTyped, AccessAssumption
     DEF Numbered, Audited, UnderWay, AttemptsOK
<1>3. \A e \in authEvents : e.attempt # n
  BY <1>2, NoOutcomes
<1>4. ASSUME NEW step \in {"accepting", "accepted", "rejected", "failed"},
             Advances(r, step)
      PROVE  auth'[r].step = step /\ auth'[r].number = n
  BY <1>1, <1>4 DEF Advances, Attempt
<1>5. \/ /\ auth'[r].step \in {"collector", "accepting", "failed"}
         /\ auth'[r].number = n
         /\ authEvents' = authEvents
      \/ /\ auth'[r].step \in {"accepted", "failed"}
         /\ auth'[r].number = n
         /\ authEvents' = authEvents \cup
               {AuthEvent(n, "authenticated", {Key(r)})}
      \/ /\ auth'[r].step \in {"rejected", "failed"}
         /\ auth'[r].number = n
         /\ \E reason \in Reason : authEvents' = authEvents \cup
               {AuthEvent(n, reason, {Key(r)})}
  <2>1. CASE /\ auth[r].step = "credential"
             /\ auth'[r] = [auth[r] EXCEPT !.row = credentials[Key(r)],
                                           !.step = "collector"]
             /\ UNCHANGED << accounts, attempts, authEvents >>
    BY <1>1, <2>1 DEF Attempt
  <2>2. CASE Advances(r, "accepting") /\ UNCHANGED << credentials, authEvents >>
    BY <1>4, <2>2
  <2>3. CASE /\ \E step \in {"accepted", "failed"} : Advances(r, step)
             /\ authEvents' = authEvents \cup
                  {AuthEvent(n, "authenticated", {Key(r)})}
    BY <1>4, <2>3
  <2>4. CASE /\ \E step \in {"rejected", "failed"} : Advances(r, step)
             /\ \E reason \in Reason : authEvents' = authEvents \cup
                  {AuthEvent(n, reason, {Key(r)})}
    BY <1>4, <2>4
  <2>5. CASE Advances(r, "failed") /\ UNCHANGED << credentials, authEvents >>
    BY <1>4, <2>5
  <2> QED
    BY <2>1, <2>2, <2>3, <2>4, <2>5, Authenticating
<1> HIDE DEF n
<1>6. authEvents' = authEvents \/
        \E outcome, k : authEvents' =
           authEvents \cup {AuthEvent(n, outcome, k)}
  BY <1>5
<1>7. auth'[r].number = n /\ auth'[r].step # "none" /\ auth[r].number = n
  BY <1>5 DEF n
<1>8. Numbered'
  <2>1. \A e \in authEvents' : e.attempt \in 1..attempts'
    <3>1. \A e \in authEvents' : e.attempt \in 1..attempts \/ e.attempt = n
      BY <1>6 DEF Numbered, AuthEvent
    <3> QED
      BY <1>1, <1>2, <3>1
  <2>2. \A s \in Request : /\ auth'[s].number = auth[s].number
                           /\ auth'[s].step = "none" <=> auth[s].step = "none"
    BY <1>1, <1>7 DEF UnderWay
  <2> QED
    BY <1>1, <2>1, <2>2 DEF Numbered
<1>9. ASSUME NEW s \in Request, s # r
      PROVE  Audited(s)'
  <2>1. auth'[s] = auth[s] /\ auth[s].number # n
    BY <1>1, <1>2, <1>9
  <2> QED
    BY <1>6, <2>1, AuditedKept
<1>10. Audited(r)'
  <2>1. CASE /\ auth'[r].step \in {"collector", "accepting", "failed"}
             /\ authEvents' = authEvents
    <3>1. Outcomes(r)' = {}
      BY <1>2, <1>7, <2>1, OutcomesKept
    <3> QED
      BY <2>1, <3>1 DEF Audited, UnderWay
  <2>2. CASE /\ auth'[r].step \in {"accepted", "failed"}
             /\ authEvents' = authEvents \cup
                  {AuthEvent(n, "authenticated", {Key(r)})}
    <3>1. Outcomes(r)' = {"authenticated"}
      BY <1>3, <1>7, <2>2, OutcomesOwn
    <3> QED
      BY <2>2, <3>1 DEF Audited, UnderWay
  <2>3. CASE /\ auth'[r].step \in {"rejected", "failed"}
             /\ \E reason \in Reason : authEvents' = authEvents \cup
                  {AuthEvent(n, reason, {Key(r)})}
    <3>1. PICK reason \in Reason : authEvents' = authEvents \cup
                  {AuthEvent(n, reason, {Key(r)})}
      BY <2>3
    <3>2. Outcomes(r)' = {reason}
      BY <1>3, <1>7, <3>1, OutcomesOwn
    <3> QED
      BY <2>3, <3>2 DEF Audited, UnderWay
  <2> QED
    BY <1>5, <2>1, <2>2, <2>3
<1> QED
  BY <1>8, <1>9, <1>10

LEMMA AuditStep ==
    ASSUME Typed, [Next]_vars, Numbered,
           \A r \in Request : Honest(r) /\ Handled(r) /\ Audited(r)
    PROVE  Numbered' /\ \A r \in Request : Audited(r)'
<1>1. ASSUME UNCHANGED << authEvents, attempts >>,
             \A r \in Request : /\ auth'[r].step = auth[r].step
                                /\ auth'[r].number = auth[r].number
      PROVE  Numbered' /\ \A r \in Request : Audited(r)'
  <2>1. Numbered'
    BY <1>1 DEF Numbered
  <2> QED
    BY <1>1, <2>1, AuditedKept
<1>2. CASE Administer
  BY <1>1, <1>2, Administered DEF Same
<1>3. ASSUME NEW s \in Request, NEW submission \in Submission,
             Refuse(s, submission)
      PROVE  Numbered' /\ \A r \in Request : Audited(r)'
  <2>1. /\ UNCHANGED << authEvents, attempts >>
        /\ auth'[s].step = "none" /\ auth'[s].number = 0
        /\ \A r \in Request \ {s} : auth'[r] = auth[r]
    BY <1>3, Refused, NoAttemptTyped DEF Others
  <2>2. attempts \in Nat /\ 0 \in 0..attempts
    BY PartsTyped, AccessAssumption DEF AttemptsOK
  <2>3. Numbered'
    <3>1. \A r \in Request : /\ auth'[r].number \in 0..attempts
                             /\ auth'[r].step = "none" <=> auth'[r].number = 0
      BY <2>1, <2>2 DEF Numbered
    <3>2. \A r, t \in Request :
             r # t /\ auth'[r].number = auth'[t].number => auth'[r].number = 0
      BY <2>1 DEF Numbered
    <3> QED
      BY <2>1, <3>1, <3>2 DEF Numbered
  <2>4. Audited(s)'
    <3>1. \A e \in authEvents : e.attempt # 0
      BY <2>2 DEF Numbered
    <3>2. Outcomes(s)' = {}
      BY <2>1, <3>1 DEF Outcomes
    <3> QED
      BY <2>1, <3>2 DEF Audited
  <2> QED
    BY <2>1, <2>3, <2>4, AuditedKept
<1>4. ASSUME NEW s \in Request, NEW submission \in Submission,
             NEW token \in Token, Submit(s, submission, token)
      PROVE  Numbered' /\ \A r \in Request : Audited(r)'
  <2>1. Present(s, token) /\ \A r \in Request \ {s} : auth'[r] = auth[r]
    BY <1>4, Submitted DEF Others
  <2> QED
    BY <2>1, PresentedAudited
<1>5. ASSUME NEW s \in Request, RunAuthentication(s)
      PROVE  Numbered' /\ \A r \in Request : Audited(r)'
  <2>1. Authenticate(s)
    BY <1>5, AuthenticationRun
  <2> QED
    BY <2>1, AuthenticatingAudited
<1>6. ASSUME NEW s \in Request, PutItem(s) \/ PutFails(s)
      PROVE  Numbered' /\ \A r \in Request : Audited(r)'
  <2>1. UNCHANGED << authEvents, attempts, auth >>
    BY <1>6, ItemPut, PutFailed DEF access
  <2> QED
    BY <1>1, <2>1
<1>7. CASE UNCHANGED << clock, status, credentials, revocations, authEvents,
                        attempts, auth, log, request >>
  BY <1>1, <1>7
<1> QED
  BY <1>2, <1>3, <1>4, <1>5, <1>6, <1>7, Steps

-----------------------------------------------------------------------------

LEMMA InitIInv == Init => IInv
<1> SUFFICES ASSUME Init PROVE IInv
  OBVIOUS
<1>1. ASSUME NEW r \in Request
      PROVE  ItemsTrue(r)
  <2>1. request[r].results = << >> /\ DOMAIN << >> = {}
    BY DEF Init, NoRequest
  <2> QED
    BY <2>1 DEF ItemsTrue
<1> QED
  BY <1>1, InitTyped, InitHonest, InitHandled, InitAudited DEF IInv

LEMMA NextIInv == IInv /\ [Next]_vars => IInv'
<1> SUFFICES ASSUME IInv, [Next]_vars PROVE IInv'
  OBVIOUS
<1> USE DEF IInv
<1>1. Typed' /\ RevocationsShow'
  BY TypedStep, RevocationsStep
<1>2. Numbered' /\ \A r \in Request : Audited(r)'
  BY AuditStep
<1>3. ASSUME NEW r \in Request
      PROVE  Honest(r)' /\ Handled(r)' /\ ItemsTrue(r)'
  BY HonestStep, HandledStep, ItemsStep
<1> QED
  BY <1>1, <1>2, <1>3

LEMMA Invariant == Spec => []IInv
  BY InitIInv, NextIInv, PTL DEF Spec

\* The types of the accounts, the attempts and the requests.
THEOREM TypeCorrect == Spec => []TypeOK
<1>1. IInv => TypeOK
  BY DEF IInv, Typed
<1> QED
  BY <1>1, Invariant, PTL

(***************************************************************************)
(* An attempt whose credential was revoked or had expired before it began, *)
(* or whose collector is disabled all along, is not accepted (authenticate *)
(* beside revoke_credential and disable_collector).                        *)
(***************************************************************************)
THEOREM RevocationLasts == Spec => []RevokedNeverAccepted
<1>1. IInv => RevokedNeverAccepted
  BY DEF IInv, Honest, RevokedNeverAccepted
<1> QED
  BY <1>1, Invariant, PTL

(***************************************************************************)
(* The audit log has one event for every attempt that was answered, and it *)
(* says what the client was told (authenticate and the routes).            *)
(***************************************************************************)
THEOREM AuditTrue == Spec => []AuditMatchesReplies
<1>1. ASSUME IInv, NEW r \in Request
      PROVE  /\ request[r].reply = "unauthorized" =>
                   \E reason \in Reason : Outcomes(r) = {reason}
             /\ request[r].reply \in RouteReply =>
                   Outcomes(r) = {"authenticated"}
             /\ request[r].results # << >> => Outcomes(r) = {"authenticated"}
             /\ request[r].reply = "unsupported_media_type" => Outcomes(r) = {}
  <2>1. Handled(r) /\ Audited(r)
    BY <1>1 DEF IInv
  <2>2. CASE auth[r].step = "accepted"
    BY <2>1, <2>2 DEF Handled, Audited
  <2>3. CASE auth[r].step = "rejected"
    BY <2>1, <2>3 DEF Handled, Audited
  <2>4. CASE auth[r].step = "none"
    BY <2>1, <2>4 DEF Handled, Audited
  <2>5. CASE auth[r].step \notin {"accepted", "rejected", "none"}
    BY <2>1, <2>5 DEF Handled
  <2> QED
    BY <2>2, <2>3, <2>4, <2>5
<1>2. IInv => AuditMatchesReplies
  BY <1>1 DEF AuditMatchesReplies, RouteReply
<1> QED
  BY <1>2, Invariant, PTL

(***************************************************************************)
(* What a reply says of the items of a batch is so and stays so; items are *)
(* put only when all of them are in scope and valid (both routes).         *)
(***************************************************************************)
THEOREM BatchTrue == Spec => []BatchReplyTrue
<1>1. ASSUME IInv, NEW r \in Request
      PROVE  LET q == request[r]
             IN  /\ \A i \in DOMAIN q.results :
                      IF q.results[i] = "conflict"
                      THEN q.batch[i] \notin Stored /\ Conflicts(q.batch[i])
                      ELSE Disposition(q.batch[i]) = "existing"
                 /\ q.reply \in {"ingested", "immutable_conflict"} =>
                      Len(q.results) = Len(q.batch)
                 /\ q.results # << >> =>
                      \A i \in DOMAIN q.batch : InScope(q.batch[i], r)
                                                /\ q.batch[i].valid
  <2>1. Handled(r) /\ ItemsTrue(r)
    BY <1>1 DEF IInv
  <2>2. Faults(r) = {} =>
           \A i \in DOMAIN request[r].batch :
              InScope(request[r].batch[i], r) /\ request[r].batch[i].valid
    BY DEF Faults
  <2> QED
    BY <2>1, <2>2 DEF Handled, ItemsTrue
<1>2. IInv => BatchReplyTrue
  BY <1>1 DEF BatchReplyTrue
<1> QED
  BY <1>2, Invariant, PTL

=============================================================================
