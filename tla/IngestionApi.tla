---------------------------- MODULE IngestionApi ----------------------------
(***************************************************************************)
(* POST /observations and /observations/batch: the body limit, the parsing *)
(* of the body, authentication, the scope and ontology checks of all items,*)
(* and the puts, each a transaction of its own in the same session.        *)
(*                                                                         *)
(* A put is one step here: it appends to the log, or finds the observation *)
(* there, or conflicts with it or with the evidence of another; this is    *)
(* what ObservationIngest shows of the transaction.                        *)
(***************************************************************************)
EXTENDS CollectorAccess

CONSTANTS
    Payload,        \* observations with scope, validity, hash and evidence
    Submission,     \* what clients send: a route, observations and a body
    MaxBatch,       \* ingest_max_batch_size
    ScopeOf         \* tenant and source of each collector

VARIABLES
    log,            \* the stored observations
    request         \* what each client sent and what came of it

vars == << access, log, request >>

Store == INSTANCE IngestLog

\* A body beyond the limit is refused by its declared length, or cut where
\* the limit falls: in the middle of the document, or behind its end.
Body == {"whole", "wrong_media", "declared_too_large", "cut_short",
         "cut_behind"}

ASSUME SubmissionAssumption ==
    /\ MaxBatch \in Nat
    /\ \A s \in Submission :
          /\ s.batch \in Seq(Payload) /\ s.batch # << >>
          /\ s.body \in Body
          /\ s.single \in BOOLEAN
          /\ s.single => Len(s.batch) = 1

NoRequest == [batch |-> << >>, body |-> "whole", single |-> FALSE,
              stage |-> "none", results |-> << >>, reply |-> "none"]

Received(submission, stage, reply) ==
    [batch |-> submission.batch, body |-> submission.body,
     single |-> submission.single, stage |-> stage,
     results |-> << >>, reply |-> reply]

Init ==
    /\ AccessInit
    /\ Store!Init
    /\ request = [r \in Request |-> NoRequest]

-----------------------------------------------------------------------------
(* Replies.                                                                *)

\* The application's reply is withheld when the body was cut
\* (guarded_send), and another one sent.
Sent(body, reply) ==
    IF body \in {"cut_short", "cut_behind"} THEN "request_body_too_large"
    ELSE reply

Answered(q, reply) ==
    [q EXCEPT !.stage = "done", !.reply = Sent(q.body, reply)]

\* Status codes of the two routes.
Ingested(single, results) ==
    IF single /\ results[1] = "conflict" THEN "immutable_conflict"
    ELSE "ingested"

-----------------------------------------------------------------------------
(* Before the application: IngestionBodyLimitMiddleware, and the parsing.  *)

Refusal ==
    [wrong_media |-> "unsupported_media_type",
     declared_too_large |-> "request_body_too_large",
     cut_short |-> "request_body_too_large"]

\* A body that is refused or does not parse never reaches authentication.
Refuse(r, submission) ==
    /\ request[r].stage \in {"none", "done"}
    /\ submission.body \in DOMAIN Refusal
    /\ request' = [request EXCEPT ![r] =
         Received(submission, "done", Refusal[submission.body])]
    /\ auth' = [auth EXCEPT ![r] = NoAttempt]
    /\ UNCHANGED << accounts, authEvents, attempts, log >>

\* The reply, if the step of authentication that is taken ends it in vain.
Authenticated(r, q) ==
    CASE auth'[r].step = "rejected" -> Answered(q, "unauthorized")
      [] auth'[r].step = "failed" -> Answered(q, "internal_error")
      [] OTHER -> q

Submit(r, submission, token) ==
    /\ request[r].stage \in {"none", "done"}
    /\ submission.body \notin DOMAIN Refusal
    /\ Present(r, token)
    /\ LET q == Received(submission, "authenticating", "none")
       IN  request' = [request EXCEPT ![r] = Authenticated(r, q)]
    /\ UNCHANGED log

-----------------------------------------------------------------------------
(* The routes.                                                             *)

InScope(o, r) == o.scope = ScopeOf[auth[r].row.collector]

\* The items for which the batch is rejected as a whole.
Faults(r) ==
    {i \in DOMAIN request[r].batch :
        LET o == request[r].batch[i] IN ~InScope(o, r) \/ ~o.valid}

FirstFault(r) ==
    CHOOSE i \in Faults(r) : \A j \in Faults(r) : i <= j

TooMany(q) == ~q.single /\ Len(q.batch) > MaxBatch

\* Every item is checked before the first is put; the first at fault decides.
Prevalidated(r) ==
    IF TooMany(request[r]) THEN Answered(request[r], "batch_size_exceeded")
    ELSE IF Faults(r) = {} THEN [request[r] EXCEPT !.stage = "putting"]
    ELSE IF ~InScope(request[r].batch[FirstFault(r)], r)
    THEN Answered(request[r], "scope_mismatch")
    ELSE Answered(request[r], "ontology_validation_failed")

\* The route is entered with the principal, or the reply is an error.
RunAuthentication(r) ==
    /\ request[r].stage = "authenticating"
    /\ Authenticate(r)
    /\ request' = [request EXCEPT ![r] =
         IF auth'[r].step = "accepted" THEN Prevalidated(r)
         ELSE Authenticated(r, @)]
    /\ UNCHANGED log

Stored == Range(log)

Conflicts(o) ==
    \E p \in Stored :
        \/ p.obs = o.obs /\ p # o
        \/ /\ \A q \in Stored : q.obs # o.obs
           /\ p.evidence.id = o.evidence.id /\ p.evidence # o.evidence

Disposition(o) ==
    IF o \in Stored THEN "existing"
    ELSE IF Conflicts(o) THEN "conflict"
    ELSE "created"

Item(r) == request[r].batch[Len(request[r].results) + 1]

\* Fault: the items of the batch share a transaction, which the conflict of
\* one of them rolls back.
AfterConflictRolledBack(r) ==
    SelectSeq(log, LAMBDA p : \A i \in DOMAIN request[r].results :
                        \/ request[r].results[i] # "created"
                        \/ request[r].batch[i] # p)

\* put has rolled back its own transaction, and no other.
AfterConflict(r) == log

PutItem(r) ==
    LET o == Item(r)
        results == Append(request[r].results, Disposition(o))
    IN  /\ request[r].stage = "putting"
        /\ CASE Disposition(o) = "created" -> Store!AppendObservation(o)
             [] Disposition(o) = "existing" -> UNCHANGED log
             [] Disposition(o) = "conflict" -> log' = AfterConflict(r)
        /\ request' =
             IF Len(results) < Len(request[r].batch)
             THEN [request EXCEPT ![r].results = results]
             ELSE [request EXCEPT ![r] =
                     Answered([@ EXCEPT !.results = results],
                              Ingested(@.single, results))]
        /\ UNCHANGED access

\* The store is unavailable.  The item may have been committed all the same.
PutFails(r) ==
    /\ request[r].stage = "putting"
    /\ \/ UNCHANGED log
       \/ /\ Disposition(Item(r)) = "created"
          /\ Store!AppendObservation(Item(r))
    /\ request' =
         [request EXCEPT ![r] = Answered(@, "store_unavailable")]
    /\ UNCHANGED access

\* A request whose process ends is served no more.
Serve(r) == RunAuthentication(r) \/ PutItem(r) \/ PutFails(r)

Next ==
    \/ Administer /\ UNCHANGED << log, request >>
    \/ \E r \in Request, submission \in Submission :
          \/ Refuse(r, submission)
          \/ \E token \in Token : Submit(r, submission, token)
    \/ \E r \in Request : Serve(r)

Spec == Init /\ [][Next]_vars

-----------------------------------------------------------------------------

\* Types of the requests, next to those of the accounts.
TypeOK ==
    /\ AccessTypeOK
    /\ log \in Seq(Payload)
    /\ \A r \in Request :
          /\ request[r].batch \in Seq(Payload)
          /\ request[r].body \in Body
          /\ request[r].stage \in {"none", "authenticating", "putting", "done"}

Outcomes(r) ==
    {e.outcome : e \in {e \in authEvents : e.attempt = auth[r].number}}

(***************************************************************************)
(* The audit log says of every finished attempt what its client was told:  *)
(* one event, a rejection's reason for a request answered 401, and success *)
(* for every request that was handled, even if its reply was an error, was *)
(* replaced or got lost; and nothing is put by a request whose success is  *)
(* not in the log already (authenticate commits its event before the route *)
(* runs, and the puts' rollbacks leave it there).                          *)
(***************************************************************************)
AuditMatchesReplies ==
    \A r \in Request :
        /\ request[r].reply = "unauthorized" =>
              \E reason \in Reason : Outcomes(r) = {reason}
        /\ request[r].reply \in {"ingested", "immutable_conflict",
                "batch_size_exceeded", "scope_mismatch",
                "ontology_validation_failed", "store_unavailable"}
              => Outcomes(r) = {"authenticated"}
        /\ request[r].results # << >> => Outcomes(r) = {"authenticated"}
        /\ request[r].reply = "unsupported_media_type" => Outcomes(r) = {}

(***************************************************************************)
(* What a batch reply says of each item is so, and stays so, whatever other*)
(* requests put at the same time: an item reported created or existing is  *)
(* stored as it was sent, a conflicting one is not and something else      *)
(* stands in its place.  A rejected request has put nothing, one answered  *)
(* 503 has put a first part of its items, and sending it again reports     *)
(* that part as existing (ingest_observation_batch).                       *)
(***************************************************************************)
BatchReplyTrue ==
    \A r \in Request :
        LET q == request[r]
        IN  /\ \A i \in DOMAIN q.results :
                  IF q.results[i] = "conflict"
                  THEN q.batch[i] \notin Stored /\ Conflicts(q.batch[i])
                  ELSE Disposition(q.batch[i]) = "existing"
            /\ q.reply \in {"ingested", "immutable_conflict"} =>
                  Len(q.results) = Len(q.batch)
            /\ q.results # << >> =>
                  \A i \in DOMAIN q.batch : InScope(q.batch[i], r)
                                            /\ q.batch[i].valid

=============================================================================
