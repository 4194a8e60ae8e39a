-------------------------- MODULE ProjectionRunner -------------------------
(***************************************************************************)
(* ProjectionRunner.run_batch for one projector name and version, run by   *)
(* operators in several processes at once, together with the operations of *)
(* ProjectionRepository on the same checkpoint row (register, pause,       *)
(* resume), while observations are ingested.                               *)
(*                                                                         *)
(* A batch is one transaction.  It locks the checkpoint row with FOR       *)
(* UPDATE NOWAIT, captures the high watermark, and runs the handler once   *)
(* per observation inside a savepoint.  Until COMMIT its writes are in     *)
(* work[r]: the checkpoint and failure records as this transaction sees    *)
(* them, and the effects its handler calls have added.                     *)
(*                                                                         *)
(* The handler is any function of the session and the observation; what it *)
(* writes is abstracted to the position it was applied to, and what it     *)
(* raises to the three classes run_batch distinguishes.                    *)
(***************************************************************************)
EXTENDS Naturals, Sequences, FiniteSets

CONSTANTS
    Payload,
    Runner,         \* processes that operate the projector
    BatchLimit,     \* the limits operators pass to run_batch
    NoCheckpoint,   \* the projector has no checkpoint row
    NoWork,         \* a process without an open batch
    MaxLog,         \* bound: observations ingested
    MaxAttempts     \* bound: recorded failures of one observation

Position == 1..MaxLog

Status == {"idle", "failed", "paused"}

\* failure is last_failure_sequence, 0 when NULL.
Checkpoint == [last : 0..MaxLog, status : Status, failure : 0..MaxLog]

FailureStatus == {"absent", "active", "resolved"}

FailureRow == [status : FailureStatus, attempts : 0..MaxAttempts]

Work == [checkpoint : Checkpoint,
         failures : [Position -> FailureRow],
         added : Seq(Position),
         high : 0..MaxLog,
         left : 0..500]

ASSUME RunnerAssumption ==
    /\ BatchLimit \subseteq 1..500
    /\ MaxLog \in Nat /\ MaxAttempts \in Nat
    /\ NoCheckpoint \notin Checkpoint

VARIABLES
    log,        \* the committed observations
    checkpoint, \* the committed checkpoint row
    failures,   \* the committed failure record of each position
    effects,    \* the positions whose handler effects are committed, in order
    pc,         \* what each process does next
    work,       \* the working copy of its open batch
    outcome     \* what its last call returned or raised

database == << checkpoint, failures, effects >>
vars == << log, database, pc, work, outcome >>

Store == INSTANCE IngestLog

Outcome == {"none", "registered", "not_registered", "busy", "paused",
            "resumed", "state_conflict", "blocked", "advanced", "caught_up",
            "failed", "invariant_error", "aborted", "connection_lost"}

Init ==
    /\ Store!Init
    /\ checkpoint = NoCheckpoint
    /\ failures = [n \in Position |-> [status |-> "absent", attempts |-> 0]]
    /\ effects = << >>
    /\ pc = [r \in Runner |-> "idle"]
    /\ work = [r \in Runner |-> NoWork]
    /\ outcome = [r \in Runner |-> "none"]

-----------------------------------------------------------------------------

AppendObservation(p) ==
    /\ Len(log) < MaxLog
    /\ Store!AppendObservation(p)
    /\ UNCHANGED << database, pc, work, outcome >>

Registered == checkpoint # NoCheckpoint

\* The transaction of r holds the lock on the checkpoint row.
HoldsLock(r) == pc[r] \in {"item", "commit", "pause", "resume"}

\* Fault: the checkpoint row is read without FOR UPDATE.
NeverLocked(r) == TRUE

\* SELECT ... FOR UPDATE NOWAIT by r succeeds.
LockAvailable(r) == \A x \in Runner \ {r} : ~HoldsLock(x)

\* A call that ends without having changed a row.
Return(r, result) ==
    /\ outcome' = [outcome EXCEPT ![r] = result]
    /\ pc' = [pc EXCEPT ![r] = "idle"]
    /\ work' = [work EXCEPT ![r] = NoWork]
    /\ UNCHANGED << log, database >>

-----------------------------------------------------------------------------
(* Registration.                                                           *)

RegisterExisting(r) ==
    /\ pc[r] = "idle"
    /\ Registered
    /\ Return(r, "registered")

RegisterAbsent(r) ==
    /\ pc[r] = "idle"
    /\ ~Registered
    /\ pc' = [pc EXCEPT ![r] = "insert"]
    /\ UNCHANGED << log, database, work, outcome >>

\* Fault: the row is given a status of its own until its first batch.
UnstartedCheckpoint == [last |-> 0, status |-> "registered", failure |-> 0]

FreshCheckpoint == [last |-> 0, status |-> "idle", failure |-> 0]

\* Fault: registration is an upsert.
UpsertCheckpoint(r) ==
    /\ pc[r] = "insert"
    /\ checkpoint' = FreshCheckpoint
    /\ pc' = [pc EXCEPT ![r] = "idle"]
    /\ outcome' = [outcome EXCEPT ![r] = "registered"]
    /\ UNCHANGED << log, failures, effects, work >>

\* When another process was first, the INSERT raises IntegrityError, and the
\* row that is there is read and returned.
InsertCheckpoint(r) ==
    /\ pc[r] = "insert"
    /\ checkpoint' = IF Registered THEN checkpoint ELSE FreshCheckpoint
    /\ pc' = [pc EXCEPT ![r] = "idle"]
    /\ outcome' = [outcome EXCEPT ![r] = "registered"]
    /\ UNCHANGED << log, failures, effects, work >>

-----------------------------------------------------------------------------
(* The beginning of a batch, of a pause and of a resume.                   *)

NotRegistered(r) ==
    /\ pc[r] = "idle"
    /\ ~Registered
    /\ Return(r, "not_registered")

Busy(r) ==
    /\ pc[r] = "idle"
    /\ Registered
    /\ ~LockAvailable(r)
    /\ Return(r, "busy")

Locks(r) ==
    /\ pc[r] = "idle"
    /\ Registered
    /\ LockAvailable(r)

\* _validate_checkpoint_state, the comparison of last_failure_sequence with
\* the high watermark, and _require_active_failure.
CheckpointValid ==
    IF checkpoint.status = "failed"
    THEN /\ checkpoint.failure = checkpoint.last + 1
         /\ checkpoint.failure <= Len(log)
         /\ failures[checkpoint.failure].status = "active"
    ELSE checkpoint.failure = 0

RunPaused(r) ==
    /\ Locks(r)
    /\ checkpoint.status = "paused"
    /\ Return(r, IF CheckpointValid THEN "paused" ELSE "invariant_error")

RunBlocked(r) ==
    /\ Locks(r)
    /\ checkpoint.status = "failed"
    /\ Return(r, IF CheckpointValid THEN "blocked" ELSE "invariant_error")

\* Fault: retry_failed is ignored.
StartIdleBatch(r, limit) ==
    /\ Locks(r)
    /\ checkpoint.status = "idle"
    /\ work' = [work EXCEPT ![r] =
                   [checkpoint |-> checkpoint, failures |-> failures,
                    added |-> << >>, high |-> Len(log), left |-> limit]]
    /\ pc' = [pc EXCEPT ![r] = "item"]
    /\ UNCHANGED << log, database, outcome >>

\* A failed projector runs only with retry_failed.
StartBatch(r, limit) ==
    /\ Locks(r)
    /\ checkpoint.status # "paused"
    /\ IF CheckpointValid
       THEN /\ work' = [work EXCEPT ![r] =
                           [checkpoint |-> checkpoint, failures |-> failures,
                            added |-> << >>, high |-> Len(log),
                            left |-> limit]]
            /\ pc' = [pc EXCEPT ![r] = "item"]
            /\ UNCHANGED << log, database, outcome >>
       ELSE Return(r, "invariant_error")

-----------------------------------------------------------------------------
(* The loop over the observations.                                         *)

NextItem(r) == work[r].checkpoint.last + 1

Retrying(r) == work[r].checkpoint.status = "failed"

MoreItems(r) == work[r].left > 0 /\ work[r].checkpoint.last < work[r].high

\* The loop body reaches the handler.
HandlerRuns(r) ==
    /\ pc[r] = "item"
    /\ MoreItems(r)
    /\ Retrying(r) =>
          /\ work[r].checkpoint.failure = NextItem(r)
          /\ work[r].failures[NextItem(r)].status = "active"

\* Fault: every item of a batch is run in one savepoint opened before the loop
\* and released after it.
KeepsEffectsOfPoison(r) == Append(work[r].added, NextItem(r))

\* ROLLBACK TO SAVEPOINT: what the handler wrote for the item is gone.
EffectsAfterPoison(r) == work[r].added

\* Fault: an item that succeeds does not clear the failure it retried.
FailureLeftActive(r) == work[r].failures

\* Fault: the record of a retried failure is deleted.
FailureDeleted(r) ==
    IF Retrying(r)
    THEN [work[r].failures EXCEPT ![NextItem(r)] =
             [status |-> "absent", attempts |-> 0]]
    ELSE work[r].failures

\* _resolve_failure: the record of a retried failure is kept as resolved.
ResolvedFailures(r) ==
    IF Retrying(r)
    THEN [work[r].failures EXCEPT ![NextItem(r)].status = "resolved"]
    ELSE work[r].failures

WorkAfterSuccess(r) ==
    [checkpoint |-> [last |-> NextItem(r), status |-> "idle", failure |-> 0],
     failures |-> ResolvedFailures(r),
     added |-> Append(work[r].added, NextItem(r)),
     high |-> work[r].high,
     left |-> work[r].left - 1]

ItemSucceeds(r) ==
    /\ HandlerRuns(r)
    /\ work' = [work EXCEPT ![r] = WorkAfterSuccess(r)]
    /\ UNCHANGED << log, database, pc, outcome >>

\* _upsert_failure.
FailedAgain(row) == [status |-> "active", attempts |-> row.attempts + 1]

WorkAfterPoison(r) ==
    [checkpoint |-> [last |-> work[r].checkpoint.last, status |-> "failed",
                     failure |-> NextItem(r)],
     failures |-> [work[r].failures EXCEPT ![NextItem(r)] = FailedAgain(@)],
     added |-> EffectsAfterPoison(r),
     high |-> work[r].high,
     left |-> work[r].left]

\* ProjectionHandlerError or an exception the handler did not expect: the
\* observation is recorded as poison and the batch ends.
ItemPoisoned(r) ==
    /\ HandlerRuns(r)
    /\ work[r].failures[NextItem(r)].attempts < MaxAttempts
    /\ work' = [work EXCEPT ![r] = WorkAfterPoison(r)]
    /\ pc' = [pc EXCEPT ![r] = "commit"]
    /\ UNCHANGED << log, database, outcome >>

\* ProjectionInvariantError or SQLAlchemyError, from the handler or from the
\* runner's own statements: the whole batch is rolled back.
BatchAborted(r) ==
    /\ pc[r] = "item"
    /\ Return(r, "aborted")

\* The loop is over, by its condition or by a break.
BatchEnds(r) ==
    \/ pc[r] = "commit"
    \/ pc[r] = "item" /\ ~MoreItems(r)

\* COMMIT of the batch.
Publish(r) ==
    /\ checkpoint' = work[r].checkpoint
    /\ failures' = work[r].failures
    /\ effects' = effects \o work[r].added

CommitBatch(r) ==
    /\ BatchEnds(r)
    /\ Publish(r)
    /\ outcome' = [outcome EXCEPT ![r] =
                      IF pc[r] = "commit" THEN "failed"
                      ELSE IF work[r].checkpoint.last = work[r].high
                           THEN "caught_up" ELSE "advanced"]
    /\ pc' = [pc EXCEPT ![r] = "idle"]
    /\ work' = [work EXCEPT ![r] = NoWork]
    /\ UNCHANGED log

\* The connection is lost after COMMIT was executed, before it was answered.
CommitUnacknowledged(r) ==
    /\ BatchEnds(r)
    /\ Publish(r)
    /\ outcome' = [outcome EXCEPT ![r] = "connection_lost"]
    /\ pc' = [pc EXCEPT ![r] = "idle"]
    /\ work' = [work EXCEPT ![r] = NoWork]
    /\ UNCHANGED log

\* The process dies or loses its connection; the open transaction is undone.
Crash(r) ==
    /\ pc[r] # "idle"
    /\ Return(r, "connection_lost")

-----------------------------------------------------------------------------
(* Pause and resume.  The checkpoint row stays locked from the SELECT to   *)
(* the COMMIT.                                                             *)

LockForPause(r) ==
    /\ Locks(r)
    /\ IF checkpoint.status = "idle"
       THEN /\ pc' = [pc EXCEPT ![r] = "pause"]
            /\ UNCHANGED << log, database, work, outcome >>
       ELSE Return(r, IF checkpoint.status = "failed"
                      THEN "state_conflict" ELSE "paused")

CommitPause(r) ==
    /\ pc[r] = "pause"
    /\ checkpoint' = [checkpoint EXCEPT !.status = "paused"]
    /\ pc' = [pc EXCEPT ![r] = "idle"]
    /\ outcome' = [outcome EXCEPT ![r] = "paused"]
    /\ UNCHANGED << log, failures, effects, work >>

LockForResume(r) ==
    /\ Locks(r)
    /\ IF checkpoint.status = "paused"
       THEN /\ pc' = [pc EXCEPT ![r] = "resume"]
            /\ UNCHANGED << log, database, work, outcome >>
       ELSE Return(r, IF checkpoint.status = "failed"
                      THEN "state_conflict" ELSE "resumed")

CommitResume(r) ==
    /\ pc[r] = "resume"
    /\ checkpoint' = [checkpoint EXCEPT !.status = "idle"]
    /\ pc' = [pc EXCEPT ![r] = "idle"]
    /\ outcome' = [outcome EXCEPT ![r] = "resumed"]
    /\ UNCHANGED << log, failures, effects, work >>

-----------------------------------------------------------------------------

\* One step of process r inside an open call, failures aside.
Proceed(r) ==
    \/ InsertCheckpoint(r)
    \/ ItemSucceeds(r) \/ CommitBatch(r)
    \/ CommitPause(r) \/ CommitResume(r)

RunnerStep(r) ==
    \/ RegisterExisting(r) \/ RegisterAbsent(r)
    \/ NotRegistered(r) \/ Busy(r) \/ RunPaused(r) \/ RunBlocked(r)
    \/ \E limit \in BatchLimit : StartBatch(r, limit)
    \/ ItemPoisoned(r)
    \/ LockForPause(r) \/ LockForResume(r)
    \/ Proceed(r)
    \/ BatchAborted(r) \/ CommitUnacknowledged(r) \/ Crash(r)

Next ==
    \/ \E p \in Payload : AppendObservation(p)
    \/ \E r \in Runner : RunnerStep(r)

Spec == Init /\ [][Next]_vars

\* The operators' side of liveness: they run batches with retry_failed again
\* and again, do not leave the projector paused, and the cause of a poison
\* observation, of an aborted batch or of a crash does not persist for ever.
OperatorsPersist ==
    /\ SF_vars(\E r \in Runner, limit \in BatchLimit : StartBatch(r, limit))
    /\ SF_vars(\E r \in Runner :
                  Locks(r) /\ checkpoint.status = "paused" /\ LockForResume(r))
    /\ SF_vars(\E r \in Runner : ItemSucceeds(r))
    /\ <>[][~\E r \in Runner : BatchAborted(r) \/ Crash(r)]_vars

FairSpec ==
    /\ Spec
    /\ \A r \in Runner : WF_vars(Proceed(r))
    /\ OperatorsPersist

-----------------------------------------------------------------------------

TypeOK ==
    /\ Store!LogTypeOK /\ Len(log) <= MaxLog
    /\ checkpoint \in Checkpoint \cup {NoCheckpoint}
    /\ failures \in [Position -> FailureRow]
    /\ effects \in Seq(Position)
    /\ pc \in [Runner -> {"idle", "insert", "item", "commit", "pause", "resume"}]
    /\ work \in [Runner -> Work \cup {NoWork}]
    /\ \A r \in Runner : pc[r] \in {"item", "commit"} => work[r] \in Work
    /\ outcome \in [Runner -> Outcome]

Processed == IF Registered THEN checkpoint.last ELSE 0

(* Each observation up to the checkpoint has had its effects made durable  *)
(* exactly once, in ingest order, and no later one has: neither a poison   *)
(* item, an aborted or crashed batch, a lost acknowledgement followed by a *)
(* new run, nor another process running the same projector breaks this.    *)
EffectsExactlyOnce == effects = [n \in 1..Processed |-> n]

(* A checkpoint is failed exactly while one failure record is active; the  *)
(* record is that of the next observation.  So the validation that starts  *)
(* every batch never refuses what earlier batches left behind.             *)
FailureRecordMatches ==
    LET active == {n \in Position : failures[n].status = "active"}
    IN  IF Registered /\ checkpoint.status = "failed"
        THEN /\ active = {checkpoint.last + 1}
             /\ checkpoint.failure = checkpoint.last + 1
             /\ checkpoint.failure <= Len(log)
        ELSE /\ active = {}
             /\ Registered => checkpoint.failure = 0

Keeps(row, next) ==
    /\ next.attempts >= row.attempts
    /\ row.status # "absent" => next.status # "absent"
    /\ row.status = "resolved" => next = row

(* The failure history is kept: a record is never removed, its count of    *)
(* attempts never decreases, and a resolved failure stays as it is.        *)
FailureHistoryKept ==
    [][\A n \in Position : Keeps(failures[n], failures'[n])]_vars

(* The runtime is a DurableConsumer: the effects are those of a growing    *)
(* initial part of the log, a paused projector applies nothing, and only   *)
(* the success of the failed observation ends a failure.                   *)
Consumer == INSTANCE DurableConsumer WITH
    applied <- [i \in DOMAIN effects |-> log[effects[i]]],
    status <- IF Registered THEN checkpoint.status ELSE "absent"

ImplementsDurableConsumer == Consumer!Spec

(* Every observation is eventually processed once the projector is         *)
(* registered, if its operators persist.                                   *)
CatchesUp ==
    \A n \in Position :
        Registered /\ Len(log) >= n ~> Registered /\ checkpoint.last >= n

-----------------------------------------------------------------------------
(* The inductive invariant, in the parts its proof is split into.          *)

Open(r) == pc[r] \in {"item", "commit"}

\* One transaction at a time holds the checkpoint row, which exists and has
\* the status that transaction has read.
LockExclusive ==
    \A r \in Runner :
        /\ HoldsLock(r) =>
              /\ Registered
              /\ \A x \in Runner \ {r} : ~HoldsLock(x)
        /\ Open(r) => checkpoint.status # "paused"
        /\ pc[r] = "pause" => checkpoint.status = "idle"
        /\ pc[r] = "resume" => checkpoint.status = "paused"

ActiveFailures(records) == {n \in Position : records[n].status = "active"}

\* A checkpoint and a set of failure records describe the same failure.
Matches(row, records, high) ==
    /\ row.last <= high
    /\ IF row.status = "failed"
       THEN /\ row.failure = row.last + 1 /\ row.failure <= high
            /\ ActiveFailures(records) = {row.last + 1}
       ELSE row.failure = 0 /\ ActiveFailures(records) = {}

\* The committed rows match each other.
DatabaseMatches ==
    /\ IF Registered THEN Matches(checkpoint, failures, Len(log))
                     ELSE ActiveFailures(failures) = {}
    /\ effects = [n \in 1..Processed |-> n]
    /\ \A n \in Position : failures[n].status = "resolved" => n <= Processed

\* An open batch has added the effects of the observations after the
\* committed checkpoint, and has changed no record before them.
BatchMatches(r) ==
    LET row == work[r].checkpoint
        records == work[r].failures
    IN  /\ Matches(row, records, work[r].high)
        /\ row.status # "paused"
        /\ (pc[r] = "commit" => row.status = "failed")
        /\ work[r].high <= Len(log)
        /\ row.last >= checkpoint.last
        /\ work[r].added = [i \in 1..(row.last - checkpoint.last) |->
                              checkpoint.last + i]
        /\ (checkpoint.status = "failed" /\ row.last = checkpoint.last
              => row.status = "failed")
        /\ \A n \in Position :
              /\ Keeps(failures[n], records[n])
              /\ records[n].status = "resolved" => n <= row.last

BatchesMatch == \A r \in Runner : Open(r) => BatchMatches(r)

IInv == TypeOK /\ LockExclusive /\ DatabaseMatches /\ BatchesMatch

=============================================================================
