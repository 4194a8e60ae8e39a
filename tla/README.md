# Correlis in TLA+

Correlis collects normalized cyber observations from authenticated collectors,
stores them immutably in PostgreSQL in one global order, and derives entities,
relationships, correlations and attack scenes from that order.  These modules
model the parts in which concurrency, failure and ordering decide correctness.
Paths below are relative to the repository root; `store/` stands for
`packages/correlis-store/src/correlis_store/` and `api/` for
`services/api/src/correlis_api/`.

## 1. Inventory

| Component | State it keeps | Operations | Interacts with | What makes it correct |
|---|---|---|---|---|
| Durable store, writes (`store/repository.py`, `observation_sequence.py`) | observations, evidence, links, ingest entries, one allocator row | `put`, `put_with_result`, `allocate` | called by API threads of several processes; rows read by every other part | gap-free commit-ordered sequence; immutable rows; identical retries get the same answer; no half-written observation |
| Sequence readers (`store/repository.py`) | none (the caller keeps a cursor) | `read_sequence_page`, `scan_scoped_sequence_page`, `validate_state` | read the store while writers commit | no position skipped, repeated or shown out of scope; `has_more` exact |
| Projection runtime (`store/projection_runner.py`, `projection_repository.py`) | checkpoint and failure rows per projector | `register`, `run_batch`, `pause`, `resume` | runs handlers in its transaction; operators run it from several processes | effects of a prefix of the log, once each, in order; poison recorded and retried explicitly |
| Observation stream (`api/observation_stream*.py`, `stream_connections.py`, `stream_cursor.py`) | leases and counters in process, a position and an auth deadline per connection | connect, preflight, scan, emit, revalidate, release | scanner, authentication, client reconnects | capacity is never exceeded nor lost; nothing is skipped over a reconnect; revoked collectors stop |
| Collector identity (`store/collector_repository.py`, `collector_auth.py`) | collectors, credentials, audit events | create, enable, disable, issue, revoke, authenticate, recheck | every route | a revoked or disabled collector stops being accepted; every attempt is audited |
| Ingestion API (`api/ingestion.py`, `body_limits.py`) | none | single and batch ingestion, body limit | store, authentication | nothing is written before the whole batch is valid; a repeated batch changes nothing |
| Entity projection (`store/entity_projection.py`) | entities, lineage, claims | handler | projection runtime | result independent of arrival order of event times |
| Relationship projection (`store/relationship_projection.py`) | relationships, lineage | handler | projection runtime | aggregates agree with lineage |
| Correlation (`store/correlation_*.py`) | configurations, derived relationships, derivations | registration, handler, rule evaluation | relationship checkpoint and graph | result depends on the log only, never on how far ahead the graph is |
| Attack scenes (`store/attack_scene_*.py`) | configurations, scenes, members, transitions | registration, planner, handler | all of the above | membership and state never regress; roots do not merge |
| Queries (`api/observation_queries.py`, `pagination.py`, `get_lineage` and `list_*` of `store/*_repository.py`) | none (the client keeps a cursor) | keyset pages, lineage replies | store, projections | no row present throughout is skipped or repeated; a composed reply lacks nothing it refers to |
| Schema and ontology | none | validation | every handler | pure functions of one value |
| Application, health, settings | configuration | wiring, readiness | store | readiness means usable |
| Scenario replay and `SceneBuilder` (`api/scene.py`) | one scene in memory | `apply` | none | derives what the projections derive |
| Admin CLI, migrations, scripts | none | argument parsing, DDL | all | covered by the operations they call |

The hard behaviours are the transactions of the store (locks, races on unique
keys, one bounded retry, rollback after the number was allocated, a COMMIT that
is not acknowledged), calls that read the store by several statements while it
changes, batches of projection work that fail half way, projectors that read
tables others are still writing, observations that arrive in an order that is
not that of their event times, and long-lived streams whose authorization
changes.  `PROJECT.json` lists them one by one, each at its
line.

## 2. Plan

Order of work, most important behaviour first.  All of it is done.

| Module | Abstract specification | Proved |
|---|---|---|
| `ObservationIngest`: the store | `IngestLog` | yes, with the refinement |
| `SequenceReaders`: what followers of the log see | reads over `IngestLog` | yes |
| `ProjectionRunner`: the runtime of every projection | `DurableConsumer` | yes, with the refinement |
| `StreamLeases`, `ObservationStream`: the stream | | yes |
| `CollectorAccess`, `IngestionApi`: authentication and ingestion | puts over `IngestLog` | yes |
| `Registration`: projector versions | | yes |
| `Ontology`, `Projection`, `EntityProjection` | the log itself (`EntitiesMatchLineage`) | yes |
| `RelationshipProjection`, `CorrelationProjection`, `AttackSceneProjection`, `SceneReplay`, composed by `ProjectionPipeline` | functions of the log (`ExpectedDerivations`, `FollowsFrom`, `Replay`) | yes |
| `Queries`: reads beside the pipeline | | yes |

The levels meet in one place.  A put of `ObservationIngest` is one append to
`IngestLog` (`ImplementsIngestLog`), so that everything else is written over an
`IngestLog`; a batch of `ProjectionRunner` applies consecutive positions once
each (`ImplementsDurableConsumer`), so that `ProjectionPipeline` lets every
handler take its next position in one step.

## 3. Modules

**IngestLog** is the abstract store: a log that grows by one observation, whose
identifier is new, at a time.  Its `log` is what a reader of
`observation_ingest_entries` can ever see.

**ObservationIngest** is `ObservationRepository.put_with_result` run by
concurrent writers.  A variable per table holds the committed rows; `pc`,
`pos`, `staged`, `allocated` and `retried` are the position, the uncommitted
rows and the local flag of each caller.  There is one action per SQL statement,
since other transactions run between statements and never inside one.

| Code | Actions |
|---|---|
| `session.get` of the observation and the hash comparison | `LookupAbsent`, `LookupIdentical`, `LookupConflict` |
| `_ensure_evidence_matches`, `_existing_sequence` | `ReturnExisting` |
| the evidence loop | `EvidenceReused`, `EvidenceConflict`, `EvidenceAbsent`, `InsertEvidence` |
| the flushes | `InsertObservation`, `InsertLinks`, `InsertEntry` |
| `ObservationSequenceAllocator.allocate` | `Allocate` |
| `commit`, `except IntegrityError`, `except Exception` | `Commit`, `RetryAfterIntegrityError`, `RaiseIntegrityError`, `ConnectionLost` |
| PostgreSQL | `WaitsFor`, `KeyTaken`, `DeadlockVictim`, `CommitUnacknowledged` |

PostgreSQL is modelled from how the code relies on it (READ COMMITTED, unique
keys, row locks, deadlock detection).  A row is its key and payload hash, which
is all the code compares.

**SequenceReaders** drives `read_sequence_page` (a `Poller`) and
`scan_scoped_sequence_page` (a `Scanner`) over an `IngestLog`, statement by
statement.  The caller's cursor and everything it received are state, so the
properties speak about the whole history of pages and not about one of them.
The position a call reads, the rows and `has_more` are the operators
`Rows`, `Page`, `NextPosition` and `HasMore`.

**DurableConsumer** is the abstract projection: the effects of a growing prefix
of the log, and a status.

**ProjectionRunner** is `run_batch` with `register_projector`,
`pause_projector` and `resume_projector`, run by several processes for one
projector.  `checkpoint`, `failures` and `effects` are committed rows;
`work[r]` is the uncommitted copy inside the batch of process `r`.  An item
succeeds, is poisoned (`ProjectionHandlerError` or an unexpected exception:
savepoint undone, failure recorded, batch ends) or aborts the batch
(`ProjectionInvariantError`, `SQLAlchemyError`: everything undone).  The handler
is arbitrary: its effect is the position it was applied to.

**StreamLeases** is `ObservationStreamConnectionLimiter` with the leases of
concurrent requests in one process.  `total` and `per_collector` are its
counters, `released[r]` the flag of the lease of request `r`, `generator[r]`
the event generator, which can outlive its request.  Three places release a
lease: `PreflightFails` (the `except` clause), `GeneratorEnds` and `Finalize`
(the `finally` clause of the generator, run at its end or when the event loop
closes an abandoned one) and `Background` (the response's background task).
`try_acquire` and `release` are single steps: nothing suspends a coroutine
while it holds the limiter's lock.

**ObservationStream** is one collector's stream.  The server side is the
coroutine `ObservationStreamRuntime.events`; the code between two suspensions
is one step.  The rest of the world appends observations (over `IngestLog`),
deactivates and reactivates the principal, breaks the connection, and lets time
pass.

| Code | Actions |
|---|---|
| `stream_observations`: authentication, lease, high watermark | `Connect`, `Preflight` |
| first `yield` | `EmitReady` |
| `revalidate_if_due` | `Permitted`, `BeginCheck`, `CheckPasses`, `CheckDenies`, `CheckFails` |
| `_scan_page` in a thread | `Scan`, `ScanFails` |
| the loop over the page and the checkpoint | `EmitObservation`, `EmitCheckpoint`, `FinishPage` |
| heartbeat and sleep | `Heartbeat`, `NoHeartbeatDue`, `WakeUp` |
| the connection and the client (external) | `Receive`, `Disconnect`, `StreamOver` |

`position` and what is left of `page` are the coroutine's; `auth_left` is
`next_auth` as ticks still to go, `elapsed` the ticks since a revalidation read
the clock; `wire` holds what was yielded and not yet read.  The client keeps
`cursor`, the id of the last event that had one, and sends it when it comes
back.  A scan is one step here, its statements being the subject of
`SequenceReaders`; the time it takes passes before it.  When a heartbeat is due
is left open.  After a disconnection the abandoned coroutine is not followed:
nobody receives what it yields.

**CollectorAccess** is `CollectorRepository` against
`CollectorAuthenticator.authenticate`.  An administrator's call is one step; an
attempt is a transaction that reads the credential (`ReadCredential`), reads the
collector and decides (`Decide`), and stamps the credential and commits its
audit event (`Accept`), so that revocations fall between.  `barred` and
`disabled` in an attempt are history: what was so when it began.  The ORM
writes back only the column it assigned (`Stamped`).

**IngestionApi** extends it with the two routes: the body limit (`Refuse`, and
`Sent`, which withholds the reply to a body that was cut), parsing, which comes
before authentication because the framework resolves the body with the
dependencies, `RunAuthentication` with the scope and ontology checks of all
items (`Prevalidated`), and `PutItem`, each a transaction of its own.
`PutFails` may have committed the item.  A body cut behind the end of its
document is handled, and answered 413.

**Registration** is `register_projector` and the two `register_projection`,
statement by statement: what is read of dependencies, of an existing
configuration, of another claimant of the graph and of the checkpoint, the
commit that a unique key may refuse, and the comparison after it.  `Bound` is
what a request asks for.  A stored configuration is compared with all of it
before the commit; after a refused commit (`raced`) a correlation registration
compares the graph version and the ruleset manifest and not the ontology
(`BoundAfterRefusal`).  A claimant that appears meanwhile is a conflict even if
it is the same configuration.

**Projection** is what the four handlers share: the log, a checkpoint and a
failure record for each, and the spans (`first_seen` to `last_ingest_sequence`)
most tables carry.  A handler that raises `ProjectionHandlerError` is an action
(`PoisonEntity`, `PoisonRelationship`); any other error rolls back and is a
stutter, the guard of the action being false.  **Ontology** has the values: the
entity types, the edges `CORE_ONTOLOGY` admits, the shape of an observation and
what the schema accepts (`Accepted`).  Attributes have any JSON type, so that a
flag has three values (`Flag`): `True`, another value that a condition takes
for true, such as `1` or `"true"`, and one it takes for false.  The identifiers
in `Blank` consist of spaces.

| Module | Code | Main operators |
|---|---|---|
| `EntityProjection` | `EntityProjectionHandler` | `ConflictingReferences`, `TypeConflict`, `Later` (the order of claims), `EntityRow` |
| `RelationshipProjection` | `RelationshipProjectionHandler` | `Direct`, `Collides` (the invariant error), `RelationshipRow` |
| `CorrelationProjection` | `CorrelationGraphReader`, `CorrelationProjectionHandler`, the three rules | `KnownBefore`, `Exploits`, `Suspicious` (`is True`, not blank), `Compromises`, `LateralMoves`, `Derivation` |
| `AttackSceneProjection` | `AttackSceneMembershipPlanner`, `AttackSceneProjectionHandler` | `Reached`, `Plan`, `Contradictory`, `Unexpected`, `Merged` |
| `SceneReplay` | `SceneBuilder.apply` | `Find`, `Suspected` (any true value), `Derive`, `EntitiesWith`, `Apply` |

`CorrelationProjection` also says what correlation must derive, of the log alone
and without its reader: `DerivedBy` is the derivation a rule makes of an
observation given the derivations before it, `ExpectedDerivations` their sum
over the log.

`SceneReplay` is the second copy of the rules, and its differences from the
first are in the model: an observation that states the relationship its rule
looks for is its own support (`SupportsItself`); COR-SEQ-002 takes any true
value of the flag and any attack source (`TakenLoosely`); and an edge the
ontology refuses ends the replay with an error (`refused`), while the durable
rules leave such a candidate out.  `ReplayMatchesProjection` names these three
and says that there is no other; `ReplayNeedsTrueFlag` is the agreement without
the second, which the tests of the evaluator ask for and the code lacks.

**ProjectionPipeline** composes them over one growing log.  One item is one
step: what a handler reads is bounded by its position, and the projectors and
their writers touch different rows, so that the statements of two items
commute.  Batches, retries, pauses and crashes are those of `ProjectionRunner`.
The `...Record` operators in the `...TypeOK` definitions are the checks, unique
keys and foreign keys of `models.py`.

**Queries** adds a reader to the pipeline: keyset pages of observations and of
entities with their cursors, one page to a step, and the three lineage replies,
one SQL statement to a step.

`MC*` modules give the small instances.  Operators introduced by a comment
beginning "Fault:" are wrong variants of the definition that follows them;
each of them violates a property and shows that the property can fail.

## 4. Runs

| Run | Question | Bounds | Answer |
|---|---|---|---|
| `ingest_conflicts` | do contradicting and repeating puts keep the store consistent, get truthful answers, look like an append-only log, and end? | 2 writers, 4 payloads: two versions of one observation, two of one evidence row, opposite evidence orders, a repeated reference | holds |
| `ingest_single_retry` | is one retry enough for expected races? | 3 writers, 3 observations sharing evidence pairwise | **no**, see below |
| `readers_pages` | do pages lose, repeat or leak rows, and is every position passed? | log of 3, page of 2, two scopes in every order | holds |
| `readers_consistency` | does the consistency error mean an inconsistent store? | log of 2 | **no**, see below |
| `runner_batches` | exactly once, in order, with matching failure records, whatever fails, and everything in the end? | 2 processes, 2 observations, batches of 1 and 2, 2 failures | holds |
| `stream_delivery` | does a client with reconnects get each of its observations once, is its cursor accepted, does a revoked one stop receiving within an interval, and is everything delivered? Are slots neither lost nor freed twice? | log of 3 in two scopes, page of 2, 2 events on the wire, interval of 2 ticks; 4 requests, 2 collectors, 3 slots, 2 per collector | holds |
| `ingestion_api` | does a revocation last, does the audit log agree with the replies, and do the replies with the store? | 2 requests, 7 submissions that overlap and contradict, 2 attempts, 1 tick | holds |
| `pipeline` | is what each projector stores a function of the log up to its checkpoint, do replay and projection agree but for what is named, and is none stuck? | up to 5 observations of an attack in every order, two of them in two forms, 4 entities, all three rules | holds |
| `pipeline_replay` | does the replay derive COR-SEQ-002 from no more than the evaluator? | 3 of 3 observations, true and string flags, a blank attack source | **no**, see below |
| `pipeline_disagreement` | is every observation that cannot be projected recorded as a failure? | 2 observations | **no**, see below |
| `queries` | are pages exact and lineage replies complete while the pipeline writes? Is whoever is told of success registered as asked, but for the exception named? | 4 observations, page of 1; 2 operators, 11 requests alike and in conflict | holds |
| `registration_race` | is whoever is told of success registered as asked, the ontology included? | 2 operators, 11 requests | **no**, see below |

Two runs hold two parts of the system each that share no variable: the slots of
a process beside the stream of one of its clients, and the registrations beside
the readers.  In each of these runs one part moves while the other is as it was
at first, which reaches every state of both, and so decides every invariant of
either, without the product of the two.  The fairness of the stream rules out
behaviours that turn to the slots for good, and leaves all those in which the
stream moves: on these its liveness is decided.

Why the bounds are enough.  Three writers are the fewest with which one put
can lose two races; two suffice for the deadlock and for every conflict.  A
page of two and a log of three give empty, partial, full-and-last and
full-and-more pages, also pages without a row in scope.  Two observations
and batches of up to two give a batch with an earlier success before a poison
item, a retry that continues with the next item, and a watermark that moves
during a batch.  Four requests for three slots reach the total limit and the
limit of one collector independently, with an abandoned generator left over.
On the stream a page of two holds own and foreign rows in any order, one event
is on the wire while the next waits or is lost, and an interval of two ticks
tells a deadline counted from before a revalidation from one counted after it.
Two requests with one credential are the fewest whose authentications and puts
interleave; the submissions have a conflict before a good item, a repeated
item, an item out of scope behind a good one, and a body cut on either side of
its end.  Two operators are the fewest that can both pass the checks and race
for a key.  The observations of the attack fire all three rules, give a
scene that is confirmed and one that grows by a relationship that is observed
and derived, event times against the order of arrival with ties, a suspicious
process whose flag is `True` or a string, an exploit attempt that precedes the
finding its rule asks for, and a poison item for both projectors that record
one.  A page of one makes every row an anchor.  `MaxLog`, `MaxAttempts`
and `MaxTime` bound logs, counters and the clock; the theorems hold for every
value of them.

`CHECK_DEADLOCK FALSE` is said where behaviours end: the log or the attempts
are bounded, a reader has read what it came for, and a pipeline that has
processed its log waits for the next observation.

**Fairness.**  `ObservationIngest` assumes strong fairness of the steps of each
writer (the database queues waiters, so a statement that becomes executable
again and again is executed) and that the deadlock detector runs.  Nothing is
assumed of `ConnectionLost`.  `SequenceReaders` assumes that callers call again
and that not every call fails; writers stop at `MaxLog`, which matters, since a
scan is refused as often as a commit falls between its first two statements.
`ProjectionRunner` starts nothing by itself: batches are run by operators
(`correlis-admin`).  `OperatorsPersist` says that they do run them with
`--retry-failed`, resume what is paused, and that poison, aborts and crashes do
not last for ever.  The last is needed: an item that aborts also rolls back the
items before it in its batch, so an abort for ever withholds its predecessors.
`ProjectionPipeline` likewise assumes weak fairness of each of the four
projectors, and nothing of the writers.

`ObservationStream` assumes that the event loop resumes a coroutine that can go
on (`Serve`), that time passes (`Tick`), and that the client reads and
reconnects.  Writers, administrators and disconnections have no fairness.
`EventuallyDelivered` is stated under `Calm`: connection breaks and database
errors stop at some time, since a client that is cut off before every event
gets nowhere.  `RevokedStreamEnds` needs no such assumption.

### What the violated runs show

* `readers_consistency`: `scan_scoped_sequence_page` compares the allocator row
  with the largest entry, read by two statements.  At READ COMMITTED a put that
  commits between them makes the scan raise
  `ObservationSequenceInvariantError` on a consistent store, and a live stream
  is closed with `stream_error`.  `store/errors.py:15` says that the error is
  raised when the state is missing or inconsistent.
* `ingest_single_retry`: a put may lose the race for one evidence identifier,
  retry, and lose another race for a second one; it then raises
  `IntegrityError`.  `docs/ARCHITECTURE.md:148` says that expected races are
  resolved and that unexpected integrity failures remain visible.  A client
  that repeats the put succeeds, and nothing is stored wrongly.
* `pipeline_disagreement`: a relationship identifier does not cover the types of
  its ends.  When a second observation of the same two identifiers and the same
  relationship names one of them with another type, and the ontology admits
  both edges, `_upsert_relationship` raises `ProjectionInvariantError`.
  `run_batch` records nothing for it, so that every later batch aborts at the
  same observation.  `docs/ARCHITECTURE.md:236` says that deterministic poison
  observations are recorded.  The entity projector records the same
  disagreement.
* `pipeline_replay`: for COR-SEQ-002 `scene.py:141` tests whether
  `suspicious_child` is true in a condition, `correlation_graph.py:348` whether
  it `is True`.  After a finding, an exploit and a process whose sensor sent the
  flag as a string, the replay has a compromise that the durable correlation,
  authoritative according to `docs/DATA_MODEL.md:271`, has not.
  `tests/test_correlation_evaluation.py:552` has the evaluator refuse `1`,
  `"true"` and `"yes"`, and line 558 a blank attack source, which the replay
  takes as well.
* `registration_race`: `register_projection` refuses a version that is
  registered with another ontology (`correlation_repository.py:103-126`).  When
  two operators with different ontologies, that is, different versions of the
  software, pass this check together, the commit of the second is refused by the
  unique key, and lines 188-193 compare the graph version and the manifest only.
  The second is told that its projector is registered; its batches are then
  refused with `CorrelationConfigurationMismatch`.

Two smaller observations have no run.  A registration of a correlation
configuration that races an identical one may be told that the graph is
claimed (`correlation_repository.py:136`); repeated, it succeeds.  And in the
pipeline `PipelineAdvances` counts a projector behind a recorded failure as
settled; with the disagreeing observations it fails, as the run above shows.

## 5. Proofs

Each theorem is for any sets of writers, processes, requests or operators, any
payloads and bounds, under these named assumptions, which say what the
constructors, settings and schema check:

* `PayloadAssumption`: an observation and its hash determine the payload,
  evidence included (SHA-256 has no collision among the payloads);
* `RunnerAssumption`, `ReadersAssumption`, `StreamAssumption`,
  `LimitsAssumption`: bounds are naturals, limits and intervals are positive,
  and the limit of one collector is at most the total;
* `AccessAssumption`, `SubmissionAssumption`: bounds are naturals, a submission
  is a nonempty sequence of observations, one for the single route;
* `RequestAssumption`: a registration names what its kind of projector needs;
* `ProjectionAssumption`: the log holds what the schema accepts: at most one
  object, relationship and attack source, no relationship without an object,
  some evidence, confidences from 0 to 100;
* `RulesetAssumption`, `QueriesAssumption`: a ruleset is a set of the three
  rules, a page has at least one row, and the order of identifiers covers those
  in the log.

`ObservationIngest_proofs` proves `TypeOK`, `SequenceGapFree`,
`EvidenceIntegrity`, `NoOrphanEvidence`, `AckedDurable`, `RefusalsJustified`
and `ImplementsIngestLog`.  None is inductive by itself.  The strengthening is
`IInv`, proved in layers, each using the ones before it:

1. types and the shape of an open transaction (`TransactionShape`: it owns a
   number exactly from the allocation to its end);
2. `Exclusive`: one transaction at a time has allocated, its number is the next
   one, and the observation it inserted is not stored by anyone else.  This is
   the lock on the allocator row, and `SequenceGapFree` follows from it at
   `Commit`;
3. `EvidenceStaged`: staged evidence is its transaction's own and under
   identifiers nobody else has, and a transaction past the loop sees all its
   references; `EvidenceIntegrity` and `NoOrphanEvidence` follow;
4. `VerifiesStored`: a put that verifies is verifying the stored payload, from
   which `AckedDurable` follows.

For the refinement `OnePayload` is added: a stored identifier has one payload,
so that the payload at each position of the log is determined (`AtPosition`)
and a commit changes nothing but its end.

`ProjectionRunner_proofs` proves `TypeOK`, `EffectsExactlyOnce`,
`FailureRecordMatches`, the action property `FailureHistoryKept` and
`ImplementsDurableConsumer`.  The strengthening is `LockExclusive` (one open
batch, pause or resume; what it read under the lock is still the committed
row), `DatabaseMatches` (committed checkpoint, failure rows and effects describe
the same position) and `BatchesMatch` (the uncommitted copy is the committed
rows plus the effects of the positions after the checkpoint).  From the last
two a commit is a `Run` of the abstract consumer, or one of its changes of
status.

`SequenceReaders_proofs` proves `TypeOK`, `ReadsExact` and `HasMoreExact`.  A
page is an interval of positions that starts after the cursor (`PageOf`), the
cursor never passes the watermark of its call nor this the log
(`CursorBehind`), and so what is received is extended by what lies between the
old cursor and the new.

`StreamLeases_proofs` proves `LeasesTypeOK`, `CountersExact`, `LeaseMatches` and
`WithinLimits` for any finite set of requests.  The counters equal the
cardinalities of the sets of leases that are out; acquiring adds one request to
these sets, a first release removes it, and a second one finds the flag set.
That a request whose preflight is still ahead has no generator
(`GeneratorShape`) keeps a late finalization from touching a lease in use.

`ObservationStream_proofs` proves `TypeOK`, `PromptRevocation`,
`DeliveredExactly` and `CursorAccepted`, for any log, page size, interval and
buffer.

* `PromptRevocation` follows from `Deadline`: while the coroutine runs, the time
  since the principal became inactive plus the time left until `next_auth` is
  at most one interval, or else the age of the stream plus that time is.  It is
  invariant because `CheckPasses` counts the new deadline from before the check.
* `DeliveredExactly` follows from `Delivery`, which describes the way of an
  observation from the log to the client: what is left of the page is the scope
  after `position` (`PageExact`); what is on the wire is the scope from the
  client's cursor to `position` (`PositionExact`), and so up to each id on it
  (`WireExact`); a stream starts with one `ready` event at the cursor of the
  client that reconnects (`StartShape`).  Losing the wire then loses nothing,
  because the next stream starts where the client stands.
* `CursorAccepted` follows from `ClientShape`: a cursor is never ahead of the log.

`IngestionApi_proofs` proves `TypeOK`, `RevokedNeverAccepted`,
`AuditMatchesReplies` and `BatchReplyTrue`.  `Honest` says that an attempt begun
with a barred credential has read that, or is going to (nothing ever clears
`revoked`); `Handled` ties the stage, results and reply of a request to the
step of its attempt; `ItemsTrue` holds because the log only grows and a
conflict stays one; `Numbered` and `Audited` say that an attempt has a number
of its own, under which the audit log has nothing before its end and then one
event.

`Registration_proofs` proves `RegistrationsAgree`: success means all that was
asked for, except the ontology of a correlation configuration whose commit was
refused.  Rows are never changed (`RowsGrow`), so that what a registration has
read of its dependencies still stands when it commits (`DependenciesStand`);
the unique keys do the rest.  `OneOntologyIsEnough` says that the exception
needs two ontologies: when all requests for a correlation configuration name
one, `RegisteredAsAsked` holds, the property that `registration_race` violates.

### The projection pipeline

`ProjectionPipeline_proofs` proves `TypeOK`, `EntitiesMatchLineage`,
`CheckpointsOrdered`, `DerivationsPrefixOnly`, `ScenesAreClosure` and
`ReplayMatchesProjection` of the pipeline, and `PagesExact` and
`LineageReplyComplete` of a reader beside it.

None of the tables' properties is inductive: a table is kept incrementally, by
a projector that reads tables which others write.  The invariant `Sound` says
of each table what it is as a function of the log and the checkpoints.

1. `Ground`: the log, and the order of the four checkpoints, from the guards
   `RelationshipCaughtUp` and `DependenciesReady`.
2. `TablesTrue`: the entity tables.  A row is described by facts that one more
   observation changes little: `Spans` (the ends of a span are attained in a
   set of positions and bound it) instead of minima and maxima, and `Shows`
   (the row has the claim of a position that no other mention replaces) instead
   of the latest claim.  That these determine the values is `SpanIsOver` and
   `NewestIsLatest`.
3. `Graph`: `At(id, m)` says that observation m made a relationship known, by
   stating it or by a derivation.  The lineage is exactly `At`
   (`LineageExact`), a row has the types, confidence and span of its positions
   (`RelationshipsTrue`), and the derivations at a position are what the rules
   make of the derivations before it (`DerivationsExact`).  The reader of
   correlation looks into a graph in which the relationship projector is ahead
   by any distance and correlation itself has written: `PriorReads` proves that
   its bound on the lineage gives exactly what was known before the trigger,
   and `CandidatesAre` that the candidates are then the derivations there must
   be.  From `DerivationsExact` to `ExpectedDerivations` is an induction over
   positions.
4. `ScenesTrue`: a stored scene is the plan of its root at the scene
   checkpoint.  Rules build on each other in two layers, so that the search of
   the planner ends after two rounds (`Rounds`, `LayerTypes`), and what it
   finds is the least closed set of the specification (`FollowsFromIs`).  A
   step of another projector adds beyond the checkpoint only (`PrefixKept`,
   `PlanKept`), and a plan merged into the plan of the position before is the
   new plan (`MergedIsPlan`): members only join, first triggers stay first.
5. `Columns`: the ranges and keys of the tables, from which with the others
   `TypeOK` follows, that is, that no row is ever refused.

Two more theorems say when a projector could be held up by an invariant error,
which rolls its item back for ever and records nothing.
`ScenePlannerNeverRefuses`: none of the planner and the handler of scenes ever
comes about.  `AgreeingTypesAreNeverRefused`: none of the relationship and the
correlation projector does as long as no two observations give one entity
different types, so that the disagreement of `pipeline_disagreement` is their
only cause.  It needs `EndsNamed`, that the graph takes the ends of a
relationship for nothing but what some observation has named them.

`NothingIsTakenBack` is an action property, proved from `Sound`: no step takes
back what clients have been shown, however late an observation arrives.
Lineage, derivations and the members and transitions of scenes stay; an entity
keeps its type and shows its claim until one later in event time replaces it;
a relationship keeps its ends and confidence in it only rises; a scene never
goes back a state.  For scenes, the handler refuses a plan that would take
back a stored member (`AttackSceneProjectionInvariantError`), and
`ScenePlannerNeverRefuses` says that no plan does.

`ReplayMatchesProjection` compares two functions of the log: `ReplayAgrees`
proves by induction over positions that the replay, unless the ontology ends
it, knows at least what correlation has derived, for any flags and attack
sources (`Suspicious` implies `Suspected`), and the same if no observation
supports itself or is taken loosely.

A reader takes several steps while the pipeline goes on.  `Grown` is what one
step of the pipeline leaves of the tables: rows stay, and what they refer to
stays with them.  A lineage reply is then complete by `ReplyTrue` (what each
statement read so far was there, and what it refers to is in the statements
after it or still to be read) and a listing by `ListTrue` (what has been
returned is strictly increasing, ends at the cursor, and holds every row of the
beginning up to it; see `Progress`).  That pages make progress rests on the
keys being in a strict order (`StrictOrder`).

The prover has no induction principle that a proof could instantiate.
Induction over positions is used in first-order form: a nonempty set of numbers
has a least one (`LeastElement`, from the well-foundedness of finite sets under
inclusion), so that a set of numbers with 0 and with the successors of its
members is all of them (`Induction`).  The recursive functions of the
specification are handled by proving that a function with their equations
exists (`ListExists`, `ReplayExists`).

### Left to TLC

Liveness, which the prover cannot treat: `PutEnds`, `EventuallyRead`,
`CatchesUp`, `EventuallyDelivered`, `RevokedStreamEnds`, `PipelineAdvances`.
Every other property that a run shows to hold is a theorem.  The safety part of
`PipelineAdvances` is one too: where observations agree on types, the theorems
about refusals prove that no guard holds a projector up once its dependencies
have caught up, and leave only that a step which is possible is taken.

## 6. Not modelled

The API application, its health probes and settings, the administration
command line, migrations and scripts: wiring and argument parsing around
operations that are modelled.  `validate_state`, the probe of the sequence, has
the race that `readers_consistency` shows for the scan.

Inside the modelled parts:

* wall-clock columns, error texts, logging and the number of columns of a row;
* the tenant: all tables are keyed by it, and every module has one;
* token cryptography (a token holds the right secret or not), the encryption of
  stream cursors and the encoding of page cursors (a cursor is what it holds),
  and the SSE encoding;
* read-only listings (`list_relationships`, `list_scenes`, the listings of
  projectors, collectors and audit events; they page by identifier as
  `list_entities` does), reads of one row, and the row limits of a lineage
  reply;
* the files scenarios are loaded from, and the attribute
  `confirmed_compromise`, which only the replay reads;
* SQLite, which the unit tests use and which has no concurrent writers;
* the overflow of the 64-bit sequence;
* a lost acknowledgement of a registration, pause or resume, which return the
  row they find when repeated.

The states `contained` and `closed` are in the model of scenes because the code
guards against leaving them, although nothing in the code sets them.  An
observation with an edge the ontology does not admit reaches the relationship
projector only when it was put without the API, which refuses it.
