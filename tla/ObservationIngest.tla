------------------------- MODULE ObservationIngest -------------------------
(***************************************************************************)
(* ObservationRepository.put_with_result run by concurrent writers (the    *)
(* API's request threads, and other processes) against one PostgreSQL      *)
(* database at READ COMMITTED.                                             *)
(*                                                                         *)
(* A put is one transaction whose statements interleave with those of the  *)
(* other writers.  The statements are the ones the ORM emits:              *)
(*                                                                         *)
(*   lookup              session.get of the observation row                *)
(*   verify              evidence and sequence of a row that already exists*)
(*   evidence            session.get of one evidence row (an evidence row  *)
(*                       added before is flushed by this query)            *)
(*   insert_evidence     INSERT of one evidence row                        *)
(*   insert_observation  INSERT of the observation row (first flush)       *)
(*   insert_links        INSERT of the observation-evidence rows           *)
(*   allocate            UPDATE of the allocator row, RETURNING its value  *)
(*   insert_entry        INSERT of the ingest entry (last flush)           *)
(*   commit              COMMIT                                            *)
(*                                                                         *)
(* A statement reads committed rows and the rows its own transaction has   *)
(* written.  An INSERT whose unique key was inserted by a transaction that *)
(* has not ended waits for that transaction; one whose key is committed    *)
(* fails with IntegrityError.  The UPDATE of the allocator row waits while *)
(* another transaction has updated it.  A cycle of waiting transactions is *)
(* broken by the database, which aborts one of them.                       *)
(*                                                                         *)
(* Rows are abstracted to what put_with_result compares: a key and the     *)
(* SHA-256 of the canonical payload.  The hash of an observation covers    *)
(* its whole payload, evidence included, hence PayloadAssumption.          *)
(***************************************************************************)
EXTENDS Naturals, Sequences, FiniteSets

CONSTANTS
    Writer,         \* concurrent callers of put_with_result
    ObservationId,  \* tenant-qualified observation identifiers
    EvidenceId,     \* tenant-qualified evidence identifiers
    Hash,           \* payload hashes
    Payload,        \* the observations clients may submit
    NoPut           \* a writer that has not been given an observation yet

EvidenceRow == [id : EvidenceId, hash : Hash]

ASSUME PayloadAssumption ==
    /\ \A p \in Payload :
          /\ p.obs \in ObservationId
          /\ p.hash \in Hash
          /\ p.evidence \in Seq(EvidenceRow) /\ p.evidence # << >>
    /\ \A p, q \in Payload : p.obs = q.obs /\ p.hash = q.hash => p = q
    /\ NoPut \notin Payload

VARIABLES
    observations,   \* committed rows of observations
    evidence,       \* committed rows of evidence_refs
    entries,        \* committed rows of observation_ingest_entries
    lastSequence,   \* committed last_sequence of the allocator row
    pc,             \* the next statement of each writer
    put,            \* the observation each writer is putting, or last put
    pos,            \* which of its evidence references comes next
    staged,         \* evidence rows its open transaction has inserted
    allocated,      \* the sequence its open transaction allocated, or 0
    retried,        \* retry_after_integrity_error
    outcome,        \* what its last put returned or raised
    acked           \* what clients were told: payloads with their sequences

database == << observations, evidence, entries, lastSequence >>
transaction == << pos, staged, allocated >>
vars == << database, pc, put, transaction, retried, outcome, acked >>

Statement == {"idle", "lookup", "verify", "evidence", "insert_evidence",
              "insert_observation", "insert_links", "allocate",
              "insert_entry", "commit"}

Outcome == {"none", "created", "existing", "observation_conflict",
            "evidence_conflict", "sequence_invariant_error",
            "integrity_error", "deadlock", "connection_lost"}

Init ==
    /\ observations = {}
    /\ evidence = {}
    /\ entries = {}
    /\ lastSequence = 0
    /\ pc = [w \in Writer |-> "idle"]
    /\ put = [w \in Writer |-> NoPut]
    /\ pos = [w \in Writer |-> 1]
    /\ staged = [w \in Writer |-> {}]
    /\ allocated = [w \in Writer |-> 0]
    /\ retried = [w \in Writer |-> FALSE]
    /\ outcome = [w \in Writer |-> "none"]
    /\ acked = {}

-----------------------------------------------------------------------------
(* Rows, keys and locks.                                                   *)

Declared(w) == put[w].evidence[pos[w]]

\* The evidence rows a statement of writer w can see.
VisibleEvidence(w) == evidence \cup staged[w]

\* Statements between the INSERT of the observation row and the end.
HoldsObservation(w) ==
    pc[w] \in {"insert_links", "allocate", "insert_entry", "commit"}

\* The transactions whose uncommitted work the next statement of w waits for.
WaitsFor(w) ==
    {x \in Writer \ {w} :
        \/ /\ pc[w] = "insert_evidence"
           /\ \E row \in staged[x] : row.id = Declared(w).id
        \/ /\ pc[w] = "insert_observation"
           /\ HoldsObservation(x) /\ put[x].obs = put[w].obs
        \/ /\ pc[w] = "allocate"
           /\ allocated[x] # 0}

\* A unique key that the next INSERT of w would repeat.  Two references to
\* one evidence identifier in an observation repeat the key of its link row.
KeyTaken(w) ==
    \/ /\ pc[w] = "insert_evidence"
       /\ \E row \in VisibleEvidence(w) : row.id = Declared(w).id
    \/ /\ pc[w] = "insert_observation"
       /\ \E p \in observations : p.obs = put[w].obs
    \/ /\ pc[w] = "insert_links"
       /\ \E i, j \in DOMAIN put[w].evidence :
             i < j /\ put[w].evidence[i].id = put[w].evidence[j].id
    \/ /\ pc[w] = "insert_entry"
       /\ \E e \in entries : e.seq = allocated[w] \/ e.obs = put[w].obs

\* The INSERT or UPDATE of w can be executed now.
Executes(w, statement) ==
    /\ pc[w] = statement
    /\ WaitsFor(w) = {}
    /\ ~KeyTaken(w)

\* Fault: numbers come from a database SEQUENCE, which does not roll back.
RollbackKeepsNumber(w) ==
    /\ pos' = [pos EXCEPT ![w] = 1]
    /\ staged' = [staged EXCEPT ![w] = {}]
    /\ allocated' = [allocated EXCEPT ![w] = 0]
    /\ lastSequence' = IF allocated[w] # 0 THEN allocated[w] ELSE lastSequence
    /\ UNCHANGED << observations, evidence, entries >>

\* Everything the open transaction of w wrote is forgotten; its locks go too.
Rollback(w) ==
    /\ pos' = [pos EXCEPT ![w] = 1]
    /\ staged' = [staged EXCEPT ![w] = {}]
    /\ allocated' = [allocated EXCEPT ![w] = 0]
    /\ UNCHANGED database

\* The call ends without having written anything.
Raise(w, error) ==
    /\ Rollback(w)
    /\ pc' = [pc EXCEPT ![w] = "idle"]
    /\ outcome' = [outcome EXCEPT ![w] = error]
    /\ UNCHANGED << put, retried, acked >>

-----------------------------------------------------------------------------
(* One put.                                                                *)

Begin(w, p) ==
    /\ pc[w] = "idle"
    /\ pc' = [pc EXCEPT ![w] = "lookup"]
    /\ put' = [put EXCEPT ![w] = p]
    /\ retried' = [retried EXCEPT ![w] = FALSE]
    /\ outcome' = [outcome EXCEPT ![w] = "none"]
    /\ UNCHANGED << database, transaction, acked >>

LookupAbsent(w) ==
    /\ pc[w] = "lookup"
    /\ \A p \in observations : p.obs # put[w].obs
    /\ pc' = [pc EXCEPT ![w] = "evidence"]
    /\ UNCHANGED << database, put, transaction, retried, outcome, acked >>

LookupIdentical(w) ==
    /\ pc[w] = "lookup"
    /\ \E p \in observations : p.obs = put[w].obs /\ p.hash = put[w].hash
    /\ pc' = [pc EXCEPT ![w] = "verify"]
    /\ UNCHANGED << database, put, transaction, retried, outcome, acked >>

LookupConflict(w) ==
    /\ pc[w] = "lookup"
    /\ \E p \in observations : p.obs = put[w].obs /\ p.hash # put[w].hash
    /\ Raise(w, "observation_conflict")

\* Fault: an existing observation is answered with the current high watermark.
ReturnExistingAtWatermark(w) ==
    /\ pc[w] = "verify"
    /\ outcome' = [outcome EXCEPT ![w] = "existing"]
    /\ acked' = acked \cup {[payload |-> put[w], seq |-> lastSequence]}
    /\ pc' = [pc EXCEPT ![w] = "idle"]
    /\ UNCHANGED << database, put, transaction, retried >>

\* The observation is stored already: its evidence is compared once more and
\* the sequence it was given is read back.
ReturnExisting(w) ==
    /\ pc[w] = "verify"
    /\ LET stored == \A i \in DOMAIN put[w].evidence :
                        put[w].evidence[i] \in evidence
           own == {e \in entries : e.obs = put[w].obs}
       IN  /\ outcome' = [outcome EXCEPT ![w] =
                             IF ~stored THEN "evidence_conflict"
                             ELSE IF own = {} THEN "sequence_invariant_error"
                             ELSE "existing"]
           /\ acked' = acked \cup
                  {[payload |-> put[w], seq |-> e.seq] :
                      e \in IF stored THEN own ELSE {}}
    /\ pc' = [pc EXCEPT ![w] = "idle"]
    /\ UNCHANGED << database, put, transaction, retried >>

\* Fault: the loop over the evidence runs once too often.
NextReferenceOffByOne(w) ==
    /\ pos' = [pos EXCEPT ![w] = @ + 1]
    /\ pc' = [pc EXCEPT ![w] = IF pos[w] <= Len(put[w].evidence)
                               THEN "evidence" ELSE "insert_observation"]

\* After the last evidence reference the observation row is inserted.
NextReference(w) ==
    /\ pos' = [pos EXCEPT ![w] = @ + 1]
    /\ pc' = [pc EXCEPT ![w] = IF pos[w] < Len(put[w].evidence)
                               THEN "evidence" ELSE "insert_observation"]

\* Fault: stored evidence is reused without comparing its hash.
EvidenceReusedById(w) ==
    /\ pc[w] = "evidence"
    /\ \E row \in VisibleEvidence(w) : row.id = Declared(w).id
    /\ NextReference(w)
    /\ UNCHANGED << database, put, staged, allocated, retried, outcome, acked >>

EvidenceReused(w) ==
    /\ pc[w] = "evidence"
    /\ Declared(w) \in VisibleEvidence(w)
    /\ NextReference(w)
    /\ UNCHANGED << database, put, staged, allocated, retried, outcome, acked >>

EvidenceConflict(w) ==
    /\ pc[w] = "evidence"
    /\ \E row \in VisibleEvidence(w) :
          row.id = Declared(w).id /\ row.hash # Declared(w).hash
    /\ Raise(w, "evidence_conflict")

EvidenceAbsent(w) ==
    /\ pc[w] = "evidence"
    /\ \A row \in VisibleEvidence(w) : row.id # Declared(w).id
    /\ pc' = [pc EXCEPT ![w] = "insert_evidence"]
    /\ UNCHANGED << database, put, transaction, retried, outcome, acked >>

\* Fault: evidence rows are committed on their own, before the observation.
InsertEvidenceAutocommit(w) ==
    /\ Executes(w, "insert_evidence")
    /\ evidence' = evidence \cup {Declared(w)}
    /\ NextReference(w)
    /\ UNCHANGED << observations, entries, lastSequence, put, staged, allocated,
                    retried, outcome, acked >>

InsertEvidence(w) ==
    /\ Executes(w, "insert_evidence")
    /\ staged' = [staged EXCEPT ![w] = @ \cup {Declared(w)}]
    /\ NextReference(w)
    /\ UNCHANGED << database, put, allocated, retried, outcome, acked >>

InsertObservation(w) ==
    /\ Executes(w, "insert_observation")
    /\ pc' = [pc EXCEPT ![w] = "insert_links"]
    /\ UNCHANGED << database, put, transaction, retried, outcome, acked >>

InsertLinks(w) ==
    /\ Executes(w, "insert_links")
    /\ pc' = [pc EXCEPT ![w] = "allocate"]
    /\ UNCHANGED << database, put, transaction, retried, outcome, acked >>

\* Fault: the number is read by a SELECT, which no other transaction delays.
AllocateUnlocked(w) ==
    /\ pc[w] = "allocate"
    /\ allocated' = [allocated EXCEPT ![w] = lastSequence + 1]
    /\ pc' = [pc EXCEPT ![w] = "insert_entry"]
    /\ UNCHANGED << database, put, pos, staged, retried, outcome, acked >>

\* ObservationSequenceAllocator.allocate: the row stays locked from here on.
Allocate(w) ==
    /\ Executes(w, "allocate")
    /\ allocated' = [allocated EXCEPT ![w] = lastSequence + 1]
    /\ pc' = [pc EXCEPT ![w] = "insert_entry"]
    /\ UNCHANGED << database, put, pos, staged, retried, outcome, acked >>

InsertEntry(w) ==
    /\ Executes(w, "insert_entry")
    /\ pc' = [pc EXCEPT ![w] = "commit"]
    /\ UNCHANGED << database, put, transaction, retried, outcome, acked >>

\* All rows of the transaction become visible at once.
Publish(w) ==
    /\ observations' = observations \cup {put[w]}
    /\ evidence' = evidence \cup staged[w]
    /\ entries' = entries \cup {[seq |-> allocated[w], obs |-> put[w].obs]}
    /\ lastSequence' = allocated[w]
    /\ pos' = [pos EXCEPT ![w] = 1]
    /\ staged' = [staged EXCEPT ![w] = {}]
    /\ allocated' = [allocated EXCEPT ![w] = 0]
    /\ pc' = [pc EXCEPT ![w] = "idle"]
    /\ UNCHANGED << put, retried >>

Commit(w) ==
    /\ pc[w] = "commit"
    /\ Publish(w)
    /\ outcome' = [outcome EXCEPT ![w] = "created"]
    /\ acked' = acked \cup {[payload |-> put[w], seq |-> allocated[w]]}

-----------------------------------------------------------------------------
(* What goes wrong.                                                        *)

\* Fault: the flag that bounds the retries is never set.
RetryWithoutBound(w) ==
    /\ WaitsFor(w) = {} /\ KeyTaken(w)
    /\ ~retried[w]
    /\ Rollback(w)
    /\ pc' = [pc EXCEPT ![w] = "lookup"]
    /\ UNCHANGED << put, retried, outcome, acked >>

\* Fault: a lost uniqueness race is reported as a conflict without comparing.
ConflictAfterIntegrityError(w) ==
    /\ WaitsFor(w) = {} /\ KeyTaken(w)
    /\ Raise(w, "observation_conflict")

\* except IntegrityError: the first one rolls back and starts over, in a new
\* transaction; the second one is raised.
RetryAfterIntegrityError(w) ==
    /\ WaitsFor(w) = {} /\ KeyTaken(w)
    /\ ~retried[w]
    /\ Rollback(w)
    /\ retried' = [retried EXCEPT ![w] = TRUE]
    /\ pc' = [pc EXCEPT ![w] = "lookup"]
    /\ UNCHANGED << put, outcome, acked >>

RaiseIntegrityError(w) ==
    /\ WaitsFor(w) = {} /\ KeyTaken(w)
    /\ retried[w]
    /\ Raise(w, "integrity_error")

\* The writers of C wait for each other in a ring.
WaitCycle(C) ==
    /\ \A x \in C : WaitsFor(x) \cap C # {}
    /\ \A x \in C : \E y \in C : x \in WaitsFor(y)

\* The database aborts one transaction of a cycle; that is an
\* OperationalError, which is raised without a retry.
DeadlockVictim(w) ==
    /\ \E C \in SUBSET Writer : w \in C /\ WaitCycle(C)
    /\ Raise(w, "deadlock")

\* The process or its connection dies before COMMIT is executed ...
ConnectionLost(w) ==
    /\ pc[w] # "idle"
    /\ Raise(w, "connection_lost")

\* ... or after, in which case the client does not learn that it was.
CommitUnacknowledged(w) ==
    /\ pc[w] = "commit"
    /\ Publish(w)
    /\ outcome' = [outcome EXCEPT ![w] = "connection_lost"]
    /\ UNCHANGED acked

-----------------------------------------------------------------------------

\* The statements of an open put.
Step(w) ==
    \/ LookupAbsent(w) \/ LookupIdentical(w) \/ LookupConflict(w)
    \/ ReturnExisting(w)
    \/ EvidenceReused(w) \/ EvidenceConflict(w) \/ EvidenceAbsent(w)
    \/ InsertEvidence(w) \/ InsertObservation(w) \/ InsertLinks(w)
    \/ Allocate(w) \/ InsertEntry(w) \/ Commit(w)
    \/ RetryAfterIntegrityError(w) \/ RaiseIntegrityError(w)

Next ==
    \E w \in Writer :
        \/ \E p \in Payload : Begin(w, p)
        \/ Step(w)
        \/ DeadlockVictim(w)
        \/ ConnectionLost(w)
        \/ CommitUnacknowledged(w)

Spec == Init /\ [][Next]_vars

\* A thread that can execute its next statement again and again eventually
\* does (the database queues the waiters of a lock), and the database's
\* deadlock detector breaks every cycle.
Fairness ==
    /\ \A w \in Writer : SF_vars(Step(w))
    /\ WF_vars(\E w \in Writer : DeadlockVictim(w))

FairSpec == Spec /\ Fairness

-----------------------------------------------------------------------------
(* What must hold.                                                         *)

TypeOK ==
    /\ observations \subseteq Payload
    /\ evidence \subseteq EvidenceRow
    /\ entries \subseteq [seq : Nat \ {0}, obs : ObservationId]
    /\ lastSequence \in Nat
    /\ pc \in [Writer -> Statement]
    /\ put \in [Writer -> Payload \cup {NoPut}]
    /\ \A w \in Writer : pc[w] # "idle" => put[w] \in Payload
    /\ pos \in [Writer -> Nat \ {0}]
    /\ \A w \in Writer :
          pc[w] \in {"evidence", "insert_evidence"}
              => pos[w] \in DOMAIN put[w].evidence
    /\ staged \in [Writer -> SUBSET EvidenceRow]
    /\ allocated \in [Writer -> Nat]
    /\ retried \in [Writer -> BOOLEAN]
    /\ outcome \in [Writer -> Outcome]
    /\ acked \subseteq [payload : Payload, seq : Nat \ {0}]

(* The committed ingest sequence has no gap and no repetition, and every   *)
(* stored observation has exactly one position in it, whatever rolled back *)
(* after it had allocated a number.  A consumer may therefore move its     *)
(* cursor to the last position it saw without ever skipping one.           *)
SequenceGapFree ==
    /\ {e.seq : e \in entries} = 1..lastSequence
    /\ \A e, f \in entries : e.seq = f.seq \/ e.obs = f.obs => e = f
    /\ {e.obs : e \in entries} = {p.obs : p \in observations}

(* Every stored observation finds, under each evidence identifier it       *)
(* declares, the metadata it was submitted with, however the writers that  *)
(* share an identifier interleave.                                         *)
EvidenceIntegrity ==
    /\ \A p \in observations : \A i \in DOMAIN p.evidence :
          p.evidence[i] \in evidence
    /\ \A row, other \in evidence : row.id = other.id => row = other

(* A put that fails half way leaves nothing behind: every evidence row     *)
(* belongs to an observation that was stored.                              *)
NoOrphanEvidence ==
    \A row \in evidence : \E p \in observations :
        \E i \in DOMAIN p.evidence : p.evidence[i] = row

(* An acknowledged observation stays stored with the payload and at the    *)
(* sequence its client was told, so every later identical retry gets the   *)
(* same answer.                                                            *)
AckedDurable ==
    \A a \in acked :
        /\ a.payload \in observations
        /\ [seq |-> a.seq, obs |-> a.payload.obs] \in entries

(* A client is refused only for a reason: the identifier it used is stored *)
(* with another payload, or its evidence identifier is stored (or declared *)
(* by the same observation) with other metadata.  Losing a race to an      *)
(* identical write is never a conflict, and an existing observation never  *)
(* lacks its evidence or its sequence.                                     *)
RefusalsJustified ==
    \A w \in Writer :
        /\ outcome[w] = "observation_conflict" =>
              \E p \in observations :
                  p.obs = put[w].obs /\ p.hash # put[w].hash
        /\ outcome[w] = "evidence_conflict" =>
              \E i \in DOMAIN put[w].evidence :
                  LET declared == put[w].evidence[i]
                      own == {put[w].evidence[j] : j \in DOMAIN put[w].evidence}
                  IN  \E row \in evidence \cup own :
                          row.id = declared.id /\ row.hash # declared.hash
        /\ outcome[w] # "sequence_invariant_error"

(* Every put ends: no writer waits for ever for a key, the allocator row   *)
(* or a retry.                                                             *)
PutEnds == \A w \in Writer : pc[w] # "idle" ~> pc[w] = "idle"

(* The log other components read: the observation at each position.        *)
CommittedLog ==
    [n \in 1..lastSequence |->
        CHOOSE p \in observations : [seq |-> n, obs |-> p.obs] \in entries]

Log == INSTANCE IngestLog WITH log <- CommittedLog

(* Seen from outside, the store is the append-only log of IngestLog: each  *)
(* transaction appends one observation or changes nothing.                 *)
ImplementsIngestLog == Log!Spec

(* docs/ARCHITECTURE.md line 148 says a uniqueness race is resolved by one *)
(* retry, and that only unexpected integrity failures remain visible.      *)
(* Repeating a key inside one observation is the unexpected failure here.  *)
ExpectedRacesResolved ==
    \A w \in Writer :
        outcome[w] = "integrity_error" =>
            \E i, j \in DOMAIN put[w].evidence :
                i < j /\ put[w].evidence[i].id = put[w].evidence[j].id

-----------------------------------------------------------------------------
(* The inductive invariant, in the parts its proof is split into.          *)

\* A transaction owns nothing before its first write, and a sequence number
\* exactly from the allocation on.
TransactionShape ==
    \A w \in Writer :
        /\ pc[w] \in {"idle", "lookup", "verify"} =>
              pos[w] = 1 /\ staged[w] = {}
        /\ allocated[w] # 0 <=> pc[w] \in {"insert_entry", "commit"}

\* The allocator row belongs to one transaction, and what it allocated is the
\* next number; so does the key of an observation that is not committed yet.
Exclusive ==
    \A w \in Writer :
        /\ allocated[w] # 0 =>
              /\ allocated[w] = lastSequence + 1
              /\ \A x \in Writer \ {w} : allocated[x] = 0
        /\ HoldsObservation(w) =>
              /\ \A p \in observations : p.obs # put[w].obs
              /\ \A x \in Writer \ {w} :
                    HoldsObservation(x) => put[x].obs # put[w].obs

\* A transaction has only its own evidence staged, under identifiers that no
\* other row has, and sees every reference it has passed.
EvidenceStaged ==
    \A w \in Writer :
        /\ \A row \in staged[w] :
              /\ \E i \in DOMAIN put[w].evidence : put[w].evidence[i] = row
              /\ \A other \in VisibleEvidence(w) :
                    row.id = other.id => row = other
              /\ \A x \in Writer \ {w} : \A other \in staged[x] :
                    row.id # other.id
        /\ pc[w] \in {"evidence", "insert_evidence"} =>
              \A i \in 1..(pos[w] - 1) :
                  put[w].evidence[i] \in VisibleEvidence(w)
        /\ pc[w] = "insert_observation" \/ HoldsObservation(w) =>
              \A i \in DOMAIN put[w].evidence :
                  put[w].evidence[i] \in VisibleEvidence(w)

\* A put goes on to verify only the very payload that is stored.
VerifiesStored == \A w \in Writer : pc[w] = "verify" => put[w] \in observations

IInv ==
    /\ TypeOK /\ TransactionShape
    /\ Exclusive /\ SequenceGapFree
    /\ EvidenceStaged /\ EvidenceIntegrity /\ NoOrphanEvidence
    /\ VerifiesStored /\ AckedDurable

=============================================================================
