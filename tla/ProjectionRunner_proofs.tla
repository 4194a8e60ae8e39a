---------------------- MODULE ProjectionRunner_proofs ----------------------
(***************************************************************************)
(* Proofs about ProjectionRunner for any number of processes, any batch    *)
(* limits and any bounds on the log and on the failures of an observation. *)
(* First the types together with the exclusion that the row lock gives,    *)
(* then the agreement of checkpoint, failure records and effects.          *)
(***************************************************************************)
EXTENDS ProjectionRunner, TLAPS

LockInv == TypeOK /\ LockExclusive

\* A call that ends without having changed a row.
LEMMA ReturnLock ==
    ASSUME LockInv, NEW r \in Runner, NEW result \in Outcome, Return(r, result)
    PROVE  LockInv'
<1>1. /\ pc' \in [Runner -> {"idle", "insert", "item", "commit", "pause", "resume"}]
      /\ pc'[r] = "idle" /\ \A x \in Runner \ {r} : pc'[x] = pc[x]
      /\ work' \in [Runner -> Work \cup {NoWork}]
      /\ \A x \in Runner \ {r} : work'[x] = work[x]
      /\ outcome' \in [Runner -> Outcome]
      /\ UNCHANGED << log, checkpoint, failures, effects >>
  BY DEF LockInv, TypeOK, Return, database
<1>2. TypeOK'
  BY <1>1 DEF LockInv, TypeOK, Store!LogTypeOK
<1>3. LockExclusive'
  BY <1>1 DEF LockInv, LockExclusive, HoldsLock, Open, Registered
<1>4. QED
  BY <1>2, <1>3 DEF LockInv

\* The observation the loop takes next has a position of the log.
LEMMA ItemTypes ==
    ASSUME LockInv, NEW r \in Runner, HandlerRuns(r)
    PROVE  /\ work[r] \in Work /\ NextItem(r) \in Position
           /\ NextItem(r) = work[r].checkpoint.last + 1
           /\ work[r].left - 1 \in 0..500
           /\ work[r].failures[NextItem(r)] \in FailureRow
<1>1. work[r] \in Work
  BY DEF LockInv, TypeOK, HandlerRuns
<1>2. NextItem(r) \in Position
  BY <1>1, RunnerAssumption
  DEF HandlerRuns, MoreItems, NextItem, Work, Checkpoint, Position
<1>3. work[r].left - 1 \in 0..500
  <2>1. work[r].left \in 0..500 /\ work[r].left > 0
    BY <1>1 DEF Work, HandlerRuns, MoreItems
  <2>2. QED
    BY <2>1
<1>4. work[r].failures[NextItem(r)] \in FailureRow
  BY <1>1, <1>2 DEF Work
<1>5. QED
  BY <1>1, <1>2, <1>3, <1>4 DEF NextItem

\* The working copy after an item that succeeded, and after a poison one.
LEMMA SucceededType ==
    ASSUME LockInv, NEW r \in Runner, ItemSucceeds(r)
    PROVE  WorkAfterSuccess(r) \in Work
<1>1. /\ work[r] \in Work /\ NextItem(r) \in Position
      /\ work[r].left - 1 \in 0..500
      /\ work[r].failures[NextItem(r)] \in FailureRow
  BY ItemTypes DEF ItemSucceeds
<1>2. [last |-> NextItem(r), status |-> "idle", failure |-> 0] \in Checkpoint
  BY <1>1, RunnerAssumption DEF Checkpoint, Position, Status
<1>3. ResolvedFailures(r) \in [Position -> FailureRow]
  <2>1. work[r].failures \in [Position -> FailureRow]
    BY <1>1 DEF Work
  <2>2. [work[r].failures[NextItem(r)] EXCEPT !.status = "resolved"] \in FailureRow
    BY <1>1 DEF FailureRow, FailureStatus
  <2>3. QED
    BY <1>1, <2>1, <2>2 DEF ResolvedFailures
<1>4. Append(work[r].added, NextItem(r)) \in Seq(Position)
  BY <1>1 DEF Work
<1>5. work[r].high \in 0..MaxLog
  BY <1>1 DEF Work
<1>6. QED
  BY <1>1, <1>2, <1>3, <1>4, <1>5 DEF WorkAfterSuccess, Work

LEMMA PoisonedType ==
    ASSUME LockInv, NEW r \in Runner, ItemPoisoned(r)
    PROVE  WorkAfterPoison(r) \in Work
<1>1. /\ work[r] \in Work /\ NextItem(r) \in Position
      /\ work[r].failures[NextItem(r)] \in FailureRow
  BY ItemTypes DEF ItemPoisoned
<1>2. [last |-> work[r].checkpoint.last, status |-> "failed",
       failure |-> NextItem(r)] \in Checkpoint
  BY <1>1, RunnerAssumption DEF Work, Checkpoint, Position, Status
<1>3. [work[r].failures EXCEPT ![NextItem(r)] = FailedAgain(@)]
         \in [Position -> FailureRow]
  <2>1. work[r].failures \in [Position -> FailureRow]
    BY <1>1 DEF Work
  <2>2. FailedAgain(work[r].failures[NextItem(r)]) \in FailureRow
    BY <1>1, RunnerAssumption
    DEF ItemPoisoned, FailedAgain, FailureRow, FailureStatus
  <2>3. QED
    BY <1>1, <2>1, <2>2
<1>4. work[r].added \in Seq(Position) /\ work[r].high \in 0..MaxLog
      /\ work[r].left \in 0..500
  BY <1>1 DEF Work
<1>5. QED
  BY <1>2, <1>3, <1>4 DEF WorkAfterPoison, EffectsAfterPoison, Work

\* A process that moves on and leaves the committed rows alone.
LEMMA MoveLock ==
    ASSUME LockInv, NEW r \in Runner, UNCHANGED << log, database, outcome >>,
           NEW s \in {"insert", "item", "commit", "pause", "resume"},
           pc' = [pc EXCEPT ![r] = s],
           s # "insert" =>
              /\ Registered
              /\ \A x \in Runner \ {r} : ~HoldsLock(x),
           s \in {"item", "commit"} =>
              work'[r] \in Work /\ checkpoint.status # "paused",
           s = "pause" => checkpoint.status = "idle",
           s = "resume" => checkpoint.status = "paused",
           work'[r] \in Work \cup {NoWork},
           work' = [work EXCEPT ![r] = work'[r]]
    PROVE  LockInv'
<1>1. /\ pc' \in [Runner -> {"idle", "insert", "item", "commit", "pause", "resume"}]
      /\ pc'[r] = s /\ \A x \in Runner \ {r} : pc'[x] = pc[x]
      /\ work' \in [Runner -> Work \cup {NoWork}]
      /\ \A x \in Runner \ {r} : work'[x] = work[x]
  BY DEF LockInv, TypeOK
<1>2. TypeOK'
  BY <1>1 DEF LockInv, TypeOK, Store!LogTypeOK, database
<1>3. LockExclusive'
  BY <1>1 DEF LockInv, LockExclusive, HoldsLock, Open, Registered, database
<1>4. QED
  BY <1>2, <1>3 DEF LockInv

\* COMMIT, of a batch, a registration, a pause or a resume: the lock is free.
LEMMA CommitLock ==
    ASSUME LockInv, NEW r \in Runner, UNCHANGED log,
           HoldsLock(r) \/ ~Registered \/ checkpoint' = checkpoint,
           checkpoint' \in Checkpoint,
           failures' \in [Position -> FailureRow], effects' \in Seq(Position),
           pc' = [pc EXCEPT ![r] = "idle"],
           work' \in [Runner -> Work \cup {NoWork}],
           \A x \in Runner \ {r} : work'[x] = work[x],
           outcome' \in [Runner -> Outcome]
    PROVE  LockInv'
<1>1. /\ pc' \in [Runner -> {"idle", "insert", "item", "commit", "pause", "resume"}]
      /\ pc'[r] = "idle" /\ \A x \in Runner \ {r} : pc'[x] = pc[x]
  BY DEF LockInv, TypeOK
<1>2. TypeOK'
  BY <1>1 DEF LockInv, TypeOK, Store!LogTypeOK
<1>3. Registered'
  BY RunnerAssumption DEF Registered
<1>4. \A x \in Runner : HoldsLock(x)' => checkpoint' = checkpoint
  BY <1>1 DEF LockInv, LockExclusive, HoldsLock
<1>5. LockExclusive'
  BY <1>1, <1>3, <1>4 DEF LockInv, LockExclusive, HoldsLock, Open
<1>6. QED
  BY <1>2, <1>5 DEF LockInv

LEMMA PublishLock ==
    ASSUME LockInv, NEW r \in Runner, BatchEnds(r), Publish(r), UNCHANGED log,
           pc' = [pc EXCEPT ![r] = "idle"],
           work' = [work EXCEPT ![r] = NoWork],
           outcome' \in [Runner -> Outcome]
    PROVE  LockInv'
<1>1. work[r] \in Work /\ HoldsLock(r)
  BY DEF BatchEnds, LockInv, TypeOK, HoldsLock
<1>2. /\ checkpoint' \in Checkpoint
      /\ failures' \in [Position -> FailureRow]
      /\ effects' \in Seq(Position)
  BY <1>1 DEF Publish, Work, LockInv, TypeOK
<1>3. /\ work' \in [Runner -> Work \cup {NoWork}]
      /\ \A x \in Runner \ {r} : work'[x] = work[x]
  BY DEF LockInv, TypeOK
<1>4. QED
  BY <1>1, <1>2, <1>3, CommitLock

LEMMA LockStep == LockInv /\ [Next]_vars => LockInv'
<1> SUFFICES ASSUME LockInv, [Next]_vars PROVE LockInv'
  OBVIOUS
<1>1. ASSUME NEW p \in Payload, AppendObservation(p) PROVE LockInv'
  <2>1. log \in Seq(Payload) /\ log' = Append(log, p)
    BY <1>1 DEF AppendObservation, Store!AppendObservation, LockInv, TypeOK,
                Store!LogTypeOK
  <2>2. log' \in Seq(Payload) /\ Len(log') <= MaxLog
    BY <1>1, <2>1, RunnerAssumption DEF AppendObservation
  <2>3. TypeOK'
    BY <1>1, <2>2
    DEF AppendObservation, LockInv, TypeOK, Store!LogTypeOK, database
  <2>4. LockExclusive'
    BY <1>1 DEF AppendObservation, LockInv, LockExclusive, HoldsLock, Open,
                Registered, database
  <2>5. QED
    BY <2>3, <2>4 DEF LockInv
<1>2. ASSUME NEW r \in Runner,
             \/ RegisterExisting(r) \/ NotRegistered(r) \/ Busy(r)
             \/ RunPaused(r) \/ RunBlocked(r) \/ BatchAborted(r) \/ Crash(r)
      PROVE LockInv'
  BY <1>2, ReturnLock
  DEF RegisterExisting, NotRegistered, Busy, RunPaused, RunBlocked,
      BatchAborted, Crash, Outcome
<1>3. ASSUME NEW r \in Runner, RegisterAbsent(r) PROVE LockInv'
  BY <1>3, MoveLock DEF RegisterAbsent, LockInv, TypeOK
<1>4. ASSUME NEW r \in Runner, InsertCheckpoint(r) PROVE LockInv'
  <2>1. checkpoint' \in Checkpoint /\ (~Registered \/ checkpoint' = checkpoint)
    BY <1>4, RunnerAssumption
    DEF InsertCheckpoint, FreshCheckpoint, Checkpoint, Status, Registered,
        LockInv, TypeOK
  <2>2. outcome' \in [Runner -> Outcome]
    BY <1>4 DEF InsertCheckpoint, LockInv, TypeOK, Outcome
  <2>3. QED
    BY <1>4, <2>1, <2>2, CommitLock DEF InsertCheckpoint, LockInv, TypeOK
<1>5. ASSUME NEW r \in Runner, NEW limit \in BatchLimit, StartBatch(r, limit)
      PROVE LockInv'
  <2>1. CASE CheckpointValid
    <3> DEFINE new == [checkpoint |-> checkpoint, failures |-> failures,
                       added |-> << >>, high |-> Len(log), left |-> limit]
    <3>1. new \in Work
      BY <1>5, RunnerAssumption
      DEF StartBatch, Locks, Registered, LockInv, TypeOK, Store!LogTypeOK, Work
    <3>2. /\ work' = [work EXCEPT ![r] = new] /\ work'[r] = new
          /\ pc' = [pc EXCEPT ![r] = "item"]
          /\ UNCHANGED << log, database, outcome >>
      BY <1>5, <2>1 DEF StartBatch, LockInv, TypeOK
    <3> HIDE DEF new
    <3>3. QED
      BY <1>5, <3>1, <3>2, MoveLock DEF StartBatch, Locks, LockAvailable
  <2>2. CASE ~CheckpointValid
    BY <1>5, <2>2, ReturnLock DEF StartBatch, Outcome
  <2>3. QED
    BY <2>1, <2>2
<1>6. ASSUME NEW r \in Runner, ItemSucceeds(r) PROVE LockInv'
  <2>1. pc[r] = "item" /\ pc' = [pc EXCEPT ![r] = "item"]
    BY <1>6 DEF ItemSucceeds, HandlerRuns, LockInv, TypeOK
  <2>2. work'[r] \in Work /\ work' = [work EXCEPT ![r] = work'[r]]
    BY <1>6, SucceededType DEF ItemSucceeds, LockInv, TypeOK
  <2>3. QED
    BY <1>6, <2>1, <2>2, MoveLock
    DEF ItemSucceeds, LockInv, LockExclusive, HoldsLock, Open
<1>7. ASSUME NEW r \in Runner, ItemPoisoned(r) PROVE LockInv'
  <2>1. pc[r] = "item" /\ pc' = [pc EXCEPT ![r] = "commit"]
    BY <1>7 DEF ItemPoisoned, HandlerRuns, LockInv, TypeOK
  <2>2. work'[r] \in Work /\ work' = [work EXCEPT ![r] = work'[r]]
    BY <1>7, PoisonedType DEF ItemPoisoned, LockInv, TypeOK
  <2>3. QED
    BY <1>7, <2>1, <2>2, MoveLock
    DEF ItemPoisoned, LockInv, LockExclusive, HoldsLock, Open
<1>8. ASSUME NEW r \in Runner, CommitBatch(r) \/ CommitUnacknowledged(r)
      PROVE LockInv'
  BY <1>8, PublishLock
  DEF CommitBatch, CommitUnacknowledged, LockInv, TypeOK, Outcome
<1>9. ASSUME NEW r \in Runner, LockForPause(r) \/ LockForResume(r)
      PROVE LockInv'
  <2>1. CASE pc'[r] = "idle"
    BY <1>9, <2>1, ReturnLock
    DEF LockForPause, LockForResume, Outcome, LockInv, TypeOK
  <2>2. CASE pc'[r] # "idle"
    BY <1>9, <2>2, MoveLock
    DEF LockForPause, LockForResume, Return, Locks, LockAvailable, LockInv,
        TypeOK
  <2>3. QED
    BY <2>1, <2>2
<1>10. ASSUME NEW r \in Runner, CommitPause(r) \/ CommitResume(r)
       PROVE LockInv'
  <2>1. HoldsLock(r) /\ Registered
    BY <1>10 DEF CommitPause, CommitResume, HoldsLock, LockInv, LockExclusive
  <2>2. checkpoint' \in Checkpoint
    BY <1>10, <2>1
    DEF CommitPause, CommitResume, Registered, Checkpoint, Status, LockInv, TypeOK
  <2>3. outcome' \in [Runner -> Outcome]
    BY <1>10 DEF CommitPause, CommitResume, LockInv, TypeOK, Outcome
  <2>4. QED
    BY <1>10, <2>1, <2>2, <2>3, CommitLock
    DEF CommitPause, CommitResume, LockInv, TypeOK
<1>11. CASE UNCHANGED vars
  BY <1>11 DEF LockInv, TypeOK, LockExclusive, HoldsLock, Open, Registered,
               Store!LogTypeOK, vars, database
<1>12. QED
  BY <1>1, <1>2, <1>3, <1>4, <1>5, <1>6, <1>7, <1>8, <1>9, <1>10, <1>11
  DEF Next, RunnerStep, Proceed

LEMMA InitialLock == Init => LockInv
<1> SUFFICES ASSUME Init PROVE LockInv
  OBVIOUS
<1>1. TypeOK
  BY RunnerAssumption
  DEF Init, TypeOK, Store!Init, Store!LogTypeOK, FailureRow, FailureStatus,
      Outcome
<1>2. LockExclusive
  BY DEF Init, LockExclusive, HoldsLock, Open
<1>3. QED
  BY <1>1, <1>2 DEF LockInv

(* The type invariant of the projection runtime: every position it ever    *)
(* processes or records as failed is one of the log's.                     *)
THEOREM TypeCorrect == Spec => []TypeOK
<1>1. LockInv => TypeOK
  BY DEF LockInv
<1>2. QED
  BY <1>1, InitialLock, LockStep, PTL DEF Spec

-----------------------------------------------------------------------------
(* Checkpoint, failure records and effects.                                *)

\* Nothing that an open batch of x depends on changes.
LEMMA BatchUnchanged ==
    ASSUME BatchesMatch, LockInv, NEW x \in Runner, Open(x)',
           UNCHANGED database, pc'[x] = pc[x], work'[x] = work[x],
           Len(log') \in Nat, Len(log) <= Len(log')
    PROVE  BatchMatches(x)'
<1>1. BatchMatches(x)
  BY DEF BatchesMatch, Open
<1>2. work[x].high \in Nat /\ Len(log) \in Nat
  BY RunnerAssumption
  DEF Open, LockInv, TypeOK, Work, Store!LogTypeOK
<1>3. QED
  BY <1>1, <1>2 DEF BatchMatches, Matches, ActiveFailures, database

\* The committed rows stay, and the log only grows.
LEMMA DatabaseUnchanged ==
    ASSUME DatabaseMatches, LockInv, UNCHANGED database,
           Len(log') \in Nat, Len(log) <= Len(log')
    PROVE  DatabaseMatches'
<1>1. Registered => checkpoint.last \in Nat /\ checkpoint.failure \in Nat
  BY RunnerAssumption DEF Registered, LockInv, TypeOK, Checkpoint
<1>2. Len(log) \in Nat
  BY DEF LockInv, TypeOK, Store!LogTypeOK
<1>3. QED
  BY <1>1, <1>2
  DEF DatabaseMatches, Matches, ActiveFailures, Registered, Processed, database

\* A step of r that changes no committed row and opens no batch.
LEMMA QuietStep ==
    ASSUME LockInv, DatabaseMatches, BatchesMatch, NEW r \in Runner,
           UNCHANGED << log, database >>, ~Open(r)',
           \A x \in Runner \ {r} : pc'[x] = pc[x] /\ work'[x] = work[x]
    PROVE  DatabaseMatches' /\ BatchesMatch'
<1>1. Len(log') \in Nat /\ Len(log) <= Len(log')
  BY DEF LockInv, TypeOK, Store!LogTypeOK
<1>2. DatabaseMatches'
  BY <1>1, DatabaseUnchanged
<1>3. ASSUME NEW x \in Runner, Open(x)' PROVE BatchMatches(x)'
  BY <1>1, <1>3, BatchUnchanged
<1>4. QED
  BY <1>2, <1>3 DEF BatchesMatch

LEMMA SuccessMatches ==
    ASSUME LockInv, NEW r \in Runner, BatchMatches(r), ItemSucceeds(r),
           checkpoint \in Checkpoint
    PROVE  BatchMatches(r)'
<1> DEFINE row == work[r].checkpoint
           records == work[r].failures
           n == row.last + 1
<1>1. /\ work'[r] = WorkAfterSuccess(r) /\ pc' = pc /\ pc[r] = "item"
      /\ UNCHANGED << log, checkpoint, failures, effects >>
  BY DEF ItemSucceeds, HandlerRuns, LockInv, TypeOK, database
<1>2. /\ work[r] \in Work /\ n \in Position /\ n <= work[r].high
      /\ NextItem(r) = n
  BY ItemTypes, RunnerAssumption
  DEF ItemSucceeds, HandlerRuns, MoreItems, Work, Checkpoint, Position
<1>3. records \in [Position -> FailureRow] /\ row.last \in Nat
      /\ work[r].high \in Nat /\ checkpoint.last \in Nat
  BY <1>2, RunnerAssumption DEF Work, Checkpoint
<1>4. /\ ActiveFailures(ResolvedFailures(r)) = {}
      /\ \A m \in Position :
            /\ ResolvedFailures(r)[m].attempts = records[m].attempts
            /\ m # n => ResolvedFailures(r)[m] = records[m]
            /\ ResolvedFailures(r)[m].status = "absent"
                  => records[m].status = "absent"
  BY <1>2, <1>3
  DEF BatchMatches, Matches, ActiveFailures, ResolvedFailures, Retrying,
      FailureRow
<1>5. Append(work[r].added, n) = [i \in 1..(n - checkpoint.last) |->
                                    checkpoint.last + i]
  <2> DEFINE k == row.last - checkpoint.last
  <2>1. k \in Nat /\ n - checkpoint.last = k + 1 /\ n = checkpoint.last + (k + 1)
    BY <1>3 DEF BatchMatches
  <2>2. work[r].added = [i \in 1..k |-> checkpoint.last + i]
    BY DEF BatchMatches
  <2> HIDE DEF k
  <2>3. Append([i \in 1..k |-> checkpoint.last + i], checkpoint.last + (k + 1))
           = [i \in 1..(k + 1) |-> checkpoint.last + i]
    BY <1>3, <2>1
  <2>4. QED
    BY <2>1, <2>2, <2>3
<1>6. \A m \in Position : failures[m].status = "resolved" => m # n
  BY <1>3 DEF BatchMatches, Keeps
<1>7. /\ work'[r].checkpoint = [last |-> n, status |-> "idle", failure |-> 0]
      /\ work'[r].failures = ResolvedFailures(r)
      /\ work'[r].added = Append(work[r].added, n)
      /\ work'[r].high = work[r].high
  BY <1>1, <1>2 DEF WorkAfterSuccess
<1>8. Matches(work'[r].checkpoint, work'[r].failures, work'[r].high)
  BY <1>2, <1>4, <1>7 DEF Matches
<1>9. \A m \in Position :
         /\ Keeps(failures[m], work'[r].failures[m])
         /\ work'[r].failures[m].status = "resolved" => m <= n
  <2>1. \A m \in Position :
           /\ Keeps(failures[m], records[m])
           /\ records[m].status = "resolved" => m <= row.last
    BY DEF BatchMatches
  <2>2. \A m \in Position : m <= row.last => m <= n
    BY <1>3 DEF Position
  <2>3. QED
    BY <1>2, <1>3, <1>4, <1>6, <1>7, <2>1, <2>2 DEF Keeps
<1>10. /\ n >= checkpoint.last /\ n # checkpoint.last
       /\ work[r].high <= Len(log)
  BY <1>3 DEF BatchMatches
<1>11. /\ work'[r].checkpoint.last = n
       /\ work'[r].checkpoint.status = "idle"
  BY <1>7
<1> HIDE DEF n, row, records
<1>12. QED
  BY <1>1, <1>5, <1>7, <1>8, <1>9, <1>10, <1>11 DEF BatchMatches

LEMMA PoisonMatches ==
    ASSUME LockInv, NEW r \in Runner, BatchMatches(r), ItemPoisoned(r),
           checkpoint \in Checkpoint
    PROVE  BatchMatches(r)'
<1> DEFINE row == work[r].checkpoint
           records == work[r].failures
           n == row.last + 1
<1>1. /\ work'[r] = WorkAfterPoison(r)
      /\ UNCHANGED << log, checkpoint, failures, effects >>
  BY DEF ItemPoisoned, LockInv, TypeOK, database
<1>2. /\ work[r] \in Work /\ n \in Position /\ n <= work[r].high
      /\ NextItem(r) = n
  BY ItemTypes, RunnerAssumption
  DEF ItemPoisoned, HandlerRuns, MoreItems, Work, Checkpoint, Position
<1>3. records \in [Position -> FailureRow] /\ row.last \in Nat
      /\ work[r].high \in Nat /\ checkpoint.last \in Nat
  BY <1>2, RunnerAssumption DEF Work, Checkpoint
<1>4. /\ work'[r].checkpoint = [last |-> row.last, status |-> "failed", failure |-> n]
      /\ work'[r].failures = [records EXCEPT ![n] = FailedAgain(@)]
      /\ work'[r].added = work[r].added
      /\ work'[r].high = work[r].high
  BY <1>1, <1>2 DEF WorkAfterPoison, EffectsAfterPoison
<1>5. /\ work'[r].failures[n].status = "active"
      /\ work'[r].failures[n].attempts = records[n].attempts + 1
      /\ records[n].attempts \in Nat
      /\ \A m \in Position \ {n} : work'[r].failures[m] = records[m]
  BY <1>2, <1>3, <1>4, RunnerAssumption DEF FailedAgain, FailureRow
<1>6. ActiveFailures(work'[r].failures) = {n}
  BY <1>2, <1>5 DEF ActiveFailures, BatchMatches, Matches
<1>7. Matches(work'[r].checkpoint, work'[r].failures, work'[r].high)
  BY <1>2, <1>3, <1>4, <1>6 DEF Matches
<1>8. \A m \in Position :
         /\ Keeps(failures[m], work'[r].failures[m])
         /\ work'[r].failures[m].status = "resolved" => m <= row.last
  <2>1. \A m \in Position :
           /\ Keeps(failures[m], records[m])
           /\ records[m].status = "resolved" => m <= row.last
    BY DEF BatchMatches
  <2>2. failures[n].status # "resolved"
    BY <1>2, <1>3, <2>1 DEF Keeps
  <2>3. work'[r].failures[n].attempts >= failures[n].attempts
    <3>1. failures[n].attempts \in Nat
      BY <1>2, RunnerAssumption DEF LockInv, TypeOK, FailureRow
    <3>2. QED
      BY <1>2, <1>5, <2>1, <3>1 DEF Keeps
  <2>4. QED
    BY <1>5, <2>1, <2>2, <2>3 DEF Keeps
<1>9. /\ work'[r].checkpoint.last = row.last
      /\ work'[r].checkpoint.status = "failed"
  BY <1>4
<1>10. /\ row.last >= checkpoint.last /\ work[r].high <= Len(log)
       /\ work[r].added = [i \in 1..(row.last - checkpoint.last) |->
                             checkpoint.last + i]
  BY DEF BatchMatches
<1> HIDE DEF n, row, records
<1>11. QED
  BY <1>1, <1>4, <1>7, <1>8, <1>9, <1>10 DEF BatchMatches

LEMMA PublishMatches ==
    ASSUME LockInv, DatabaseMatches, BatchesMatch, NEW r \in Runner,
           BatchEnds(r), Publish(r), UNCHANGED log,
           pc' = [pc EXCEPT ![r] = "idle"]
    PROVE  DatabaseMatches' /\ BatchesMatch'
<1> DEFINE row == work[r].checkpoint
<1>1. /\ work[r] \in Work /\ Open(r) /\ BatchMatches(r) /\ HoldsLock(r)
  BY DEF BatchEnds, LockInv, TypeOK, BatchesMatch, Open, HoldsLock
<1>2. BatchesMatch'
  <2>1. \A x \in Runner : ~Open(x)'
    BY <1>1 DEF LockInv, TypeOK, LockExclusive, HoldsLock, Open
  <2>2. QED
    BY <2>1 DEF BatchesMatch
<1>3. /\ checkpoint' = row /\ failures' = work[r].failures
      /\ effects' = effects \o work[r].added
      /\ Registered /\ Registered'
      /\ row \in Checkpoint /\ checkpoint \in Checkpoint
  BY <1>1, RunnerAssumption
  DEF Publish, Work, Registered, LockInv, TypeOK, LockExclusive
<1>4. /\ row.last \in Nat /\ checkpoint.last \in Nat /\ work[r].high \in Nat
      /\ Len(log) \in Nat /\ row.failure \in Nat
  BY <1>1, <1>3, RunnerAssumption
  DEF Checkpoint, Work, LockInv, TypeOK, Store!LogTypeOK
<1>5. Matches(checkpoint', failures', Len(log)')
  BY <1>1, <1>3, <1>4 DEF BatchMatches, Matches
<1>6. effects' = [n \in 1..row.last |-> n]
  <2> DEFINE k == checkpoint.last
             d == row.last - checkpoint.last
  <2>1. k \in Nat /\ d \in Nat /\ k + d = row.last
    BY <1>1, <1>4 DEF BatchMatches
  <2>2. effects = [n \in 1..k |-> n] /\ work[r].added = [i \in 1..d |-> k + i]
    BY <1>1, <1>3 DEF DatabaseMatches, Processed, BatchMatches
  <2> HIDE DEF k, d
  <2>3. [n \in 1..k |-> n] \o [i \in 1..d |-> k + i] = [n \in 1..(k + d) |-> n]
    BY <2>1
  <2>4. QED
    BY <1>3, <2>1, <2>2, <2>3
<1>7. \A n \in Position : failures'[n].status = "resolved" => n <= row.last
  BY <1>1, <1>3 DEF BatchMatches
<1>8. Processed' = row.last
  BY <1>3 DEF Processed
<1>9. QED
  BY <1>2, <1>3, <1>5, <1>6, <1>7, <1>8 DEF DatabaseMatches

\* A batch starts from the committed rows.
LEMMA StartMatches ==
    ASSUME LockInv, DatabaseMatches, BatchesMatch, NEW r \in Runner,
           NEW limit \in BatchLimit, StartBatch(r, limit), CheckpointValid
    PROVE  DatabaseMatches' /\ BatchesMatch'
<1>1. /\ Registered /\ checkpoint \in Checkpoint
      /\ checkpoint.status # "paused"
      /\ UNCHANGED << log, database >>
      /\ pc'[r] = "item"
      /\ work'[r] = [checkpoint |-> checkpoint, failures |-> failures,
                     added |-> << >>, high |-> Len(log), left |-> limit]
      /\ \A x \in Runner \ {r} : pc'[x] = pc[x] /\ work'[x] = work[x]
  BY DEF StartBatch, Locks, Registered, LockInv, TypeOK
<1>2. /\ Len(log') \in Nat /\ Len(log) <= Len(log') /\ checkpoint.last \in Nat
  BY <1>1, RunnerAssumption DEF Checkpoint, LockInv, TypeOK, Store!LogTypeOK
<1>3. DatabaseMatches'
  BY <1>1, <1>2, DatabaseUnchanged
<1>4. BatchMatches(r)'
  <2>1. /\ work'[r].checkpoint = checkpoint /\ work'[r].failures = failures
        /\ work'[r].added = << >> /\ work'[r].high = Len(log)
    BY <1>1
  <2>2. [i \in 1..(checkpoint.last - checkpoint.last) |-> checkpoint.last + i]
           = << >>
    BY <1>2
  <2>3. Matches(checkpoint, failures, Len(log))
    BY <1>1 DEF DatabaseMatches
  <2>4. \A n \in Position :
           /\ Keeps(failures[n], failures[n])
           /\ failures[n].status = "resolved" => n <= checkpoint.last
    BY <1>1, RunnerAssumption
    DEF DatabaseMatches, Processed, LockInv, TypeOK, FailureRow, Keeps
  <2>5. QED
    BY <1>1, <1>2, <2>1, <2>2, <2>3, <2>4 DEF BatchMatches, database
<1>5. ASSUME NEW x \in Runner \ {r}, Open(x)' PROVE BatchMatches(x)'
  BY <1>1, <1>2, <1>5, BatchUnchanged
<1>6. QED
  BY <1>3, <1>4, <1>5 DEF BatchesMatch

LEMMA MatchStep ==
    LockInv /\ DatabaseMatches /\ BatchesMatch /\ [Next]_vars
        => DatabaseMatches' /\ BatchesMatch'
<1> SUFFICES ASSUME LockInv, DatabaseMatches, BatchesMatch, [Next]_vars
             PROVE  DatabaseMatches' /\ BatchesMatch'
  OBVIOUS
<1>1. ASSUME NEW p \in Payload, AppendObservation(p)
      PROVE  DatabaseMatches' /\ BatchesMatch'
  <2>1. /\ UNCHANGED << database, pc, work >>
        /\ Len(log') \in Nat /\ Len(log) <= Len(log')
    BY <1>1 DEF AppendObservation, Store!AppendObservation, LockInv, TypeOK,
                Store!LogTypeOK
  <2>2. \A x \in Runner : Open(x)' => BatchMatches(x)'
    BY <2>1, BatchUnchanged
  <2>3. QED
    BY <2>1, <2>2, DatabaseUnchanged DEF BatchesMatch
<1>2. ASSUME NEW r \in Runner,
             \/ RegisterExisting(r) \/ NotRegistered(r) \/ Busy(r)
             \/ RunPaused(r) \/ RunBlocked(r) \/ BatchAborted(r) \/ Crash(r)
             \/ RegisterAbsent(r) \/ LockForPause(r) \/ LockForResume(r)
      PROVE  DatabaseMatches' /\ BatchesMatch'
  BY <1>2, QuietStep
  DEF RegisterExisting, NotRegistered, Busy, RunPaused, RunBlocked,
      BatchAborted, Crash, RegisterAbsent, LockForPause, LockForResume,
      Return, Open, LockInv, TypeOK
<1>3. ASSUME NEW r \in Runner, InsertCheckpoint(r)
      PROVE  DatabaseMatches' /\ BatchesMatch'
  <2>1. CASE Registered
    BY <1>3, <2>1, QuietStep
    DEF InsertCheckpoint, Open, database, LockInv, TypeOK
  <2>2. CASE ~Registered
    <3>1. \A x \in Runner : ~Open(x)'
      BY <1>3, <2>2 DEF InsertCheckpoint, LockInv, TypeOK, LockExclusive,
                        HoldsLock, Open
    <3>2. DatabaseMatches'
      BY <1>3, <2>2, RunnerAssumption
      DEF InsertCheckpoint, FreshCheckpoint, DatabaseMatches, Matches,
          ActiveFailures, Registered, Processed, LockInv, TypeOK,
          Store!LogTypeOK
    <3>3. QED
      BY <3>1, <3>2 DEF BatchesMatch
  <2>3. QED
    BY <2>1, <2>2
<1>4. ASSUME NEW r \in Runner, NEW limit \in BatchLimit, StartBatch(r, limit)
      PROVE  DatabaseMatches' /\ BatchesMatch'
  <2>1. CASE CheckpointValid
    BY <1>4, <2>1, StartMatches
  <2>2. CASE ~CheckpointValid
    BY <1>4, <2>2, QuietStep DEF StartBatch, Return, Open, LockInv, TypeOK
  <2>3. QED
    BY <2>1, <2>2
<1>5. ASSUME NEW r \in Runner, ItemSucceeds(r) \/ ItemPoisoned(r)
      PROVE  DatabaseMatches' /\ BatchesMatch'
  <2>1. /\ Open(r) /\ BatchMatches(r) /\ UNCHANGED << log, database >>
        /\ \A x \in Runner \ {r} : pc'[x] = pc[x] /\ work'[x] = work[x]
        /\ checkpoint \in Checkpoint
    BY <1>5 DEF ItemSucceeds, ItemPoisoned, HandlerRuns, BatchesMatch, Open,
                LockInv, LockExclusive, HoldsLock, Registered, TypeOK
  <2>2. Len(log') \in Nat /\ Len(log) <= Len(log')
    BY <2>1 DEF LockInv, TypeOK, Store!LogTypeOK
  <2>3. BatchMatches(r)'
    BY <1>5, <2>1, SuccessMatches, PoisonMatches
  <2>4. \A x \in Runner \ {r} : Open(x)' => BatchMatches(x)'
    BY <2>1, <2>2, BatchUnchanged
  <2>5. QED
    BY <2>1, <2>2, <2>3, <2>4, DatabaseUnchanged DEF BatchesMatch
<1>6. ASSUME NEW r \in Runner, CommitBatch(r) \/ CommitUnacknowledged(r)
      PROVE  DatabaseMatches' /\ BatchesMatch'
  BY <1>6, PublishMatches DEF CommitBatch, CommitUnacknowledged
<1>7. ASSUME NEW r \in Runner, CommitPause(r) \/ CommitResume(r)
      PROVE  DatabaseMatches' /\ BatchesMatch'
  <2>1. /\ HoldsLock(r) /\ Registered /\ checkpoint \in Checkpoint
        /\ checkpoint.status \in {"idle", "paused"}
    BY <1>7 DEF CommitPause, CommitResume, HoldsLock, LockInv, LockExclusive,
                Registered, TypeOK
  <2>2. /\ checkpoint'.last = checkpoint.last
        /\ checkpoint'.failure = checkpoint.failure
        /\ checkpoint'.status \in {"idle", "paused"}
        /\ checkpoint' \in Checkpoint
        /\ UNCHANGED << log, failures, effects >>
    BY <1>7, <2>1 DEF CommitPause, CommitResume, Checkpoint, Status
  <2>3. Registered'
    BY <2>2, RunnerAssumption DEF Registered
  <2>4. DatabaseMatches'
    BY <2>1, <2>2, <2>3 DEF DatabaseMatches, Matches, Processed
  <2>5. \A x \in Runner : ~Open(x)'
    BY <1>7, <2>1 DEF CommitPause, CommitResume, LockInv, TypeOK,
                      LockExclusive, HoldsLock, Open
  <2>6. QED
    BY <2>4, <2>5 DEF BatchesMatch
<1>8. CASE UNCHANGED vars
  <2>1. UNCHANGED << database, pc, work >>
        /\ Len(log') \in Nat /\ Len(log) <= Len(log')
    BY <1>8 DEF vars, LockInv, TypeOK, Store!LogTypeOK
  <2>2. \A x \in Runner : Open(x)' => BatchMatches(x)'
    BY <2>1, BatchUnchanged
  <2>3. QED
    BY <2>1, <2>2, DatabaseUnchanged DEF BatchesMatch
<1>9. QED
  BY <1>1, <1>2, <1>3, <1>4, <1>5, <1>6, <1>7, <1>8
  DEF Next, RunnerStep, Proceed

LEMMA Invariance == Spec => [](LockInv /\ DatabaseMatches /\ BatchesMatch)
<1>1. Init => DatabaseMatches /\ BatchesMatch
  BY DEF Init, DatabaseMatches, BatchesMatch, Open, ActiveFailures, Registered,
         Processed
<1>2. QED
  BY <1>1, InitialLock, LockStep, MatchStep, PTL DEF Spec

(* Each observation up to the checkpoint has had its effects made durable  *)
(* exactly once and in ingest order, for any number of processes.          *)
THEOREM EffectsAreExactlyOnce == Spec => []EffectsExactlyOnce
<1>1. DatabaseMatches => EffectsExactlyOnce
  BY DEF DatabaseMatches, EffectsExactlyOnce
<1>2. QED
  BY <1>1, Invariance, PTL

(* A failed checkpoint always has its one active failure record, that of   *)
(* the next observation, and no other checkpoint has any.                  *)
THEOREM FailureRecordsMatch == Spec => []FailureRecordMatches
<1>1. DatabaseMatches => FailureRecordMatches
  BY DEF DatabaseMatches, FailureRecordMatches, Matches, ActiveFailures
<1>2. QED
  BY <1>1, Invariance, PTL

(* No step, of any process, removes a failure record, lowers its count of  *)
(* attempts or touches it once it is resolved.                             *)
THEOREM FailureHistoryIsKept == Spec => FailureHistoryKept
<1>1. LockInv /\ DatabaseMatches /\ BatchesMatch /\ [Next]_vars
         => [\A n \in Position : Keeps(failures[n], failures'[n])]_vars
  <2> SUFFICES ASSUME LockInv, BatchesMatch, Next
               PROVE  \A n \in Position : Keeps(failures[n], failures'[n])
    OBVIOUS
  <2>1. CASE UNCHANGED failures
    <3>1. ASSUME NEW n \in Position PROVE failures[n].attempts \in Nat
      BY RunnerAssumption DEF LockInv, TypeOK, FailureRow
    <3>2. QED
      BY <2>1, <3>1 DEF Keeps
  <2>2. ASSUME NEW r \in Runner, BatchEnds(r), Publish(r)
        PROVE  \A n \in Position : Keeps(failures[n], failures'[n])
    BY <2>2 DEF BatchEnds, Publish, BatchesMatch, BatchMatches, Open
  <2>3. QED
    BY <2>1, <2>2
    DEF Next, RunnerStep, Proceed, AppendObservation, RegisterExisting,
        RegisterAbsent, InsertCheckpoint, NotRegistered, Busy, RunPaused,
        RunBlocked, StartBatch, ItemSucceeds, ItemPoisoned, BatchAborted,
        CommitBatch, CommitUnacknowledged, Crash, LockForPause, CommitPause,
        LockForResume, CommitResume, Return, database
<1>2. QED
  BY <1>1, Invariance, PTL DEF Spec, FailureHistoryKept

-----------------------------------------------------------------------------
(* The runtime implements DurableConsumer.                                 *)

\* What the refinement mapping of Consumer says of a state.
Applied == [i \in DOMAIN effects |-> log[effects[i]]]

ConsumerStatus == IF Registered THEN checkpoint.status ELSE "absent"

IsPrefix ==
    /\ Processed \in 0..Len(log) /\ Len(log) \in Nat
    /\ Applied = SubSeq(log, 1, Processed) /\ Len(Applied) = Processed

LEMMA AppliedPrefix == LockInv /\ DatabaseMatches => IsPrefix
<1> SUFFICES ASSUME LockInv, DatabaseMatches PROVE IsPrefix
  OBVIOUS
<1>1. log \in Seq(Payload)
  BY DEF LockInv, TypeOK, Store!LogTypeOK
<1>2. Registered => checkpoint \in Checkpoint
  BY DEF Registered, LockInv, TypeOK
<1>3. Processed \in 0..Len(log)
  BY <1>1, <1>2, RunnerAssumption
  DEF Processed, DatabaseMatches, Matches, Checkpoint
<1>4. effects = [n \in 1..Processed |-> n]
  BY DEF DatabaseMatches
<1> HIDE DEF Processed
<1>5. Applied = [n \in 1..Processed |-> log[n]]
  BY <1>4 DEF Applied
<1>6. [n \in 1..Processed |-> log[n]] = SubSeq(log, 1, Processed)
  BY <1>1, <1>3
<1>7. QED
  BY <1>1, <1>3, <1>5, <1>6 DEF IsPrefix

LEMMA NextPrefix == LockInv' /\ DatabaseMatches' => IsPrefix'
BY AppliedPrefix, PTL

LEMMA PublishRuns ==
    ASSUME LockInv, DatabaseMatches, BatchesMatch, LockInv', DatabaseMatches',
           NEW r \in Runner, BatchEnds(r), Publish(r), UNCHANGED log
    PROVE  Consumer!Run
<1> DEFINE row == work[r].checkpoint
<1>1. /\ work[r] \in Work /\ Open(r) /\ BatchMatches(r) /\ HoldsLock(r)
  BY DEF BatchEnds, LockInv, TypeOK, BatchesMatch, Open, HoldsLock
<1>2. /\ checkpoint' = row /\ Registered /\ Registered'
      /\ row \in Checkpoint /\ checkpoint \in Checkpoint
      /\ checkpoint.status # "paused"
  BY <1>1, RunnerAssumption
  DEF Publish, Work, Registered, LockInv, TypeOK, LockExclusive
<1>3. /\ row.last \in Nat /\ checkpoint.last \in Nat
      /\ work[r].high \in Nat /\ Len(log) \in Nat
  BY <1>1, <1>2, RunnerAssumption
  DEF Checkpoint, Work, LockInv, TypeOK, Store!LogTypeOK
<1>4. /\ ConsumerStatus = checkpoint.status /\ ConsumerStatus' = row.status
      /\ checkpoint.status \in {"idle", "failed"}
      /\ row.status \in {"idle", "failed"}
  BY <1>1, <1>2 DEF ConsumerStatus, Checkpoint, Status, BatchMatches
<1>5. /\ Len(Applied) = checkpoint.last
      /\ Applied' = SubSeq(log, 1, row.last)
  BY <1>2, AppliedPrefix, NextPrefix DEF Processed, IsPrefix
<1>6. /\ checkpoint.last <= row.last /\ row.last <= Len(log)
      /\ row.status = "failed" => row.last < Len(log)
      /\ checkpoint.status = "failed" /\ row.last = checkpoint.last
            => row.status = "failed"
  BY <1>1, <1>2, <1>3 DEF BatchMatches, Matches
<1> HIDE DEF row
<1>7. /\ ConsumerStatus \in {"idle", "failed"}
      /\ row.last \in Len(Applied)..Len(log)
      /\ Applied' = SubSeq(log, 1, row.last)
      /\ \/ row.last < Len(log) /\ ConsumerStatus' = "failed"
         \/ /\ ConsumerStatus = "idle" \/ row.last > Len(Applied)
            /\ ConsumerStatus' = "idle"
  BY <1>3, <1>4, <1>5, <1>6
<1>8. QED
  BY <1>7 DEF Consumer!Run, Applied, ConsumerStatus

LEMMA ConsumerStep ==
    LockInv /\ DatabaseMatches /\ BatchesMatch
      /\ LockInv' /\ DatabaseMatches' /\ [Next]_vars
        => [Consumer!Next]_(Consumer!vars)
<1> SUFFICES ASSUME LockInv, DatabaseMatches, BatchesMatch,
                    LockInv', DatabaseMatches', [Next]_vars
             PROVE  Consumer!Next \/ UNCHANGED << log, Applied, ConsumerStatus >>
  BY DEF Consumer!vars, Applied, ConsumerStatus
<1>1. ASSUME NEW p \in Payload, AppendObservation(p)
      PROVE  Consumer!AppendObservation
  <2>1. /\ Store!AppendObservation(p)
        /\ UNCHANGED << checkpoint, effects >>
    BY <1>1 DEF AppendObservation, database
  <2>2. log' = Append(log, p) /\ log \in Seq(Payload)
    BY <2>1 DEF Store!AppendObservation, LockInv, TypeOK, Store!LogTypeOK
  <2>3. UNCHANGED << Processed, ConsumerStatus >>
    BY <2>1 DEF Processed, Registered, ConsumerStatus
  <2>4. Processed \in 0..Len(log) /\ Len(log) \in Nat
        /\ Applied = SubSeq(log, 1, Processed)
        /\ Applied' = SubSeq(log', 1, Processed)
    BY <2>3, AppliedPrefix, NextPrefix DEF IsPrefix
  <2>5. Applied' = Applied
    BY <2>2, <2>4
  <2>6. Consumer!Store!Next
    BY <2>1 DEF Consumer!Store!Next, Consumer!Store!AppendObservation,
                Store!AppendObservation
  <2>7. QED
    BY <2>3, <2>5, <2>6
    DEF Consumer!AppendObservation, Applied, ConsumerStatus
<1>2. ASSUME NEW r \in Runner, InsertCheckpoint(r), ~Registered
      PROVE  Consumer!Register
  <2>1. /\ checkpoint' = FreshCheckpoint /\ UNCHANGED << log, effects >>
    BY <1>2 DEF InsertCheckpoint
  <2>2. Registered' /\ checkpoint'.status = "idle"
    BY <2>1, RunnerAssumption
    DEF Registered, FreshCheckpoint, LockInv, TypeOK, Checkpoint, Status
  <2>3. QED
    BY <1>2, <2>1, <2>2 DEF Consumer!Register
<1>3. ASSUME NEW r \in Runner, CommitBatch(r) \/ CommitUnacknowledged(r)
      PROVE  Consumer!Run
  BY <1>3, PublishRuns DEF CommitBatch, CommitUnacknowledged
<1>4. ASSUME NEW r \in Runner, CommitPause(r) \/ CommitResume(r)
      PROVE  Consumer!Pause \/ Consumer!Resume
  <2>1. /\ HoldsLock(r) /\ Registered /\ checkpoint \in Checkpoint
        /\ pc[r] = "pause" => checkpoint.status = "idle"
        /\ pc[r] = "resume" => checkpoint.status = "paused"
    BY <1>4 DEF CommitPause, CommitResume, HoldsLock, LockInv, LockExclusive,
                Registered, TypeOK
  <2>2. /\ checkpoint' \in Checkpoint
        /\ pc[r] = "pause" => checkpoint'.status = "paused"
        /\ pc[r] = "resume" => checkpoint'.status = "idle"
        /\ pc[r] \in {"pause", "resume"}
        /\ UNCHANGED << log, effects >>
    BY <1>4, <2>1 DEF CommitPause, CommitResume, Checkpoint, Status
  <2>3. Registered'
    BY <2>2, RunnerAssumption DEF Registered
  <2>4. QED
    BY <2>1, <2>2, <2>3 DEF Consumer!Pause, Consumer!Resume
<1>5. CASE UNCHANGED << log, checkpoint, effects >>
  BY <1>5 DEF Applied, ConsumerStatus, Registered
<1>6. \/ \E p \in Payload : AppendObservation(p)
      \/ \E r \in Runner : \/ InsertCheckpoint(r) /\ ~Registered
                           \/ CommitBatch(r) \/ CommitUnacknowledged(r)
                           \/ CommitPause(r) \/ CommitResume(r)
      \/ UNCHANGED << log, checkpoint, effects >>
  BY DEF Next, RunnerStep, Proceed, RegisterExisting, RegisterAbsent,
         InsertCheckpoint, NotRegistered, Busy, RunPaused, RunBlocked,
         StartBatch, ItemSucceeds, ItemPoisoned, BatchAborted, Crash,
         LockForPause, LockForResume, Return, database, vars
<1>7. QED
  BY <1>1, <1>2, <1>3, <1>4, <1>5, <1>6 DEF Consumer!Next

(* The runtime is a DurableConsumer: whatever fails and however many       *)
(* processes run it, every step changes the projection and its status as   *)
(* DurableConsumer allows, or leaves both alone.                           *)
THEOREM RuntimeImplementsConsumer == Spec => ImplementsDurableConsumer
<1>1. Init => Consumer!Init
  <2> SUFFICES ASSUME Init PROVE Consumer!Init
    OBVIOUS
  <2>1. log = << >> /\ effects = << >> /\ ~Registered
    BY DEF Init, Store!Init, Registered
  <2>2. [i \in DOMAIN effects |-> log[effects[i]]] = << >>
    BY <2>1
  <2>3. QED
    BY <2>1, <2>2 DEF Consumer!Init, Consumer!Store!Init
<1>2. QED
  BY <1>1, Invariance, ConsumerStep, PTL
  DEF Spec, ImplementsDurableConsumer, Consumer!Spec

=============================================================================
