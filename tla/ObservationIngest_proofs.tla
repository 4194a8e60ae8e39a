---------------------- MODULE ObservationIngest_proofs ---------------------
(***************************************************************************)
(* Proofs that the safety invariants of ObservationIngest hold for any     *)
(* number of writers, any identifiers and hashes, and any set of payloads. *)
(* The inductive invariant IInv is proved in layers: types, then the       *)
(* ingest sequence, then evidence, then what clients were told.            *)
(***************************************************************************)
EXTENDS ObservationIngest, TLAPS

TypeInv == TypeOK /\ TransactionShape

\* Inside the loop over the evidence there is a reference to look at.
LEMMA DeclaredRow ==
    ASSUME TypeInv, NEW w \in Writer,
           pc[w] \in {"evidence", "insert_evidence"}
    PROVE  /\ put[w] \in Payload
           /\ put[w].evidence \in Seq(EvidenceRow)
           /\ pos[w] \in 1..Len(put[w].evidence)
           /\ Declared(w) \in EvidenceRow
<1>1. put[w] \in Payload /\ put[w].evidence \in Seq(EvidenceRow)
  BY PayloadAssumption DEF TypeInv, TypeOK
<1>2. pos[w] \in 1..Len(put[w].evidence)
  BY <1>1 DEF TypeInv, TypeOK
<1>3. Declared(w) \in EvidenceRow
  <2> DEFINE refs == put[w].evidence
  <2>1. refs \in Seq(EvidenceRow) /\ pos[w] \in 1..Len(refs)
    BY <1>1, <1>2
  <2> HIDE DEF refs
  <2>2. refs[pos[w]] \in EvidenceRow
    BY <2>1
  <2>3. QED
    BY <2>2 DEF refs, Declared
<1>4. QED
  BY <1>1, <1>2, <1>3

\* The actions that end a call, or roll its transaction back, by their effect.
LEMMA RollbackTypes ==
    ASSUME TypeInv, NEW w \in Writer, Rollback(w), UNCHANGED << put, acked >>,
           pc' \in [Writer -> Statement], retried' \in [Writer -> BOOLEAN],
           outcome' \in [Writer -> Outcome],
           pc'[w] \in {"idle", "lookup"}, pc'[w] # "idle" => pc[w] # "idle",
           \A x \in Writer \ {w} : pc'[x] = pc[x]
    PROVE  TypeInv'
<1>1. /\ pos' \in [Writer -> Nat \ {0}] /\ pos'[w] = 1
      /\ staged' \in [Writer -> SUBSET EvidenceRow] /\ staged'[w] = {}
      /\ allocated' \in [Writer -> Nat] /\ allocated'[w] = 0
      /\ \A x \in Writer \ {w} : /\ pos'[x] = pos[x]
                                  /\ staged'[x] = staged[x]
                                  /\ allocated'[x] = allocated[x]
  BY DEF TypeInv, TypeOK, Rollback
<1>2. TransactionShape'
  BY <1>1 DEF TypeInv, TypeOK, TransactionShape
<1>3. TypeOK'
  BY <1>1 DEF TypeInv, TypeOK, Rollback, database
<1>4. QED
  BY <1>2, <1>3 DEF TypeInv

LEMMA RaiseTypes ==
    ASSUME TypeInv, NEW w \in Writer, NEW error \in Outcome, Raise(w, error)
    PROVE  TypeInv'
<1>1. /\ Rollback(w) /\ UNCHANGED << put, acked >>
      /\ pc' \in [Writer -> Statement] /\ retried' \in [Writer -> BOOLEAN]
      /\ outcome' \in [Writer -> Outcome]
      /\ pc'[w] \in {"idle", "lookup"} /\ (pc'[w] # "idle" => pc[w] # "idle")
      /\ \A x \in Writer \ {w} : pc'[x] = pc[x]
  BY DEF TypeInv, TypeOK, Raise, Statement
<1>2. QED
  BY <1>1, RollbackTypes

LEMMA NextReferenceTypes ==
    ASSUME TypeInv, NEW w \in Writer,
           pc[w] \in {"evidence", "insert_evidence"}, NextReference(w),
           UNCHANGED << database, put, allocated, retried, outcome, acked >>,
           staged' \in [Writer -> SUBSET EvidenceRow],
           \A x \in Writer \ {w} : staged'[x] = staged[x]
    PROVE  TypeInv'
<1>1. put[w] \in Payload /\ put[w].evidence \in Seq(EvidenceRow)
  BY DeclaredRow
<1>2. pos[w] \in 1..Len(put[w].evidence)
  BY DeclaredRow
<1>3. /\ pos' \in [Writer -> Nat \ {0}]
      /\ pc'[w] = "evidence" => pos'[w] \in DOMAIN put'[w].evidence
  BY <1>1, <1>2 DEF TypeInv, TypeOK, NextReference
<1>4. /\ pc' \in [Writer -> Statement]
      /\ pc'[w] \in {"evidence", "insert_observation"}
      /\ \A x \in Writer \ {w} : pc'[x] = pc[x] /\ pos'[x] = pos[x]
  BY DEF TypeInv, TypeOK, NextReference, Statement
<1>5. TransactionShape'
  BY <1>4 DEF TypeInv, TransactionShape, TypeOK
<1>6. TypeOK'
  BY <1>1, <1>3, <1>4 DEF TypeInv, TypeOK, database
<1>7. QED
  BY <1>5, <1>6 DEF TypeInv

\* A statement that only moves its writer to the next one.
LEMMA MoveTypes ==
    ASSUME TypeInv, NEW w \in Writer, pc[w] # "idle",
           NEW s \in Statement, pc' = [pc EXCEPT ![w] = s],
           s \in {"idle", "lookup", "verify"} =>
               pc[w] \in {"lookup", "verify"},
           s \in {"insert_entry", "commit"}
               <=> pc[w] \in {"insert_entry", "commit"},
           s \in {"evidence", "insert_evidence"} =>
               pc[w] \in {"lookup", "evidence"},
           UNCHANGED << database, put, transaction, retried >>,
           outcome' \in [Writer -> Outcome],
           acked' \subseteq [payload : Payload, seq : Nat \ {0}]
    PROVE  TypeInv'
<1>1. put[w] \in Payload /\ put[w].evidence \in Seq(EvidenceRow)
      /\ put[w].evidence # << >>
  BY PayloadAssumption DEF TypeInv, TypeOK
<1>2. 1 \in DOMAIN put[w].evidence
  BY <1>1
<1>3. TransactionShape'
  BY DEF TypeInv, TransactionShape, TypeOK, transaction
<1>4. /\ pc' \in [Writer -> Statement]
      /\ \A x \in Writer : pc'[x] # "idle" => put'[x] \in Payload
  BY DEF TypeInv, TypeOK, Statement
<1>5. \A x \in Writer : pc'[x] \in {"evidence", "insert_evidence"}
                           => pos'[x] \in DOMAIN put'[x].evidence
  BY <1>2 DEF TypeInv, TypeOK, TransactionShape, transaction
<1>6. TypeOK'
  BY <1>4, <1>5 DEF TypeInv, TypeOK, database, transaction
<1>7. QED
  BY <1>3, <1>6 DEF TypeInv

\* All rows of a transaction become visible.
LEMMA PublishTypes ==
    ASSUME TypeInv, NEW w \in Writer, pc[w] = "commit", Publish(w),
           outcome' \in [Writer -> Outcome],
           acked' \subseteq acked \cup {[payload |-> put[w], seq |-> allocated[w]]}
    PROVE  TypeInv'
<1>1. /\ put[w] \in Payload /\ put[w].obs \in ObservationId
      /\ allocated[w] \in Nat \ {0}
  BY PayloadAssumption DEF TypeInv, TypeOK, TransactionShape
<1>2. /\ pos' \in [Writer -> Nat \ {0}] /\ pos'[w] = 1
      /\ staged' \in [Writer -> SUBSET EvidenceRow] /\ staged'[w] = {}
      /\ allocated' \in [Writer -> Nat] /\ allocated'[w] = 0
      /\ pc' \in [Writer -> Statement] /\ pc'[w] = "idle"
      /\ \A x \in Writer \ {w} : /\ pos'[x] = pos[x] /\ pc'[x] = pc[x]
                                  /\ staged'[x] = staged[x]
                                  /\ allocated'[x] = allocated[x]
  BY DEF TypeInv, TypeOK, Publish, Statement
<1>3. /\ observations' \subseteq Payload
      /\ evidence' \subseteq EvidenceRow
      /\ entries' \subseteq [seq : Nat \ {0}, obs : ObservationId]
      /\ lastSequence' \in Nat
  BY <1>1 DEF TypeInv, TypeOK, Publish
<1>4. acked' \subseteq [payload : Payload, seq : Nat \ {0}]
  BY <1>1 DEF TypeInv, TypeOK
<1>5. TransactionShape'
  BY <1>2 DEF TypeInv, TypeOK, TransactionShape
<1>6. TypeOK'
  BY <1>2, <1>3, <1>4 DEF TypeInv, TypeOK, Publish
<1>7. QED
  BY <1>5, <1>6 DEF TypeInv

(* Every statement of every put keeps the database and the transactions    *)
(* within their types: no reference beyond the last, no number but one     *)
(* that was allocated, whatever the interleaving.                          *)
LEMMA TypeStep == TypeInv /\ [Next]_vars => TypeInv'
<1> SUFFICES ASSUME TypeInv, [Next]_vars PROVE TypeInv'
  OBVIOUS
<1> USE DEF Executes
<1>1. ASSUME NEW w \in Writer, NEW p \in Payload, Begin(w, p) PROVE TypeInv'
  BY <1>1 DEF TypeInv, TypeOK, TransactionShape, Begin, database, transaction,
              Statement, Outcome
<1>2. ASSUME NEW w \in Writer, LookupAbsent(w) PROVE TypeInv'
  BY <1>2, MoveTypes DEF LookupAbsent, Statement, TypeInv, TypeOK
<1>3. ASSUME NEW w \in Writer, LookupIdentical(w) PROVE TypeInv'
  BY <1>3, MoveTypes DEF LookupIdentical, Statement, TypeInv, TypeOK
<1>4. ASSUME NEW w \in Writer, LookupConflict(w) PROVE TypeInv'
  BY <1>4, RaiseTypes DEF LookupConflict, Outcome
<1>5. ASSUME NEW w \in Writer, ReturnExisting(w) PROVE TypeInv'
  <2>1. put[w] \in Payload
    BY <1>5 DEF ReturnExisting, TypeInv, TypeOK
  <2>2. acked' \subseteq [payload : Payload, seq : Nat \ {0}]
    BY <1>5, <2>1 DEF ReturnExisting, TypeInv, TypeOK
  <2>3. outcome' \in [Writer -> Outcome]
    BY <1>5 DEF ReturnExisting, TypeInv, TypeOK, Outcome
  <2>4. QED
    BY <1>5, <2>2, <2>3, MoveTypes DEF ReturnExisting, Statement
<1>6. ASSUME NEW w \in Writer, EvidenceReused(w) PROVE TypeInv'
  BY <1>6, NextReferenceTypes DEF EvidenceReused, TypeInv, TypeOK
<1>7. ASSUME NEW w \in Writer, EvidenceConflict(w) PROVE TypeInv'
  BY <1>7, RaiseTypes DEF EvidenceConflict, Outcome
<1>8. ASSUME NEW w \in Writer, EvidenceAbsent(w) PROVE TypeInv'
  BY <1>8, MoveTypes DEF EvidenceAbsent, Statement, TypeInv, TypeOK
<1>9. ASSUME NEW w \in Writer, InsertEvidence(w) PROVE TypeInv'
  <2>1. Declared(w) \in EvidenceRow
    BY <1>9, DeclaredRow DEF InsertEvidence
  <2>2. /\ staged' \in [Writer -> SUBSET EvidenceRow]
        /\ \A x \in Writer \ {w} : staged'[x] = staged[x]
    BY <1>9, <2>1 DEF InsertEvidence, TypeInv, TypeOK
  <2>3. QED
    BY <1>9, <2>2, NextReferenceTypes DEF InsertEvidence
<1>10. ASSUME NEW w \in Writer, InsertObservation(w) PROVE TypeInv'
  BY <1>10, MoveTypes DEF InsertObservation, Statement, TypeInv, TypeOK
<1>11. ASSUME NEW w \in Writer, InsertLinks(w) PROVE TypeInv'
  BY <1>11, MoveTypes DEF InsertLinks, Statement, TypeInv, TypeOK
<1>12. ASSUME NEW w \in Writer, Allocate(w) PROVE TypeInv'
  <2>1. /\ allocated' \in [Writer -> Nat] /\ allocated'[w] # 0
        /\ pc' \in [Writer -> Statement] /\ pc'[w] = "insert_entry"
        /\ \A x \in Writer \ {w} : /\ pc'[x] = pc[x]
                                    /\ allocated'[x] = allocated[x]
    BY <1>12 DEF Allocate, TypeInv, TypeOK, Statement
  <2>2. TransactionShape'
    BY <1>12, <2>1 DEF Allocate, TypeInv, TypeOK, TransactionShape
  <2>3. TypeOK'
    BY <1>12, <2>1 DEF Allocate, TypeInv, TypeOK, database
  <2>4. QED
    BY <2>2, <2>3 DEF TypeInv
<1>13. ASSUME NEW w \in Writer, InsertEntry(w) PROVE TypeInv'
  BY <1>13, MoveTypes DEF InsertEntry, Statement, TypeInv, TypeOK
<1>14. ASSUME NEW w \in Writer, Commit(w) PROVE TypeInv'
  BY <1>14, PublishTypes DEF Commit, TypeInv, TypeOK, Outcome
<1>15. ASSUME NEW w \in Writer, RetryAfterIntegrityError(w) PROVE TypeInv'
  BY <1>15, RollbackTypes
  DEF RetryAfterIntegrityError, KeyTaken, TypeInv, TypeOK, Statement
<1>16. ASSUME NEW w \in Writer, RaiseIntegrityError(w) PROVE TypeInv'
  BY <1>16, RaiseTypes DEF RaiseIntegrityError, Outcome
<1>17. ASSUME NEW w \in Writer, DeadlockVictim(w) PROVE TypeInv'
  BY <1>17, RaiseTypes DEF DeadlockVictim, Outcome
<1>18. ASSUME NEW w \in Writer, ConnectionLost(w) PROVE TypeInv'
  BY <1>18, RaiseTypes DEF ConnectionLost, Outcome
<1>19. ASSUME NEW w \in Writer, CommitUnacknowledged(w) PROVE TypeInv'
  BY <1>19, PublishTypes DEF CommitUnacknowledged, TypeInv, TypeOK, Outcome
<1>20. CASE UNCHANGED vars
  BY <1>20 DEF TypeInv, TypeOK, TransactionShape, vars, database, transaction
<1>21. QED
  BY <1>1, <1>2, <1>3, <1>4, <1>5, <1>6, <1>7, <1>8, <1>9, <1>10, <1>11,
     <1>12, <1>13, <1>14, <1>15, <1>16, <1>17, <1>18, <1>19, <1>20
  DEF Next, Step

(* The type invariant of the concurrent put, for every set of writers and  *)
(* payloads.                                                               *)
THEOREM TypeCorrect == Spec => []TypeOK
<1>1. Init => TypeInv
  BY DEF Init, TypeInv, TypeOK, TransactionShape, Statement, Outcome
<1>2. TypeInv => TypeOK
  BY DEF TypeInv
<1>3. QED
  BY <1>1, <1>2, TypeStep, PTL DEF Spec

-----------------------------------------------------------------------------
(* The ingest sequence.                                                    *)

SequenceInv == Exclusive /\ SequenceGapFree

\* What every statement but the INSERT of an observation, the allocation and
\* COMMIT has in common.
Harmless ==
    /\ UNCHANGED << observations, entries, lastSequence >>
    /\ \A w \in Writer :
          /\ allocated'[w] \in {0, allocated[w]}
          /\ HoldsObservation(w)' => HoldsObservation(w) /\ put'[w] = put[w]

LEMMA HarmlessSequence == SequenceInv /\ Harmless => SequenceInv'
<1> SUFFICES ASSUME SequenceInv, Harmless PROVE SequenceInv'
  OBVIOUS
<1>1. SequenceGapFree'
  BY DEF SequenceInv, SequenceGapFree, Harmless
<1>2. ASSUME NEW w \in Writer, allocated'[w] # 0
      PROVE  /\ allocated'[w] = lastSequence' + 1
             /\ \A x \in Writer \ {w} : allocated'[x] = 0
  BY <1>2 DEF SequenceInv, Exclusive, Harmless
<1>3. ASSUME NEW w \in Writer, HoldsObservation(w)'
      PROVE  /\ \A p \in observations' : p.obs # put'[w].obs
             /\ \A x \in Writer \ {w} :
                   HoldsObservation(x)' => put'[x].obs # put'[w].obs
  BY <1>3 DEF SequenceInv, Exclusive, Harmless
<1>4. QED
  BY <1>1, <1>2, <1>3 DEF SequenceInv, Exclusive

LEMMA SequencesOf ==
    ASSUME NEW S, NEW x
    PROVE  {e.seq : e \in S \cup {x}} = {e.seq : e \in S} \cup {x.seq}
OBVIOUS

LEMMA IdentifiersOf ==
    ASSUME NEW S, NEW x
    PROVE  {e.obs : e \in S \cup {x}} = {e.obs : e \in S} \cup {x.obs}
OBVIOUS

LEMMA PublishSequence ==
    ASSUME TypeInv, SequenceInv, NEW w \in Writer, pc[w] = "commit", Publish(w)
    PROVE  SequenceInv'
<1>1. /\ allocated[w] = lastSequence + 1 /\ lastSequence \in Nat
      /\ \A x \in Writer \ {w} : allocated[x] = 0
      /\ \A p \in observations : p.obs # put[w].obs
      /\ \A x \in Writer \ {w} :
            HoldsObservation(x) => put[x].obs # put[w].obs
  BY DEF TypeInv, TypeOK, TransactionShape, SequenceInv, Exclusive,
         HoldsObservation
<1>2. /\ \A x \in Writer : allocated'[x] = 0
      /\ \A x \in Writer : HoldsObservation(x)' =>
                              x # w /\ HoldsObservation(x) /\ put'[x] = put[x]
  BY <1>1 DEF TypeInv, TypeOK, Publish, HoldsObservation
<1>3. Exclusive'
  <2>1. ASSUME NEW x \in Writer, HoldsObservation(x)'
        PROVE  /\ \A p \in observations' : p.obs # put'[x].obs
               /\ \A y \in Writer \ {x} :
                     HoldsObservation(y)' => put'[y].obs # put'[x].obs
    BY <1>1, <1>2, <2>1 DEF SequenceInv, Exclusive, Publish
  <2>2. QED
    BY <1>2, <2>1 DEF Exclusive
<1> DEFINE new == [seq |-> allocated[w], obs |-> put[w].obs]
<1>0. /\ entries' = entries \cup {new}
      /\ observations' = observations \cup {put[w]}
      /\ lastSequence' = lastSequence + 1
      /\ new.seq = lastSequence + 1 /\ new.obs = put[w].obs
  BY <1>1 DEF Publish
<1> HIDE DEF new
<1>4. {e.seq : e \in entries'} = 1..lastSequence'
  <2>1. {e.seq : e \in entries'} = {e.seq : e \in entries} \cup {lastSequence + 1}
    BY <1>0, SequencesOf
  <2>2. 1..lastSequence' = 1..lastSequence \cup {lastSequence + 1}
    BY <1>1, <1>0
  <2>3. QED
    BY <2>1, <2>2 DEF SequenceInv, SequenceGapFree
<1>5. {e.obs : e \in entries'} = {p.obs : p \in observations'}
  <2>1. {e.obs : e \in entries'} = {e.obs : e \in entries} \cup {put[w].obs}
    BY <1>0, IdentifiersOf
  <2>2. {p.obs : p \in observations'}
           = {p.obs : p \in observations} \cup {put[w].obs}
    BY <1>0, IdentifiersOf
  <2>3. QED
    BY <2>1, <2>2 DEF SequenceInv, SequenceGapFree
<1>6. ASSUME NEW e \in entries', NEW f \in entries',
             e.seq = f.seq \/ e.obs = f.obs
      PROVE  e = f
  <2>2. \A g \in entries : g.seq # new.seq /\ g.obs # new.obs
    <3>1. \A g \in entries : g.seq \in 1..lastSequence
      BY DEF SequenceInv, SequenceGapFree
    <3>2. \A g \in entries : \E p \in observations : p.obs = g.obs
      BY DEF SequenceInv, SequenceGapFree
    <3>3. QED
      BY <1>1, <1>0, <3>1, <3>2
  <2>3. QED
    BY <1>6, <1>0, <2>2 DEF SequenceInv, SequenceGapFree
<1>7. QED
  BY <1>3, <1>4, <1>5, <1>6 DEF SequenceInv, SequenceGapFree

\* The common part of the statements that neither write nor end anything:
\* the writer keeps its transaction, or gives it up, and its observation.
LEMMA KeepsHarmless ==
    ASSUME TypeInv, NEW w \in Writer,
           UNCHANGED << observations, entries, lastSequence >>,
           \A x \in Writer : allocated'[x] \in {0, allocated[x]},
           \A x \in Writer \ {w} : pc'[x] = pc[x] /\ put'[x] = put[x],
           HoldsObservation(w)' => HoldsObservation(w) /\ put'[w] = put[w]
    PROVE  Harmless
BY DEF Harmless, HoldsObservation

LEMMA RollbackSequence ==
    ASSUME TypeInv, SequenceInv, NEW w \in Writer, Rollback(w),
           pc'[w] \in {"idle", "lookup"},
           \A x \in Writer \ {w} : pc'[x] = pc[x] /\ put'[x] = put[x]
    PROVE  SequenceInv'
<1>1. \A x \in Writer : allocated'[x] \in {0, allocated[x]}
  BY DEF TypeInv, TypeOK, Rollback
<1>2. ~HoldsObservation(w)'
  BY DEF HoldsObservation
<1>3. QED
  BY <1>1, <1>2, KeepsHarmless, HarmlessSequence DEF Rollback, database

LEMMA RaiseSequence ==
    ASSUME TypeInv, SequenceInv, NEW w \in Writer, NEW error, Raise(w, error)
    PROVE  SequenceInv'
<1>1. /\ pc'[w] = "idle"
      /\ \A x \in Writer \ {w} : pc'[x] = pc[x] /\ put'[x] = put[x]
  BY DEF TypeInv, TypeOK, Raise
<1>2. QED
  BY <1>1, RollbackSequence DEF Raise

LEMMA SequenceStep == TypeInv /\ SequenceInv /\ [Next]_vars => SequenceInv'
<1> SUFFICES ASSUME TypeInv, SequenceInv, [Next]_vars PROVE SequenceInv'
  OBVIOUS
<1> USE DEF Executes
<1>1. ASSUME NEW w \in Writer, NEW p \in Payload, Begin(w, p) PROVE SequenceInv'
  BY <1>1, KeepsHarmless, HarmlessSequence
  DEF Begin, HoldsObservation, TypeInv, TypeOK, database, transaction
<1>2. ASSUME NEW w \in Writer,
             \/ LookupAbsent(w) \/ LookupIdentical(w) \/ ReturnExisting(w)
             \/ EvidenceAbsent(w)
      PROVE SequenceInv'
  BY <1>2, KeepsHarmless, HarmlessSequence
  DEF LookupAbsent, LookupIdentical, ReturnExisting, EvidenceAbsent,
      HoldsObservation, TypeInv, TypeOK, database, transaction
<1>3. ASSUME NEW w \in Writer, EvidenceReused(w) \/ InsertEvidence(w)
      PROVE SequenceInv'
  BY <1>3, KeepsHarmless, HarmlessSequence
  DEF EvidenceReused, InsertEvidence, NextReference, HoldsObservation,
      TypeInv, TypeOK, database, transaction
<1>4. ASSUME NEW w \in Writer, InsertLinks(w) \/ InsertEntry(w)
      PROVE SequenceInv'
  BY <1>4, KeepsHarmless, HarmlessSequence
  DEF InsertLinks, InsertEntry, HoldsObservation,
      TypeInv, TypeOK, database, transaction
<1>5. ASSUME NEW w \in Writer, InsertObservation(w) PROVE SequenceInv'
  <2>1. /\ \A p \in observations : p.obs # put[w].obs
        /\ \A x \in Writer \ {w} :
              HoldsObservation(x) => put[x].obs # put[w].obs
    BY <1>5 DEF InsertObservation, WaitsFor, KeyTaken
  <2>2. \A x \in Writer : HoldsObservation(x)' <=> x = w \/ HoldsObservation(x)
    BY <1>5 DEF InsertObservation, HoldsObservation, TypeInv, TypeOK
  <2>3. QED
    BY <1>5, <2>1, <2>2
    DEF InsertObservation, SequenceInv, Exclusive, SequenceGapFree,
        database, transaction
<1>6. ASSUME NEW w \in Writer, Allocate(w) PROVE SequenceInv'
  <2>1. \A x \in Writer \ {w} : allocated[x] = 0
    BY <1>6 DEF Allocate, WaitsFor
  <2>2. /\ allocated'[w] = lastSequence' + 1
        /\ \A x \in Writer \ {w} : allocated'[x] = 0
    BY <1>6, <2>1 DEF Allocate, TypeInv, TypeOK, database
  <2>3. \A x \in Writer : HoldsObservation(x)' <=> HoldsObservation(x)
    BY <1>6 DEF Allocate, HoldsObservation, TypeInv, TypeOK
  <2>4. Exclusive'
    BY <1>6, <2>2, <2>3
    DEF Allocate, SequenceInv, Exclusive, database
  <2>5. SequenceGapFree'
    BY <1>6 DEF Allocate, SequenceInv, SequenceGapFree, database
  <2>6. QED
    BY <2>4, <2>5 DEF SequenceInv
<1>7. ASSUME NEW w \in Writer, Commit(w) \/ CommitUnacknowledged(w)
      PROVE SequenceInv'
  BY <1>7, PublishSequence DEF Commit, CommitUnacknowledged
<1>8. ASSUME NEW w \in Writer, RetryAfterIntegrityError(w) PROVE SequenceInv'
  BY <1>8, RollbackSequence DEF RetryAfterIntegrityError, TypeInv, TypeOK
<1>9. ASSUME NEW w \in Writer,
             \/ LookupConflict(w) \/ EvidenceConflict(w)
             \/ RaiseIntegrityError(w) \/ DeadlockVictim(w) \/ ConnectionLost(w)
      PROVE SequenceInv'
  BY <1>9, RaiseSequence
  DEF LookupConflict, EvidenceConflict, RaiseIntegrityError, DeadlockVictim,
      ConnectionLost
<1>10. CASE UNCHANGED vars
  BY <1>10, HarmlessSequence
  DEF Harmless, HoldsObservation, vars, database, transaction
<1>11. QED
  BY <1>1, <1>2, <1>3, <1>4, <1>5, <1>6, <1>7, <1>8, <1>9, <1>10
  DEF Next, Step

(* The committed ingest sequence is gap-free and every stored observation  *)
(* has exactly one position in it, for any number of concurrent writers    *)
(* and whatever rolls back.                                                *)
THEOREM SequenceIsGapFree == Spec => []SequenceGapFree
<1>1. Init => TypeInv /\ SequenceInv
  BY DEF Init, TypeInv, TypeOK, TransactionShape, Statement, Outcome,
         SequenceInv, Exclusive, SequenceGapFree, HoldsObservation
<1>2. SequenceInv => SequenceGapFree
  BY DEF SequenceInv
<1>3. QED
  BY <1>1, <1>2, TypeStep, SequenceStep, PTL DEF Spec

-----------------------------------------------------------------------------
(* Evidence.                                                               *)

EvidenceInv == EvidenceStaged /\ EvidenceIntegrity /\ NoOrphanEvidence

\* The parts of EvidenceStaged for one writer.
StagedOwn(w) ==
    \A row \in staged[w] :
        /\ \E i \in DOMAIN put[w].evidence : put[w].evidence[i] = row
        /\ \A other \in VisibleEvidence(w) : row.id = other.id => row = other

StagedApart(w) ==
    \A x \in Writer \ {w} : \A row \in staged[w], other \in staged[x] :
        row.id # other.id

PassedVisible(w) ==
    pc[w] \in {"evidence", "insert_evidence"} =>
        \A i \in 1..(pos[w] - 1) : put[w].evidence[i] \in VisibleEvidence(w)

AllVisible(w) ==
    pc[w] = "insert_observation" \/ HoldsObservation(w) =>
        \A i \in DOMAIN put[w].evidence : put[w].evidence[i] \in VisibleEvidence(w)

LEMMA StagedParts ==
    EvidenceStaged <=> \A w \in Writer : /\ StagedOwn(w) /\ StagedApart(w)
                                         /\ PassedVisible(w) /\ AllVisible(w)
BY DEF EvidenceStaged, StagedOwn, StagedApart, PassedVisible, AllVisible

\* A writer that has nothing staged and is outside the loop owes nothing.
LEMMA OutsideLoop ==
    ASSUME EvidenceInv, NEW w \in Writer, UNCHANGED << observations, evidence >>,
           staged'[w] = {}, pc'[w] \in {"idle", "lookup", "verify"},
           \A x \in Writer \ {w} : /\ pc'[x] = pc[x] /\ put'[x] = put[x]
                                   /\ pos'[x] = pos[x] /\ staged'[x] = staged[x]
    PROVE  EvidenceInv'
<1>1. ASSUME NEW x \in Writer
      PROVE  StagedOwn(x)' /\ StagedApart(x)' /\ PassedVisible(x)' /\ AllVisible(x)'
  <2>1. /\ StagedOwn(x) /\ PassedVisible(x) /\ AllVisible(x)
        /\ \A y \in Writer : StagedApart(y)
    BY StagedParts DEF EvidenceInv
  <2>2. CASE x = w
    BY <2>2 DEF StagedOwn, StagedApart, PassedVisible, AllVisible,
                HoldsObservation
  <2>3. CASE x # w
    BY <2>1, <2>3 DEF StagedOwn, StagedApart, PassedVisible, AllVisible,
                      HoldsObservation, VisibleEvidence
  <2>4. QED
    BY <2>2, <2>3
<1>2. EvidenceIntegrity' /\ NoOrphanEvidence'
  BY DEF EvidenceInv, EvidenceIntegrity, NoOrphanEvidence
<1>3. EvidenceStaged'
  BY <1>1 DEF EvidenceStaged, StagedOwn, StagedApart, PassedVisible, AllVisible
<1>4. QED
  BY <1>2, <1>3 DEF EvidenceInv

\* A writer that stages nothing and sees what its next statement requires.
LEMMA NothingStaged ==
    ASSUME EvidenceInv, NEW w \in Writer,
           UNCHANGED << observations, evidence, put, staged >>,
           PassedVisible(w)', AllVisible(w)',
           \A x \in Writer \ {w} : pc'[x] = pc[x] /\ pos'[x] = pos[x]
    PROVE  EvidenceInv'
<1>1. ASSUME NEW x \in Writer
      PROVE  StagedOwn(x)' /\ StagedApart(x)' /\ PassedVisible(x)' /\ AllVisible(x)'
  <2>1. StagedOwn(x) /\ StagedApart(x) /\ PassedVisible(x) /\ AllVisible(x)
    BY StagedParts DEF EvidenceInv
  <2>2. StagedOwn(x)' /\ StagedApart(x)'
    BY <2>1 DEF StagedOwn, StagedApart, VisibleEvidence
  <2>3. CASE x # w
    BY <2>1, <2>2, <2>3
    DEF PassedVisible, AllVisible, HoldsObservation, VisibleEvidence
  <2>4. QED
    BY <2>2, <2>3
<1>2. EvidenceIntegrity' /\ NoOrphanEvidence'
  BY DEF EvidenceInv, EvidenceIntegrity, NoOrphanEvidence
<1>3. EvidenceStaged'
  BY <1>1 DEF EvidenceStaged, StagedOwn, StagedApart, PassedVisible, AllVisible
<1>4. QED
  BY <1>2, <1>3 DEF EvidenceInv

\* After the reference at pos has become visible, so have all before pos'.
LEMMA NextVisible ==
    ASSUME TypeInv, NEW w \in Writer,
           pc[w] \in {"evidence", "insert_evidence"}, PassedVisible(w),
           NextReference(w), UNCHANGED << put, evidence >>,
           staged[w] \subseteq staged'[w], Declared(w) \in VisibleEvidence(w)'
    PROVE  PassedVisible(w)' /\ AllVisible(w)'
<1>1. put[w].evidence \in Seq(EvidenceRow) /\ pos[w] \in 1..Len(put[w].evidence)
  BY DeclaredRow
<1>2. pos'[w] = pos[w] + 1
      /\ pc'[w] \in {"evidence", "insert_observation"}
      /\ (pc'[w] = "insert_observation" => pos[w] = Len(put[w].evidence))
  BY <1>1 DEF NextReference, TypeInv, TypeOK
<1>3. \A i \in 1..pos[w] : put[w].evidence[i] \in VisibleEvidence(w)'
  <2>1. \A i \in 1..(pos[w] - 1) : put[w].evidence[i] \in VisibleEvidence(w)'
    BY DEF PassedVisible, VisibleEvidence
  <2>2. put[w].evidence[pos[w]] \in VisibleEvidence(w)'
    BY DEF Declared
  <2>3. QED
    BY <1>1, <2>1, <2>2
<1>4. PassedVisible(w)'
  BY <1>1, <1>2, <1>3 DEF PassedVisible
<1>5. AllVisible(w)'
  BY <1>1, <1>2, <1>3 DEF AllVisible, HoldsObservation
<1>6. QED
  BY <1>4, <1>5

LEMMA InsertEvidenceStep ==
    ASSUME TypeInv, EvidenceInv, NEW w \in Writer, InsertEvidence(w)
    PROVE  EvidenceInv'
<1> DEFINE row == Declared(w)
<1>1. /\ pc[w] = "insert_evidence" /\ pos[w] \in DOMAIN put[w].evidence
      /\ NextReference(w)
      /\ UNCHANGED << observations, evidence, put >>
  BY DeclaredRow DEF InsertEvidence, Executes, database, TypeInv, TypeOK
<1>2. /\ staged'[w] = staged[w] \cup {row}
      /\ \A x \in Writer \ {w} : /\ staged'[x] = staged[x] /\ pc'[x] = pc[x]
                                  /\ pos'[x] = pos[x]
  BY DEF InsertEvidence, NextReference, TypeInv, TypeOK
<1>3. /\ \A other \in VisibleEvidence(w) : other.id # row.id
      /\ \A x \in Writer \ {w} : \A other \in staged[x] : other.id # row.id
  BY <1>1 DEF InsertEvidence, Executes, WaitsFor, KeyTaken
<1>4. \A x \in Writer : StagedOwn(x) /\ StagedApart(x)
                        /\ PassedVisible(x) /\ AllVisible(x)
  BY StagedParts DEF EvidenceInv
<1>5. PassedVisible(w)' /\ AllVisible(w)'
  BY <1>1, <1>2, <1>4, NextVisible DEF VisibleEvidence
<1>6. StagedOwn(w)'
  <2>1. \E i \in DOMAIN put[w].evidence : put[w].evidence[i] = row
    BY <1>1 DEF Declared
  <2>2. /\ VisibleEvidence(w)' = VisibleEvidence(w) \cup {row}
        /\ staged[w] \subseteq VisibleEvidence(w)
    BY <1>1, <1>2 DEF VisibleEvidence
  <2> HIDE DEF row
  <2>3. QED
    BY <1>1, <1>2, <1>3, <1>4, <2>1, <2>2 DEF StagedOwn
<1> HIDE DEF row
<1>7. ASSUME NEW x \in Writer \ {w}
      PROVE  StagedOwn(x)' /\ PassedVisible(x)' /\ AllVisible(x)'
  BY <1>1, <1>2, <1>4
  DEF StagedOwn, PassedVisible, AllVisible, HoldsObservation, VisibleEvidence
<1>8. ASSUME NEW x \in Writer PROVE StagedApart(x)'
  BY <1>2, <1>3, <1>4 DEF StagedApart
<1>9. EvidenceStaged'
  BY <1>5, <1>6, <1>7, <1>8
  DEF EvidenceStaged, StagedOwn, StagedApart, PassedVisible, AllVisible
<1>10. EvidenceIntegrity' /\ NoOrphanEvidence'
  BY <1>1 DEF EvidenceInv, EvidenceIntegrity, NoOrphanEvidence
<1>11. QED
  BY <1>9, <1>10 DEF EvidenceInv

LEMMA PublishEvidence ==
    ASSUME TypeInv, EvidenceInv, NEW w \in Writer, pc[w] = "commit", Publish(w)
    PROVE  EvidenceInv'
<1>1. /\ observations' = observations \cup {put[w]}
      /\ evidence' = evidence \cup staged[w]
      /\ put' = put /\ staged'[w] = {} /\ pc'[w] = "idle"
      /\ \A x \in Writer \ {w} : /\ staged'[x] = staged[x] /\ pc'[x] = pc[x]
                                  /\ pos'[x] = pos[x]
  BY DEF Publish, TypeInv, TypeOK
<1>2. \A x \in Writer : StagedOwn(x) /\ StagedApart(x)
                        /\ PassedVisible(x) /\ AllVisible(x)
  BY StagedParts DEF EvidenceInv
<1>3. ASSUME NEW x \in Writer
      PROVE  StagedOwn(x)' /\ StagedApart(x)' /\ PassedVisible(x)' /\ AllVisible(x)'
  <2>1. CASE x = w
    BY <1>1, <2>1 DEF StagedOwn, StagedApart, PassedVisible, AllVisible,
                      HoldsObservation
  <2>2. CASE x # w
    <3>1. StagedOwn(x)'
      BY <1>1, <1>2, <2>2 DEF StagedOwn, StagedApart, VisibleEvidence
    <3>2. StagedApart(x)'
      BY <1>1, <1>2, <2>2 DEF StagedApart
    <3>3. PassedVisible(x)' /\ AllVisible(x)'
      BY <1>1, <1>2, <2>2
      DEF PassedVisible, AllVisible, HoldsObservation, VisibleEvidence
    <3>4. QED
      BY <3>1, <3>2, <3>3
  <2>3. QED
    BY <2>1, <2>2
<1>4. EvidenceStaged'
  BY <1>3 DEF EvidenceStaged, StagedOwn, StagedApart, PassedVisible, AllVisible
<1>5. EvidenceIntegrity'
  <2>1. \A i \in DOMAIN put[w].evidence : put[w].evidence[i] \in evidence'
    BY <1>1, <1>2 DEF AllVisible, HoldsObservation, VisibleEvidence
  <2>2. \A row, other \in evidence' : row.id = other.id => row = other
    BY <1>1, <1>2 DEF StagedOwn, VisibleEvidence, EvidenceInv, EvidenceIntegrity
  <2>3. QED
    BY <1>1, <2>1, <2>2 DEF EvidenceInv, EvidenceIntegrity
<1>6. NoOrphanEvidence'
  BY <1>1, <1>2 DEF StagedOwn, EvidenceInv, NoOrphanEvidence
<1>7. QED
  BY <1>4, <1>5, <1>6 DEF EvidenceInv

LEMMA EvidenceStep == TypeInv /\ EvidenceInv /\ [Next]_vars => EvidenceInv'
<1> SUFFICES ASSUME TypeInv, EvidenceInv, [Next]_vars PROVE EvidenceInv'
  OBVIOUS
<1>0. \A x \in Writer : PassedVisible(x) /\ AllVisible(x)
  BY StagedParts DEF EvidenceInv
<1>1. ASSUME NEW w \in Writer,
             \/ \E p \in Payload : Begin(w, p)
             \/ LookupIdentical(w) \/ ReturnExisting(w)
      PROVE EvidenceInv'
  BY <1>1, OutsideLoop
  DEF Begin, LookupIdentical, ReturnExisting, TypeInv, TypeOK,
      TransactionShape, database, transaction
<1>2. ASSUME NEW w \in Writer,
             \/ LookupConflict(w) \/ EvidenceConflict(w)
             \/ RetryAfterIntegrityError(w) \/ RaiseIntegrityError(w)
             \/ DeadlockVictim(w) \/ ConnectionLost(w)
      PROVE EvidenceInv'
  BY <1>2, OutsideLoop
  DEF LookupConflict, EvidenceConflict, RetryAfterIntegrityError,
      RaiseIntegrityError, DeadlockVictim, ConnectionLost, Raise, Rollback,
      TypeInv, TypeOK, database
<1>3. ASSUME NEW w \in Writer, LookupAbsent(w) \/ EvidenceAbsent(w)
      PROVE EvidenceInv'
  <2>1. pc'[w] \in {"evidence", "insert_evidence"}
        /\ (pc[w] = "lookup" => pos[w] = 1)
    BY <1>3 DEF LookupAbsent, EvidenceAbsent, TypeInv, TypeOK, TransactionShape
  <2>2. PassedVisible(w)' /\ AllVisible(w)'
    BY <1>0, <1>3, <2>1
    DEF LookupAbsent, EvidenceAbsent, PassedVisible, AllVisible,
        HoldsObservation, VisibleEvidence, database, transaction
  <2>3. QED
    BY <1>3, <2>2, NothingStaged
    DEF LookupAbsent, EvidenceAbsent, TypeInv, TypeOK, database, transaction
<1>4. ASSUME NEW w \in Writer, EvidenceReused(w) PROVE EvidenceInv'
  <2>1. PassedVisible(w)' /\ AllVisible(w)'
    BY <1>0, <1>4, NextVisible
    DEF EvidenceReused, VisibleEvidence, database
  <2>2. QED
    BY <1>4, <2>1, NothingStaged
    DEF EvidenceReused, NextReference, TypeInv, TypeOK, database
<1>5. ASSUME NEW w \in Writer, InsertEvidence(w) PROVE EvidenceInv'
  BY <1>5, InsertEvidenceStep
<1>6. ASSUME NEW w \in Writer,
             \/ InsertObservation(w) \/ InsertLinks(w) \/ InsertEntry(w)
             \/ Allocate(w)
      PROVE EvidenceInv'
  <2>1. PassedVisible(w)' /\ AllVisible(w)'
    BY <1>0, <1>6
    DEF InsertObservation, InsertLinks, InsertEntry, Allocate, Executes,
        PassedVisible, AllVisible, HoldsObservation, VisibleEvidence,
        TypeInv, TypeOK, database, transaction
  <2>2. QED
    BY <1>6, <2>1, NothingStaged
    DEF InsertObservation, InsertLinks, InsertEntry, Allocate, Executes,
        TypeInv, TypeOK, database, transaction
<1>7. ASSUME NEW w \in Writer, Commit(w) \/ CommitUnacknowledged(w)
      PROVE EvidenceInv'
  BY <1>7, PublishEvidence DEF Commit, CommitUnacknowledged
<1>8. CASE UNCHANGED vars
  BY <1>8
  DEF EvidenceInv, EvidenceStaged, EvidenceIntegrity, NoOrphanEvidence,
      HoldsObservation, VisibleEvidence, vars, database, transaction
<1>9. QED
  BY <1>1, <1>2, <1>3, <1>4, <1>5, <1>6, <1>7, <1>8 DEF Next, Step

LEMMA EvidenceInvariant == Spec => []EvidenceInv
<1>1. Init => TypeInv /\ EvidenceInv
  BY DEF Init, TypeInv, TypeOK, TransactionShape, Statement, Outcome,
         EvidenceInv, EvidenceStaged, EvidenceIntegrity, NoOrphanEvidence,
         HoldsObservation
<1>2. QED
  BY <1>1, TypeStep, EvidenceStep, PTL DEF Spec

(* Every stored observation finds the evidence it was submitted with, for  *)
(* any number of writers that share evidence identifiers.                  *)
THEOREM EvidenceIsIntact == Spec => []EvidenceIntegrity
<1>1. EvidenceInv => EvidenceIntegrity
  BY DEF EvidenceInv
<1>2. QED
  BY <1>1, EvidenceInvariant, PTL

(* A put that fails leaves no evidence row behind.                         *)
THEOREM EvidenceHasOwner == Spec => []NoOrphanEvidence
<1>1. EvidenceInv => NoOrphanEvidence
  BY DEF EvidenceInv
<1>2. QED
  BY <1>1, EvidenceInvariant, PTL

-----------------------------------------------------------------------------
(* What clients were told.                                                 *)

AnswerInv == VerifiesStored /\ AckedDurable

LEMMA AnswerStep == TypeInv /\ SequenceInv /\ AnswerInv /\ [Next]_vars => AnswerInv'
<1> SUFFICES ASSUME TypeInv, SequenceInv, AnswerInv, [Next]_vars PROVE AnswerInv'
  OBVIOUS
<1>1. ASSUME NEW w \in Writer, LookupIdentical(w) PROVE AnswerInv'
  <2>1. PICK p \in observations : p.obs = put[w].obs /\ p.hash = put[w].hash
    BY <1>1 DEF LookupIdentical
  <2>2. put[w] \in observations
    BY <1>1, <2>1, PayloadAssumption DEF LookupIdentical, TypeInv, TypeOK
  <2>3. QED
    BY <1>1, <2>2
    DEF LookupIdentical, AnswerInv, VerifiesStored, AckedDurable, TypeInv,
        TypeOK, database
<1>2. ASSUME NEW w \in Writer, ReturnExisting(w) PROVE AnswerInv'
  <2>1. put[w] \in observations
    BY <1>2 DEF ReturnExisting, AnswerInv, VerifiesStored
  <2>2. \A a \in acked' \ acked : \E e \in entries :
            a = [payload |-> put[w], seq |-> e.seq] /\ e.obs = put[w].obs
    BY <1>2 DEF ReturnExisting
  <2>3. ASSUME NEW e \in entries PROVE e = [seq |-> e.seq, obs |-> e.obs]
    <3>1. e \in [seq : Nat \ {0}, obs : ObservationId]
      BY DEF TypeInv, TypeOK
    <3>2. QED
      BY <3>1
  <2> UNCHANGED << observations, entries >>
    BY <1>2 DEF ReturnExisting, database
  <2>4. ASSUME NEW a \in acked'
        PROVE  /\ a.payload \in observations'
               /\ [seq |-> a.seq, obs |-> a.payload.obs] \in entries'
    <3>1. CASE a \in acked
      BY <3>1 DEF AnswerInv, AckedDurable
    <3>2. CASE a \notin acked
      <4>1. PICK e \in entries :
                a = [payload |-> put[w], seq |-> e.seq] /\ e.obs = put[w].obs
        BY <2>2, <3>2
      <4>2. a.payload = put[w] /\ a.seq = e.seq
        BY <4>1
      <4>3. QED
        BY <2>1, <2>3, <4>1, <4>2
    <3>3. QED
      BY <3>1, <3>2
  <2>5. QED
    BY <1>2, <2>4
    DEF ReturnExisting, AnswerInv, VerifiesStored, AckedDurable, TypeInv, TypeOK
<1>3. ASSUME NEW w \in Writer, Commit(w) \/ CommitUnacknowledged(w)
      PROVE AnswerInv'
  BY <1>3
  DEF Commit, CommitUnacknowledged, Publish, AnswerInv, VerifiesStored,
      AckedDurable, TypeInv, TypeOK
<1>4. ASSUME NEW w \in Writer,
             \/ \E p \in Payload : Begin(w, p)
             \/ LookupAbsent(w) \/ EvidenceReused(w) \/ EvidenceAbsent(w)
             \/ InsertEvidence(w) \/ InsertObservation(w) \/ InsertLinks(w)
             \/ Allocate(w) \/ InsertEntry(w)
      PROVE AnswerInv'
  BY <1>4
  DEF Begin, LookupAbsent, EvidenceReused, EvidenceAbsent, InsertEvidence,
      InsertObservation, InsertLinks, Allocate, InsertEntry, NextReference,
      AnswerInv, VerifiesStored, AckedDurable, TypeInv, TypeOK, database
<1>5. ASSUME NEW w \in Writer,
             \/ LookupConflict(w) \/ EvidenceConflict(w)
             \/ RetryAfterIntegrityError(w) \/ RaiseIntegrityError(w)
             \/ DeadlockVictim(w) \/ ConnectionLost(w)
      PROVE AnswerInv'
  BY <1>5
  DEF LookupConflict, EvidenceConflict, RetryAfterIntegrityError,
      RaiseIntegrityError, DeadlockVictim, ConnectionLost, Raise, Rollback,
      AnswerInv, VerifiesStored, AckedDurable, TypeInv, TypeOK, database
<1>6. CASE UNCHANGED vars
  BY <1>6 DEF AnswerInv, VerifiesStored, AckedDurable, vars, database
<1>7. QED
  BY <1>1, <1>2, <1>3, <1>4, <1>5, <1>6 DEF Next, Step

(* What a client was told about its observation stays true: the payload is *)
(* stored and its ingest sequence is the one it was given.                 *)
THEOREM AcknowledgedIsDurable == Spec => []AckedDurable
<1>1. Init => TypeInv /\ SequenceInv /\ AnswerInv
  BY DEF Init, TypeInv, TypeOK, TransactionShape, Statement, Outcome,
         SequenceInv, Exclusive, SequenceGapFree, HoldsObservation,
         AnswerInv, VerifiesStored, AckedDurable
<1>2. AnswerInv => AckedDurable
  BY DEF AnswerInv
<1>3. QED
  BY <1>1, <1>2, TypeStep, SequenceStep, AnswerStep, PTL DEF Spec

-----------------------------------------------------------------------------
(* What clients are refused for.                                           *)

\* The parts of RefusalsJustified for one writer.
ObservationRefused(w) ==
    outcome[w] = "observation_conflict" =>
        \E p \in observations : p.obs = put[w].obs /\ p.hash # put[w].hash

EvidenceRefused(w) ==
    outcome[w] = "evidence_conflict" =>
        \E i \in DOMAIN put[w].evidence :
            LET declared == put[w].evidence[i]
                own == {put[w].evidence[j] : j \in DOMAIN put[w].evidence}
            IN  \E row \in evidence \cup own :
                    row.id = declared.id /\ row.hash # declared.hash

Justified(w) ==
    /\ ObservationRefused(w) /\ EvidenceRefused(w)
    /\ outcome[w] # "sequence_invariant_error"

\* Rows are never removed, so a refusal stays justified.
LEMMA StaysJustified ==
    ASSUME NEW w \in Writer, Justified(w),
           observations \subseteq observations', evidence \subseteq evidence',
           put'[w] = put[w], outcome'[w] = outcome[w]
    PROVE  Justified(w)'
<1>1. ObservationRefused(w)'
  BY DEF Justified, ObservationRefused
<1>2. EvidenceRefused(w)'
  <2>1. SUFFICES ASSUME outcome[w] = "evidence_conflict"
                 PROVE  EvidenceRefused(w)'
    BY DEF EvidenceRefused
  <2> DEFINE own == {put[w].evidence[j] : j \in DOMAIN put[w].evidence}
  <2>2. PICK i \in DOMAIN put[w].evidence : \E row \in evidence \cup own :
            row.id = put[w].evidence[i].id /\ row.hash # put[w].evidence[i].hash
    BY <2>1 DEF Justified, EvidenceRefused
  <2>3. PICK row \in evidence \cup own :
            row.id = put[w].evidence[i].id /\ row.hash # put[w].evidence[i].hash
    BY <2>2
  <2>4. row \in evidence' \cup own
    BY <2>3
  <2>5. QED
    BY <2>2, <2>3, <2>4 DEF EvidenceRefused
<1>3. QED
  BY <1>1, <1>2 DEF Justified

LEMMA OthersJustified ==
    ASSUME RefusalsJustified, NEW w \in Writer, Justified(w)',
           observations \subseteq observations', evidence \subseteq evidence',
           \A x \in Writer \ {w} : put'[x] = put[x] /\ outcome'[x] = outcome[x]
    PROVE  RefusalsJustified'
<1>1. \A x \in Writer : Justified(x)
  BY DEF RefusalsJustified, Justified, ObservationRefused, EvidenceRefused
<1>2. \A x \in Writer : Justified(x)'
  BY <1>1, StaysJustified
<1>3. QED
  BY <1>2 DEF RefusalsJustified, Justified, ObservationRefused, EvidenceRefused

LEMMA RefusalStep ==
    TypeInv /\ SequenceInv /\ EvidenceInv /\ AnswerInv /\ RefusalsJustified
      /\ [Next]_vars => RefusalsJustified'
<1> SUFFICES ASSUME TypeInv, SequenceInv, EvidenceInv, AnswerInv,
                    RefusalsJustified, [Next]_vars
             PROVE  RefusalsJustified'
  OBVIOUS
<1>0. \A x \in Writer : Justified(x)
  BY DEF RefusalsJustified, Justified, ObservationRefused, EvidenceRefused
<1>1. ASSUME NEW w \in Writer, LookupConflict(w) PROVE RefusalsJustified'
  <2>1. Justified(w)'
    BY <1>1
    DEF LookupConflict, Raise, Rollback, database, Justified,
        ObservationRefused, EvidenceRefused, TypeInv, TypeOK
  <2>2. QED
    BY <1>1, <2>1, OthersJustified
    DEF LookupConflict, Raise, Rollback, database, TypeInv, TypeOK
<1>2. ASSUME NEW w \in Writer, ReturnExisting(w) PROVE RefusalsJustified'
  <2>1. put[w] \in observations
    BY <1>2 DEF ReturnExisting, AnswerInv, VerifiesStored
  <2>2. \A i \in DOMAIN put[w].evidence : put[w].evidence[i] \in evidence
    BY <2>1 DEF EvidenceInv, EvidenceIntegrity
  <2>3. {e \in entries : e.obs = put[w].obs} # {}
    BY <2>1 DEF SequenceInv, SequenceGapFree
  <2>4. outcome'[w] = "existing"
    BY <1>2, <2>2, <2>3 DEF ReturnExisting, TypeInv, TypeOK
  <2>5. Justified(w)'
    BY <2>4 DEF Justified, ObservationRefused, EvidenceRefused
  <2>6. QED
    BY <1>2, <2>5, OthersJustified DEF ReturnExisting, database, TypeInv, TypeOK
<1>3. ASSUME NEW w \in Writer, EvidenceConflict(w) PROVE RefusalsJustified'
  <2> DEFINE refs == put[w].evidence
             own == {refs[j] : j \in DOMAIN refs}
  <2>1. pos[w] \in DOMAIN refs /\ Declared(w) = refs[pos[w]]
    BY <1>3 DEF EvidenceConflict, TypeInv, TypeOK, Declared
  <2>2. PICK row \in VisibleEvidence(w) :
            row.id = Declared(w).id /\ row.hash # Declared(w).hash
    BY <1>3 DEF EvidenceConflict
  <2>3. \A r \in staged[w] : r \in own
    BY DEF EvidenceInv, EvidenceStaged
  <2>4. row \in evidence \cup own
    BY <2>2, <2>3 DEF VisibleEvidence
  <2>5. UNCHANGED << put, evidence, observations >>
        /\ outcome'[w] = "evidence_conflict"
    BY <1>3 DEF EvidenceConflict, Raise, Rollback, database, TypeInv, TypeOK
  <2>6. EvidenceRefused(w)'
    BY <2>1, <2>2, <2>4, <2>5 DEF EvidenceRefused
  <2>7. Justified(w)'
    BY <2>5, <2>6 DEF Justified, ObservationRefused
  <2>8. QED
    BY <1>3, <2>5, <2>7, OthersJustified DEF EvidenceConflict, Raise, TypeInv, TypeOK
<1>4. ASSUME NEW w \in Writer, NEW p \in Payload, Begin(w, p)
      PROVE  RefusalsJustified'
  <2>1. Justified(w)'
    BY <1>4 DEF Begin, Justified, ObservationRefused, EvidenceRefused,
                TypeInv, TypeOK
  <2>2. QED
    BY <1>4, <2>1, OthersJustified DEF Begin, database, TypeInv, TypeOK
<1>5. ASSUME NEW w \in Writer,
             \/ RaiseIntegrityError(w) \/ DeadlockVictim(w) \/ ConnectionLost(w)
      PROVE RefusalsJustified'
  <2>1. outcome'[w] \in {"integrity_error", "deadlock", "connection_lost"}
    BY <1>5 DEF RaiseIntegrityError, DeadlockVictim, ConnectionLost, Raise,
                TypeInv, TypeOK
  <2>2. Justified(w)'
    BY <2>1 DEF Justified, ObservationRefused, EvidenceRefused
  <2>3. QED
    BY <1>5, <2>2, OthersJustified
    DEF RaiseIntegrityError, DeadlockVictim, ConnectionLost, Raise, Rollback,
        database, TypeInv, TypeOK
<1>6. ASSUME NEW w \in Writer, Commit(w) \/ CommitUnacknowledged(w)
      PROVE  RefusalsJustified'
  <2>1. outcome'[w] \in {"created", "connection_lost"}
    BY <1>6 DEF Commit, CommitUnacknowledged, TypeInv, TypeOK
  <2>2. Justified(w)'
    BY <2>1 DEF Justified, ObservationRefused, EvidenceRefused
  <2>3. QED
    BY <1>6, <2>2, OthersJustified
    DEF Commit, CommitUnacknowledged, Publish, TypeInv, TypeOK
<1>7. ASSUME NEW w \in Writer,
             \/ LookupAbsent(w) \/ LookupIdentical(w)
             \/ EvidenceReused(w) \/ EvidenceAbsent(w)
             \/ InsertEvidence(w) \/ InsertObservation(w) \/ InsertLinks(w)
             \/ Allocate(w) \/ InsertEntry(w) \/ RetryAfterIntegrityError(w)
      PROVE RefusalsJustified'
  <2>1. UNCHANGED << observations, evidence, put, outcome >>
    BY <1>7
    DEF LookupAbsent, LookupIdentical, EvidenceReused, EvidenceAbsent,
        InsertEvidence, InsertObservation, InsertLinks, Allocate, InsertEntry,
        RetryAfterIntegrityError, Rollback, database
  <2>2. QED
    BY <1>0, <2>1, StaysJustified, OthersJustified
<1>8. CASE UNCHANGED vars
  BY <1>8 DEF RefusalsJustified, vars, database
<1>9. QED
  BY <1>1, <1>2, <1>3, <1>4, <1>5, <1>6, <1>7, <1>8 DEF Next, Step

(* Nobody is refused for a lost race: whoever is told of a conflict used   *)
(* an identifier that is stored, or declared twice, with something else,   *)
(* and a stored observation never lacks its evidence or its sequence.      *)
THEOREM RefusalsAreJustified == Spec => []RefusalsJustified
<1>1. Init => /\ TypeInv /\ SequenceInv /\ EvidenceInv /\ AnswerInv
              /\ RefusalsJustified
  BY DEF Init, TypeInv, TypeOK, TransactionShape, Statement, Outcome,
         SequenceInv, Exclusive, SequenceGapFree, HoldsObservation,
         EvidenceInv, EvidenceStaged, EvidenceIntegrity, NoOrphanEvidence,
         AnswerInv, VerifiesStored, AckedDurable, RefusalsJustified
<1>2. QED
  BY <1>1, TypeStep, SequenceStep, EvidenceStep, AnswerStep, RefusalStep, PTL
  DEF Spec

-----------------------------------------------------------------------------
(* The store implements the log.                                           *)

\* The INSERT of an identifier waits until nobody else can commit it, so that
\* a stored identifier has one payload.
OnePayload == \A p, q \in observations : p.obs = q.obs => p = q

ObservationAt(n) ==
    CHOOSE p \in observations : [seq |-> n, obs |-> p.obs] \in entries

\* The payload at a position, once it is known, is what CommittedLog holds.
LEMMA AtPosition ==
    ASSUME SequenceInv, OnePayload, NEW n \in 1..lastSequence,
           NEW p \in observations, [seq |-> n, obs |-> p.obs] \in entries
    PROVE  CommittedLog[n] = p
<1>1. ASSUME NEW q \in observations, [seq |-> n, obs |-> q.obs] \in entries
      PROVE  q = p
  <2>1. [seq |-> n, obs |-> q.obs] = [seq |-> n, obs |-> p.obs]
    BY <1>1 DEF SequenceInv, SequenceGapFree
  <2>2. QED
    BY <2>1 DEF OnePayload
<1>2. (CHOOSE q \in observations : [seq |-> n, obs |-> q.obs] \in entries) = p
  BY <1>1
<1>3. QED
  BY <1>2 DEF CommittedLog

\* Every position up to the last has a stored observation.
LEMMA Occupied ==
    ASSUME TypeInv, SequenceInv, NEW n \in 1..lastSequence
    PROVE  \E p \in observations : [seq |-> n, obs |-> p.obs] \in entries
<1>1. PICK e \in entries : e.seq = n
  BY DEF SequenceInv, SequenceGapFree
<1>2. PICK p \in observations : p.obs = e.obs
  BY DEF SequenceInv, SequenceGapFree
<1>3. e = [seq |-> n, obs |-> p.obs]
  BY <1>1, <1>2 DEF TypeInv, TypeOK
<1>4. QED
  BY <1>3

LEMMA OnePayloadStep ==
    TypeInv /\ SequenceInv /\ OnePayload /\ [Next]_vars => OnePayload'
<1> SUFFICES ASSUME TypeInv, SequenceInv, OnePayload, [Next]_vars
             PROVE  OnePayload'
  OBVIOUS
<1>1. ASSUME NEW w \in Writer, Commit(w) \/ CommitUnacknowledged(w)
      PROVE  OnePayload'
  <2>1. \A p \in observations : p.obs # put[w].obs
    BY <1>1 DEF Commit, CommitUnacknowledged, SequenceInv, Exclusive,
                HoldsObservation
  <2>2. QED
    BY <1>1, <2>1 DEF Commit, CommitUnacknowledged, Publish, OnePayload
<1>2. CASE UNCHANGED database
  BY <1>2 DEF OnePayload, database
<1>3. UNCHANGED database \/ \E w \in Writer : Commit(w) \/ CommitUnacknowledged(w)
  BY DEF Next, Step, vars, Begin, LookupAbsent, LookupIdentical,
         LookupConflict, ReturnExisting, EvidenceReused, EvidenceConflict,
         EvidenceAbsent, InsertEvidence, InsertObservation, InsertLinks,
         Allocate, InsertEntry, RetryAfterIntegrityError, RaiseIntegrityError,
         DeadlockVictim, ConnectionLost, Raise, Rollback
<1>4. QED
  BY <1>1, <1>2, <1>3

\* A sequence that goes on by one element is the shorter one with it appended.
LEMMA LongerLog ==
    ASSUME NEW S, NEW n \in Nat, NEW f \in [1..n -> S],
           NEW g \in [1..(n + 1) -> S], NEW x \in S,
           \A i \in 1..n : g[i] = f[i], g[n + 1] = x
    PROVE  g = Append(f, x)
<1>1. f \in Seq(S) /\ Len(f) = n
  OBVIOUS
<1>2. g \in Seq(S) /\ Len(g) = n + 1
  OBVIOUS
<1>3. \A i \in 1..(n + 1) : g[i] = Append(f, x)[i]
  BY <1>1
<1>4. QED
  BY <1>1, <1>2, <1>3

\* A COMMIT appends what it stored; the positions before it keep theirs.
LEMMA PublishAppends ==
    ASSUME TypeInv, SequenceInv, OnePayload, SequenceInv', OnePayload',
           NEW w \in Writer, pc[w] = "commit", Publish(w)
    PROVE  /\ \A n \in DOMAIN CommittedLog : CommittedLog[n].obs # put[w].obs
           /\ CommittedLog' = Append(CommittedLog, put[w])
<1>1. /\ lastSequence \in Nat /\ put[w] \in Payload
      /\ allocated[w] = lastSequence + 1
      /\ \A p \in observations : p.obs # put[w].obs
  BY DEF TypeInv, TypeOK, TransactionShape, SequenceInv, Exclusive,
         HoldsObservation
<1>2. /\ lastSequence' = lastSequence + 1
      /\ observations' = observations \cup {put[w]}
      /\ entries' = entries \cup {[seq |-> lastSequence + 1, obs |-> put[w].obs]}
  BY <1>1 DEF Publish
<1>3. DOMAIN CommittedLog = 1..lastSequence
      /\ DOMAIN CommittedLog' = 1..(lastSequence + 1)
  BY <1>2 DEF CommittedLog
<1>4. ASSUME NEW n \in 1..lastSequence
      PROVE  CommittedLog[n] \in observations /\ CommittedLog'[n] = CommittedLog[n]
  <2>1. PICK p \in observations : [seq |-> n, obs |-> p.obs] \in entries
    BY Occupied
  <2>2. CommittedLog[n] = p
    BY <2>1, AtPosition
  <2>3. n \in 1..lastSequence' /\ p \in observations'
        /\ [seq |-> n, obs |-> p.obs] \in entries'
    BY <1>1, <1>2, <2>1
  <2>4. CommittedLog'[n] = p
    <3>1. ASSUME NEW q \in observations', [seq |-> n, obs |-> q.obs] \in entries'
          PROVE  q = p
      <4>1. [seq |-> n, obs |-> q.obs] = [seq |-> n, obs |-> p.obs]
        BY <2>3, <3>1 DEF SequenceInv, SequenceGapFree
      <4>2. QED
        BY <2>3, <4>1 DEF OnePayload
    <3>2. (CHOOSE q \in observations' : [seq |-> n, obs |-> q.obs] \in entries') = p
      BY <2>3, <3>1
    <3>3. QED
      BY <2>3, <3>2 DEF CommittedLog
  <2>5. QED
    BY <2>2, <2>4
<1>5. CommittedLog'[lastSequence + 1] = put[w]
  <2> DEFINE last == lastSequence + 1
  <2>1. put[w] \in observations' /\ [seq |-> last, obs |-> put[w].obs] \in entries'
    BY <1>2
  <2>2. ASSUME NEW q \in observations', [seq |-> last, obs |-> q.obs] \in entries'
        PROVE  q = put[w]
    <3>1. [seq |-> last, obs |-> q.obs] = [seq |-> last, obs |-> put[w].obs]
      BY <2>1, <2>2 DEF SequenceInv, SequenceGapFree
    <3>2. QED
      BY <2>1, <3>1 DEF OnePayload
  <2>3. (CHOOSE q \in observations' : [seq |-> last, obs |-> q.obs] \in entries')
           = put[w]
    BY <2>1, <2>2
  <2>4. last \in 1..lastSequence'
    BY <1>1, <1>2
  <2>5. QED
    BY <2>3, <2>4 DEF CommittedLog
<1>6. CommittedLog' = Append(CommittedLog, put[w])
  <2>1. /\ CommittedLog \in [1..lastSequence -> observations']
        /\ CommittedLog' \in [1..(lastSequence + 1) -> observations']
    <3>1. CommittedLog = [n \in 1..lastSequence |-> ObservationAt(n)]
      BY DEF CommittedLog, ObservationAt
    <3>2. CommittedLog' = [n \in 1..lastSequence' |-> ObservationAt(n)']
      BY DEF CommittedLog, ObservationAt
    <3>3. \A n \in 1..(lastSequence + 1) :
             n \in 1..lastSequence \/ n = lastSequence + 1
      BY <1>1
    <3>4. \A n \in 1..(lastSequence + 1) : CommittedLog'[n] \in observations'
      BY <1>2, <1>4, <1>5, <3>3
    <3>5. QED
      BY <1>2, <1>4, <3>1, <3>2, <3>4
  <2>2. QED
    BY <1>1, <1>2, <1>4, <1>5, <2>1, LongerLog
<1>7. QED
  BY <1>1, <1>3, <1>4, <1>6

(* Every transaction of every writer, seen from outside, appends one new   *)
(* observation to the log at its commit and changes nothing at any other   *)
(* statement, for any number of writers and payloads.                      *)
THEOREM StoreImplementsLog == Spec => ImplementsIngestLog
<1>1. Init => TypeInv /\ SequenceInv /\ OnePayload
  BY DEF Init, TypeInv, TypeOK, TransactionShape, Statement, Outcome,
         SequenceInv, Exclusive, SequenceGapFree, HoldsObservation, OnePayload
<1>2. Init => Log!Init
  BY DEF Init, Log!Init, CommittedLog
<1>3. TypeInv /\ SequenceInv /\ OnePayload /\ SequenceInv' /\ OnePayload'
        /\ [Next]_vars => [Log!Next]_CommittedLog
  <2> SUFFICES ASSUME TypeInv, SequenceInv, OnePayload, SequenceInv',
                      OnePayload', [Next]_vars
               PROVE  [Log!Next]_CommittedLog
    OBVIOUS
  <2>1. ASSUME NEW w \in Writer, Commit(w) \/ CommitUnacknowledged(w)
        PROVE  Log!Next
    <3>1. pc[w] = "commit" /\ Publish(w) /\ put[w] \in Payload
      BY <2>1 DEF Commit, CommitUnacknowledged, TypeInv, TypeOK
    <3>2. Log!AppendObservation(put[w])
      BY <3>1, PublishAppends DEF Log!AppendObservation
    <3>3. QED
      BY <3>1, <3>2 DEF Log!Next
  <2>2. CASE UNCHANGED database
    BY <2>2 DEF CommittedLog, database
  <2>3. UNCHANGED database
        \/ \E w \in Writer : Commit(w) \/ CommitUnacknowledged(w)
    BY DEF Next, Step, vars, Begin, LookupAbsent, LookupIdentical,
           LookupConflict, ReturnExisting, EvidenceReused, EvidenceConflict,
           EvidenceAbsent, InsertEvidence, InsertObservation, InsertLinks,
           Allocate, InsertEntry, RetryAfterIntegrityError,
           RaiseIntegrityError, DeadlockVictim, ConnectionLost, Raise, Rollback
  <2>4. QED
    BY <2>1, <2>2, <2>3
<1>4. QED
  BY <1>1, <1>2, <1>3, TypeStep, SequenceStep, OnePayloadStep, PTL
  DEF Spec, ImplementsIngestLog, Log!Spec

=============================================================================
