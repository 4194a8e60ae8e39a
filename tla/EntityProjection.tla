-------------------------- MODULE EntityProjection --------------------------
(***************************************************************************)
(* EntityProjectionHandler: one row per entity identifier, with the claim  *)
(* (label and attributes) of the observation that is latest in event time, *)
(* its lineage, and the spans of its evidence and of its identity claims.  *)
(***************************************************************************)
EXTENDS Projection

VARIABLES
    entities,           \* entity identifier -> row
    entityObservations, \* lineage: the observations of each entity
    entityEvidence,     \* << entity, evidence >> -> span
    identityClaims      \* << entity, identity key >> -> span

entityTables ==
    << entities, entityObservations, entityEvidence, identityClaims >>

EntityInit ==
    /\ entities = << >>
    /\ entityObservations = {}
    /\ entityEvidence = << >>
    /\ identityClaims = << >>

References(o) == {o.subject} \cup o.object

EntityIds(o) == {r.id : r \in References(o)}

Reference(o, id) == CHOOSE r \in References(o) : r.id = id

\* Subject and object share an identifier and differ in something else.
ConflictingReferences(o) ==
    \E r, s \in References(o) : r.id = s.id /\ r # s

TypeConflict(o) ==
    \E r \in References(o) :
        r.id \in DOMAIN entities /\ entities[r.id].type # r.type

EntityPoison ==
    /\ Ready("entity")
    /\ LET o == log[NextItem("entity")]
       IN  ConflictingReferences(o) \/ TypeConflict(o)

\* Fault: the claim that arrives last wins, whatever its event time.
LaterArrival(claimed, other) == claimed[2] > other[2]

\* The order in which claims replace each other.
Later(claimed, other) ==
    \/ claimed[1] > other[1]
    \/ claimed[1] = other[1] /\ claimed[2] > other[2]

EntityRow(r, n) ==
    LET claimed == << log[n].time, n >>
        row == entities[r.id]
        widened == [row EXCEPT !.span = Widened(row.span, n)]
    IN  IF r.id \notin DOMAIN entities
        THEN [type |-> r.type, claim |-> r.claim, claimed |-> claimed,
              span |-> SpanAt(n)]
        ELSE IF Later(claimed, row.claimed)
        THEN [widened EXCEPT !.claim = r.claim, !.claimed = claimed]
        ELSE widened

ProjectEntities ==
    LET n == NextItem("entity")
        o == log[n]
    IN  /\ Ready("entity")
        /\ ~EntityPoison
        /\ entities' =
             [id \in DOMAIN entities \cup EntityIds(o) |->
                IF id \in EntityIds(o) THEN EntityRow(Reference(o, id), n)
                                       ELSE entities[id]]
        /\ entityObservations' = entityObservations \cup
             {[entity |-> o.subject.id, role |-> "subject", sequence |-> n]}
             \cup {[entity |-> r.id, role |-> "object", sequence |-> n] :
                        r \in o.object}
        /\ entityEvidence' =
             Upserted(entityEvidence, EntityIds(o) \X o.evidence, n)
        /\ identityClaims' =
             Upserted(identityClaims,
                      UNION {{r.id} \X r.keys : r \in References(o)}, n)
        /\ Processed("entity")

PoisonEntity ==
    /\ EntityPoison
    /\ Poisoned("entity")
    /\ UNCHANGED entityTables

-----------------------------------------------------------------------------

(* The columns, checks and foreign keys of the tables.                     *)

EntityRecord(row) ==
    /\ row.type \in EntityType
    /\ Ordered(row.span)
    /\ row.claimed[1] \in row.span.firstSeen..row.span.lastSeen
    /\ row.claimed[2] \in row.span.firstSequence..row.span.lastSequence

EntityObservationRecord(row) ==
    /\ row.entity \in DOMAIN entities
    /\ row.role \in {"subject", "object"}
    /\ row.sequence \in DOMAIN log

EntityEvidenceRecord(key, span) ==
    /\ key[1] \in DOMAIN entities
    /\ \E n \in DOMAIN log : key[2] \in log[n].evidence
    /\ Ordered(span)

EntityIdentityClaimRecord(key, span) ==
    /\ key[1] \in DOMAIN entities
    /\ Ordered(span)

EntityTypeOK ==
    /\ \A id \in DOMAIN entities : EntityRecord(entities[id])
    /\ \A row \in entityObservations : EntityObservationRecord(row)
    /\ \A k \in DOMAIN entityEvidence :
          EntityEvidenceRecord(k, entityEvidence[k])
    /\ \A k \in DOMAIN identityClaims :
          EntityIdentityClaimRecord(k, identityClaims[k])

-----------------------------------------------------------------------------
(* What the entity tables must hold, said of the log alone.                *)

\* The positions up to the checkpoint that mention the entity.
Mentions(id) == {n \in 1..checkpoint["entity"] : id \in EntityIds(log[n])}

\* The position of the claim that is latest in event time, and the last of
\* those in ingest order.
LatestMention(id) ==
    CHOOSE n \in Mentions(id) : \A m \in Mentions(id) :
        \/ log[m].time < log[n].time
        \/ log[m].time = log[n].time /\ m <= n

(***************************************************************************)
(* Whatever the order in which observations arrive, an entity row is what  *)
(* its lineage says: it shows the claim that is latest in event time, and  *)
(* it, its evidence and its identity claims span exactly the observations  *)
(* that mention them (EntityProjectionHandler._upsert_entity and its       *)
(* siblings keep these values incrementally).                              *)
(***************************************************************************)
EntitiesMatchLineage ==
    /\ DOMAIN entities =
          UNION {EntityIds(log[n]) : n \in 1..checkpoint["entity"]}
    /\ \A id \in DOMAIN entities :
          /\ {row.sequence : row \in {r \in entityObservations :
                                         r.entity = id}} = Mentions(id)
          /\ entities[id].claim = Reference(log[LatestMention(id)], id).claim
          /\ entities[id].span = SpanOver(Mentions(id))
    /\ \A k \in DOMAIN entityEvidence :
          entityEvidence[k] =
             SpanOver({n \in Mentions(k[1]) : k[2] \in log[n].evidence})
    /\ \A k \in DOMAIN identityClaims :
          identityClaims[k] =
             SpanOver({n \in Mentions(k[1]) :
                          k[2] \in Reference(log[n], k[1]).keys})

=============================================================================
