----------------------- MODULE RelationshipProjection -----------------------
(***************************************************************************)
(* The relationship graph and RelationshipProjectionHandler, which records *)
(* in it the relationships that observations state directly.  The graph    *)
(* has two writers: CorrelationProjection adds the relationships that      *)
(* rules derive.                                                           *)
(***************************************************************************)
EXTENDS Projection

VARIABLES
    relationships,      \* relationship identifier -> row
    lineage,            \* the observations of each relationship
    relationshipEvidence    \* << relationship, evidence >> -> span

graphTables == << relationships, lineage, relationshipEvidence >>

GraphInit ==
    /\ relationships = << >>
    /\ lineage = {}
    /\ relationshipEvidence = << >>

\* relationship_id is a digest of these; the types of the ends are no part of
\* it.
RelationshipId(source, type, target, provenance, rule) ==
    [source |-> source, type |-> type, target |-> target,
     provenance |-> provenance, rule |-> rule]

\* An edge to be recorded: its identifier, the types of its ends, and its
\* confidence.
Edge(id, source, target, confidence) ==
    [id |-> id, sourceType |-> source, targetType |-> target,
     confidence |-> confidence]

\* The edge an observation states, if any.
Direct(o) ==
    {Edge(RelationshipId(o.subject.id, type, target.id, "observed", "none"),
          o.subject.type, target.type, o.confidence) :
        type \in o.relationship, target \in o.object}

\* The identifier is taken by an edge between entities of other types.
Collides(edge) ==
    /\ edge.id \in DOMAIN relationships
    /\ LET row == relationships[edge.id]
       IN  << row.sourceType, row.targetType >>
              # << edge.sourceType, edge.targetType >>

RelationshipRow(edge, n) ==
    LET row == relationships[edge.id]
    IN  IF edge.id \notin DOMAIN relationships
        THEN [sourceType |-> edge.sourceType, targetType |-> edge.targetType,
              confidence |-> edge.confidence, span |-> SpanAt(n)]
        ELSE [row EXCEPT !.confidence = Greatest(@, edge.confidence),
                         !.span = Widened(@, n)]

RelationshipsAfter(edges, n) ==
    LET ids == {e.id : e \in edges}
    IN  [id \in DOMAIN relationships \cup ids |->
           IF id \in ids
           THEN RelationshipRow(CHOOSE e \in edges : e.id = id, n)
           ELSE relationships[id]]

LineageAfter(edges, n) ==
    lineage \cup {[relationship |-> e.id, sequence |-> n] : e \in edges}

-----------------------------------------------------------------------------

\* The ontology does not admit the edge.
RelationshipPoison ==
    /\ Ready("relationship")
    /\ LET o == log[NextItem("relationship")]
       IN  \E type \in o.relationship, target \in o.object :
              ~ValidEdge(type, o.subject.type, target.type)

ProjectRelationship ==
    LET n == NextItem("relationship")
        edges == Direct(log[n])
    IN  /\ Ready("relationship")
        /\ ~RelationshipPoison
        /\ \A e \in edges : ~Collides(e)
        /\ relationships' = RelationshipsAfter(edges, n)
        /\ lineage' = LineageAfter(edges, n)
        /\ relationshipEvidence' =
             Upserted(relationshipEvidence,
                      {e.id : e \in edges} \X log[n].evidence, n)
        /\ Processed("relationship")

PoisonRelationship ==
    /\ RelationshipPoison
    /\ Poisoned("relationship")
    /\ UNCHANGED graphTables

-----------------------------------------------------------------------------
(* The columns, checks, unique keys and foreign keys of the tables.        *)

\* Observed edges have no rule, derived ones have one.
RelationshipRecord(id, row) ==
    /\ id.type \in RelationshipType
    /\ id.provenance \in {"observed", "deterministic"}
    /\ (id.provenance = "observed") <=> (id.rule = "none")
    /\ row.sourceType \in EntityType
    /\ row.targetType \in EntityType
    /\ row.confidence \in 0..100
    /\ Ordered(row.span)

RelationshipObservationRecord(row) ==
    /\ row.relationship \in DOMAIN relationships
    /\ row.sequence \in DOMAIN log

RelationshipEvidenceRecord(key, span) ==
    /\ key[1] \in DOMAIN relationships
    /\ \E n \in DOMAIN log : key[2] \in log[n].evidence
    /\ Ordered(span)

GraphTypeOK ==
    /\ \A id \in DOMAIN relationships :
          RelationshipRecord(id, relationships[id])
    /\ \A row \in lineage : RelationshipObservationRecord(row)
    /\ \A k \in DOMAIN relationshipEvidence :
          RelationshipEvidenceRecord(k, relationshipEvidence[k])

=============================================================================
