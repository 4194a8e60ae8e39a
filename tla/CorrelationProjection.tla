----------------------- MODULE CorrelationProjection ------------------------
(***************************************************************************)
(* CorrelationProjectionHandler over the rules of CorrelationGraphReader:  *)
(* an observation may trigger the derivation of a relationship from others *)
(* that were observed or derived at earlier positions.                     *)
(***************************************************************************)
EXTENDS RelationshipProjection

CONSTANTS
    Ruleset,        \* the rules of the configured ruleset version
    Blank           \* the identifiers made of white space alone

VARIABLE derivations    \* derivation rows with their supports and evidence

correlationTables == << graphTables, derivations >>

CorrelationInit == derivations = {}

Rules ==
    [COR_SEQ_001 |-> [type |-> "exploited", confidence |-> 85],
     COR_SEQ_002 |-> [type |-> "compromised", confidence |-> 92],
     COR_SEQ_003 |-> [type |-> "moved_laterally_to", confidence |-> 90]]

ASSUME RulesetAssumption == Ruleset \subseteq DOMAIN Rules

-----------------------------------------------------------------------------
(* CorrelationGraphReader: what was known before position n.               *)

\* Fault: the trigger itself and what follows it count as well.
KnownAtAnyTime(id, n) == \E row \in lineage : row.relationship = id

KnownBefore(id, n) ==
    \E row \in lineage : row.relationship = id /\ row.sequence < n

PriorVulnerabilities(entity, n) ==
    {id \in DOMAIN relationships :
        /\ id.type = "has_vulnerability"
        /\ id.provenance = "observed"
        /\ id.source = entity
        /\ KnownBefore(id, n)}

PriorExploits(source, target, n) ==
    {id \in DOMAIN relationships :
        /\ id.type = "exploited"
        /\ id.provenance \in {"observed", "deterministic"}
        /\ id.source = source
        /\ id.target = target
        /\ KnownBefore(id, n)}

PriorCompromises(entity, n) ==
    {id \in DOMAIN relationships :
        /\ id.type = "compromised"
        /\ id.provenance \in {"observed", "deterministic"}
        /\ id.target = entity
        /\ KnownBefore(id, n)}

\* The evidence of the observations that made the supports known before n.
PriorEvidence(supports, n) ==
    UNION {log[row.sequence].evidence :
             row \in {r \in lineage : /\ r.relationship \in supports
                                      /\ r.sequence < n}}

\* Facts with these supports disagree about the types of their ends.
SourceTypesOf(supports) == {relationships[id].sourceType : id \in supports}
TargetTypesOf(supports) == {relationships[id].targetType : id \in supports}

-----------------------------------------------------------------------------
(* The rules.  Each yields at most one candidate for an observation.       *)

Candidate(rule, source, sourceType, target, supports) ==
    [edge |-> Edge(RelationshipId(source, Rules[rule].type, target.id,
                                  "deterministic", rule),
                   sourceType, target.type, Rules[rule].confidence),
     supports |-> supports]

\* COR-SEQ-001: an exploit attempt against what is known to be vulnerable.
Exploits(n) ==
    LET o == log[n]
        supports(target) == PriorVulnerabilities(target.id, n)
    IN  {Candidate("COR_SEQ_001", o.subject.id, o.subject.type, target,
                   supports(target)) :
           target \in {t \in o.object :
                         /\ o.activity = "exploit_attempt"
                         /\ ValidEdge("exploited", o.subject.type, t.type)
                         /\ supports(t) # {}}}

\* A process flagged with True and nothing else, with a nonblank source.
Suspicious(o) ==
    /\ o.class = "process_activity"
    /\ o.suspicious_child = "true"
    /\ o.attack_source \cap Blank = {}

\* The process and its attack source, and the exploits they refer to.
SuspiciousChildren(n) ==
    LET o == log[n]
    IN  {c \in [source : o.attack_source, target : o.object,
                supports : {PriorExploits(s, t.id, n) :
                              s \in o.attack_source, t \in o.object}] :
            /\ Suspicious(o)
            /\ c.supports # {}}

\* COR-SEQ-002: a suspicious process where an exploit went before.
Compromises(n) ==
    {Candidate("COR_SEQ_002", c.source,
               CHOOSE t \in SourceTypesOf(c.supports) : TRUE,
               c.target, c.supports) :
        c \in {c \in SuspiciousChildren(n) :
                 \A t \in SourceTypesOf(c.supports) :
                    ValidEdge("compromised", t, c.target.type)}}

\* COR-SEQ-003: an authentication from what is known to be compromised.
LateralMoves(n) ==
    LET o == log[n]
        supports == PriorCompromises(o.subject.id, n)
    IN  {Candidate("COR_SEQ_003", o.subject.id, o.subject.type, target,
                   supports) :
           target \in {t \in o.object :
                         /\ o.class = "authentication"
                         /\ supports # {}
                         /\ ValidEdge("moved_laterally_to", o.subject.type,
                                      t.type)}}

CandidatesOf(rule, n) ==
    CASE rule = "COR_SEQ_001" -> Exploits(n)
      [] rule = "COR_SEQ_002" -> Compromises(n)
      [] rule = "COR_SEQ_003" -> LateralMoves(n)

Candidates(n) == UNION {CandidatesOf(rule, n) : rule \in Ruleset}

\* CorrelationGraphInvariantError: supports that disagree about types.
ConflictingSupports(n) ==
    \/ /\ "COR_SEQ_002" \in Ruleset
       /\ \E c \in SuspiciousChildren(n) :
             \/ Cardinality(SourceTypesOf(c.supports)) # 1
             \/ TargetTypesOf(c.supports) # {c.target.type}
    \/ /\ "COR_SEQ_003" \in Ruleset
       /\ log[n].class = "authentication" /\ log[n].object # {}
       /\ LET supports == PriorCompromises(log[n].subject.id, n)
          IN  /\ supports # {}
              /\ TargetTypesOf(supports) # {log[n].subject.type}

-----------------------------------------------------------------------------

\* Fault: the dependency must be ahead of the item.
RelationshipAhead(n) == checkpoint["relationship"] > n

RelationshipCaughtUp(n) == checkpoint["relationship"] >= n

Derivation(candidate, n) ==
    [relationship |-> candidate.edge.id,
     sequence |-> n,
     supports |-> candidate.supports,
     triggerEvidence |-> log[n].evidence,
     supportEvidence |-> PriorEvidence(candidate.supports, n)]

Correlate ==
    LET n == NextItem("correlation")
        candidates == Candidates(n)
        edges == {c.edge : c \in candidates}
    IN  /\ Ready("correlation")
        /\ RelationshipCaughtUp(n)
        /\ ~ConflictingSupports(n)
        /\ \A e \in edges : ~Collides(e)
        /\ relationships' = RelationshipsAfter(edges, n)
        /\ lineage' = LineageAfter(edges, n)
        /\ relationshipEvidence' =
             Upserted(relationshipEvidence,
                UNION {{c.edge.id} \X (log[n].evidence
                                        \cup PriorEvidence(c.supports, n)) :
                         c \in candidates}, n)
        /\ derivations' =
             derivations \cup {Derivation(c, n) : c \in candidates}
        /\ Processed("correlation")

(* The checks and foreign keys of the tables.                              *)

RelationshipDerivationRecord(d) ==
    /\ d.relationship \in DOMAIN relationships
    /\ d.relationship.rule \in Ruleset
    /\ d.sequence \in DOMAIN log

\* No relationship supports itself.
RelationshipDerivationSupportRecord(d, support) ==
    /\ support \in DOMAIN relationships
    /\ support # d.relationship

RelationshipDerivationEvidenceRecord(evidence) ==
    \E n \in DOMAIN log : evidence \in log[n].evidence

CorrelationTypeOK ==
    \A d \in derivations :
        /\ RelationshipDerivationRecord(d)
        /\ \A s \in d.supports : RelationshipDerivationSupportRecord(d, s)
        /\ \A e \in d.triggerEvidence \cup d.supportEvidence :
              RelationshipDerivationEvidenceRecord(e)

-----------------------------------------------------------------------------
(* What correlation must derive, said of the log alone.                    *)

\* The relationships a set of derivations and the observations before n have
\* made known: direct ones, and those derived at an earlier position.
Known(derived, n) ==
    (UNION {{e.id : e \in Direct(log[m])} : m \in 1..(n - 1)})
        \cup {d.relationship : d \in {x \in derived : x.sequence < n}}

\* The positions before n at which a relationship became or stayed known.
KnownAt(derived, id, n) ==
    {m \in 1..(n - 1) : \/ \E e \in Direct(log[m]) : e.id = id
                        \/ \E d \in derived : d.relationship = id
                                              /\ d.sequence = m}

\* What makes a relationship support rule for the observation o.
Supports(rule, o, id) ==
    CASE rule = "COR_SEQ_001" ->
            /\ o.activity = "exploit_attempt"
            /\ id.type = "has_vulnerability"
            /\ \E t \in o.object : id.source = t.id
      [] rule = "COR_SEQ_002" ->
            /\ Suspicious(o)
            /\ id.type = "exploited"
            /\ id.source \in o.attack_source
            /\ \E t \in o.object : id.target = t.id
      [] rule = "COR_SEQ_003" ->
            /\ o.class = "authentication" /\ o.object # {}
            /\ id.type = "compromised"
            /\ id.target = o.subject.id

\* The ontology admits what the rule would derive.  Where an exploit went
\* before it admits a compromise.
Admits(rule, o) ==
    rule # "COR_SEQ_002" =>
        \A t \in o.object : ValidEdge(Rules[rule].type, o.subject.type, t.type)

\* What supports the rule at observation n, given the derivations before.
SupportsAt(before, rule, n) ==
    {id \in Known(before, n) : Supports(rule, log[n], id)}

\* The evidence of what made the supports known.
EvidenceOf(before, supports, n) ==
    UNION {log[m].evidence :
             m \in UNION {KnownAt(before, id, n) : id \in supports}}

\* The derivation the rule makes of observation n.
DerivedBy(before, rule, n) ==
    LET o == log[n]
        supports == SupportsAt(before, rule, n)
        source == IF rule = "COR_SEQ_002"
                  THEN CHOOSE s \in o.attack_source : TRUE
                  ELSE o.subject.id
        target == CHOOSE t \in o.object : TRUE
    IN  [relationship |-> RelationshipId(source, Rules[rule].type, target.id,
                                         "deterministic", rule),
         sequence |-> n,
         supports |-> supports,
         triggerEvidence |-> o.evidence,
         supportEvidence |-> EvidenceOf(before, supports, n)]

DerivedAt(before, n) ==
    {DerivedBy(before, rule, n) :
        rule \in {r \in Ruleset : /\ SupportsAt(before, r, n) # {}
                                 /\ Admits(r, log[n])}}

\* The derivations of the first n observations.
ExpectedDerivations ==
    LET expected[n \in 0..Len(log)] ==
          IF n = 0 THEN {}
          ELSE expected[n - 1] \cup DerivedAt(expected[n - 1], n)
    IN  expected[checkpoint["correlation"]]

(***************************************************************************)
(* What correlation has derived, with its supports and evidence, depends   *)
(* on the observations up to its checkpoint and on nothing else, however   *)
(* far the relationship projector, which writes the same graph, is ahead   *)
(* (CorrelationGraphReader bounds every read by the trigger's position).   *)
(***************************************************************************)
DerivationsPrefixOnly == derivations = ExpectedDerivations

=============================================================================
