------------------------------ MODULE Ontology ------------------------------
(***************************************************************************)
(* The values an observation is made of and the edges CORE_ONTOLOGY admits.*)
(* A field of the schema that may be None is a set of at most one value.   *)
(* The tenant is left out: every table is keyed by it and no handler reads *)
(* across it.                                                              *)
(***************************************************************************)
EXTENDS Integers, FiniteSets

EntityType ==
    {"asset", "application", "identity", "process", "network_endpoint",
     "cloud_resource", "vulnerability", "ip_address", "domain", "file",
     "certificate", "data_store"}

IncidentState ==
    {"potential", "observed", "confirmed", "contained", "closed"}

Service == {"asset", "application", "cloud_resource", "data_store"}
Reachable == Service \cup {"network_endpoint"}
Actor == {"identity", "asset", "application", "process"}
Attackers == Actor \cup {"ip_address", "domain", "network_endpoint"}

\* Relationship types, with the entity types each may lead from and to.
SourceTypes ==
    [has_vulnerability  |-> Reachable,
     targeted           |-> Attackers \ {"process"},
     communicates_with  |-> (Reachable \cup {"process"}) \ {"data_store"},
     runs_on            |-> {"process", "application", "data_store"},
     spawned            |-> {"process"},
     authenticated_to   |-> Actor,
     accessed           |-> Actor,
     resolved_to        |-> {"domain"},
     exploited          |-> Attackers,
     compromised        |-> Attackers,
     moved_laterally_to |-> Actor]

TargetTypes ==
    [has_vulnerability  |-> {"vulnerability"},
     targeted           |-> Reachable \cup {"identity"},
     communicates_with  |-> (Reachable \cup {"domain", "ip_address"})
                                \ {"data_store"},
     runs_on            |-> {"asset", "cloud_resource"},
     spawned            |-> {"process"},
     authenticated_to   |-> Service,
     accessed           |-> (Service \cup {"file"}) \ {"asset"},
     resolved_to        |-> {"ip_address"},
     exploited          |-> Reachable,
     compromised        |-> Reachable \cup {"identity"},
     moved_laterally_to |-> Service]

RelationshipType == DOMAIN SourceTypes

\* OntologyRegistry.validate_edge raises nothing.
ValidEdge(type, source, target) ==
    /\ source \in SourceTypes[type]
    /\ target \in TargetTypes[type]

\* What an attribute of any JSON type is to a condition: True itself, another
\* value that is taken for true (1, "true"), or one taken for false or absent.
Flag == {"true", "truthy", "falsy"}

AtMostOne(S) == {{}} \cup {{x} : x \in S}

\* EntityRef: claim stands for the label and the attributes, keys for the
\* identity keys whose fields the attributes fill with usable values.
EntityRef(Id, Claim, Key) ==
    [id : Id, type : EntityType, claim : Claim, keys : SUBSET Key]

Observation(Obs, Id, Claim, Key, Evidence, Time, Confidence) ==
    [obs : Obs,
     subject : EntityRef(Id, Claim, Key),
     object : AtMostOne(EntityRef(Id, Claim, Key)),
     relationship : AtMostOne(RelationshipType),
     activity : {"exploit_attempt", "other"},
     class : {"exposure_finding", "process_activity", "authentication",
              "other"},
     suspicious_child : Flag,
     attack_source : AtMostOne(Id),
     time : Time,
     confidence : Confidence,
     evidence : SUBSET Evidence]

\* What the schema accepts: fields with values of their types, evidence, and
\* no relationship without an object.
Accepted(o) ==
    LET named == {o.subject} \cup o.object
    IN  /\ o \in Observation({o.obs},
                            {r.id : r \in named} \cup o.attack_source,
                            {r.claim : r \in named},
                            UNION {r.keys : r \in named},
                            o.evidence, Nat, 0..100)
        /\ o.relationship # {} => o.object # {}
        /\ o.evidence # {}

=============================================================================
