---------------------------- MODULE SceneReplay -----------------------------
(***************************************************************************)
(* SceneBuilder: the replay of a scenario in memory, which applies the same*)
(* rules to one observation after the other.  It is written apart from the *)
(* durable projections, and keeps of the relationships only what it needs. *)
(* The attribute confirmed_compromise, which no durable projection reads,  *)
(* is left out.                                                            *)
(***************************************************************************)
EXTENDS AttackSceneProjection

\* entities: the type of the reference seen last for each identifier.
EmptyScene ==
    [entities |-> << >>, relationships |-> {}, state |-> "potential",
     refused |-> FALSE]

\* Fault: the compromised entity is looked for among the sources.
FindBySource(scene, type, sources, targets) ==
    {id \in scene.relationships :
        /\ id.type = type
        /\ id.source \in targets}

\* The first match decides: which one it is shows in the evidence only.
Find(scene, type, sources, targets) ==
    {id \in scene.relationships :
        /\ id.type = type
        /\ id.source \in sources
        /\ id.target \in targets}

Replayed(type, source, sourceType, target, rule) ==
    Edge(RelationshipId(source, type, target.id, "deterministic", rule),
         sourceType, target.type, Rules[rule].confidence)

\* A process flagged with anything a condition takes for true.
Suspected(o) ==
    /\ o.class = "process_activity"
    /\ o.suspicious_child # "falsy"

Derive(scene, o) ==
    LET anywhere == DOMAIN scene.entities
    IN  {Replayed("exploited", o.subject.id, o.subject.type, target,
                  "COR_SEQ_001") :
           target \in {t \in o.object :
              /\ o.activity = "exploit_attempt"
              /\ Find(scene, "has_vulnerability", {t.id}, anywhere) # {}}}
        \cup
        {Replayed("compromised", c[1], scene.entities[c[1]], c[2],
                  "COR_SEQ_002") :
           c \in {c \in o.attack_source \X o.object :
              /\ Suspected(o)
              /\ c[1] \in DOMAIN scene.entities
              /\ Find(scene, "exploited", {c[1]}, {c[2].id}) # {}}}
        \cup
        {Replayed("moved_laterally_to", o.subject.id, o.subject.type, target,
                  "COR_SEQ_003") :
           target \in {t \in o.object :
              /\ o.class = "authentication"
              /\ Find(scene, "compromised", anywhere, {o.subject.id}) # {}}}

\* Subject first, then object.
EntitiesWith(scene, o) ==
    [id \in DOMAIN scene.entities \cup EntityIds(o) |->
        IF \E t \in o.object : t.id = id
        THEN (CHOOSE t \in o.object : t.id = id).type
        ELSE IF id = o.subject.id THEN o.subject.type
        ELSE scene.entities[id]]

\* Entities first, then the direct relationship, then what can be derived.
\* An edge that the ontology refuses ends the replay.
Apply(scene, o) ==
    LET direct == [scene EXCEPT !.entities = EntitiesWith(scene, o),
                                !.relationships = @ \cup {e.id : e \in Direct(o)}]
        derived == Derive(direct, o)
    IN  IF \/ scene.refused
           \/ \E e \in Direct(o) \cup derived :
                 ~ValidEdge(e.id.type, e.sourceType, e.targetType)
        THEN [scene EXCEPT !.refused = TRUE]
        ELSE [direct EXCEPT
                !.relationships = @ \cup {e.id : e \in derived},
                !.state = IF /\ o.class # "exposure_finding"
                             /\ scene.state = "potential"
                          THEN "observed" ELSE scene.state]

\* The scene after the first n observations of the log.
Replay ==
    LET scene[n \in 0..Len(log)] ==
          IF n = 0 THEN EmptyScene ELSE Apply(scene[n - 1], log[n])
    IN  scene

\* An observation that states the very relationship its rule looks for: the
\* replay takes it as its own support, the projection does not.
SupportsItself(o) == \E e \in Direct(o) : \E rule \in Ruleset :
                        Supports(rule, o, e.id)

\* An observation in which the replay sees a suspicious process and the
\* projection does not: its flag is not True, or its source is blank.
TakenLoosely(o) == Suspected(o) /\ ~Suspicious(o)

ReplayedBy(n) ==
    {id \in Replay[n].relationships : id.provenance = "deterministic"}

Stored == {d.relationship : d \in derivations}

\* The whole ruleset, and a replay that the ontology has not ended.
Comparable(n) == Ruleset = DOMAIN Rules /\ ~Replay[n].refused

(***************************************************************************)
(* SceneBuilder knows at least what correlation has stored when its        *)
(* checkpoint is n, whatever the observations; and when the ruleset has    *)
(* every rule the same, but for observations that support themselves and   *)
(* those whose flag or attack source the two copies of COR-SEQ-002 read    *)
(* differently; unless the ontology ends the replay.                       *)
(***************************************************************************)
ReplayMatchesProjection ==
    LET n == checkpoint["correlation"]
    IN  /\ ~Replay[n].refused => Stored \subseteq ReplayedBy(n)
        /\ /\ Comparable(n)
           /\ \A m \in 1..n : ~SupportsItself(log[m]) /\ ~TakenLoosely(log[m])
           => ReplayedBy(n) = Stored

(***************************************************************************)
(* The replay derives COR-SEQ-002 from no more than the evaluator does,    *)
(* which tests/test_correlation_evaluation.py:553 has refuse any flag but  *)
(* the exact boolean True.  The code does not have this property:          *)
(* scene.py:141 takes every value that a condition takes for true.         *)
(***************************************************************************)
ReplayNeedsTrueFlag ==
    LET n == checkpoint["correlation"]
    IN  /\ Comparable(n)
        /\ \A m \in 1..n : ~SupportsItself(log[m])
        => ReplayedBy(n) = Stored

=============================================================================
