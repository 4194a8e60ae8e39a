----------------------- MODULE AttackSceneProjection ------------------------
(***************************************************************************)
(* AttackSceneMembershipPlanner and AttackSceneProjectionHandler: for every*)
(* relationship derived by COR-SEQ-001 a scene, with the relationships that*)
(* led to it and those that follow from it, their ends, their observations *)
(* and the incident states passed through.  A scene is planned from what   *)
(* the tables say up to a boundary, then merged into the stored one.       *)
(***************************************************************************)
EXTENDS EntityProjection, CorrelationProjection

VARIABLE scenes         \* root relationship -> stored scene

SceneInit == scenes = << >>

JoiningRules == {"COR_SEQ_002", "COR_SEQ_003"}

StateRank == [potential |-> 0, observed |-> 1, confirmed |-> 2,
              contained |-> 3, closed |-> 4]

\* The boundary n has been reached by everything scenes are made of.
DependenciesReady(n) ==
    \A p \in {"entity", "relationship", "correlation"} : checkpoint[p] >= n

-----------------------------------------------------------------------------
(* The planner: reads bounded by position b.                               *)

DerivationsOf(rules, b) ==
    {d \in derivations : d.relationship.rule \in rules /\ d.sequence <= b}

Roots(b) == {d.relationship : d \in DerivationsOf({"COR_SEQ_001"}, b)}

RootDerivations(root, b) ==
    {d \in DerivationsOf({"COR_SEQ_001"}, b) : d.relationship = root}

\* The derivations that use a relationship of reached as a support.
ReverseDerivations(reached, b) ==
    {d \in DerivationsOf(JoiningRules, b) : d.supports \cap reached # {}}

\* What the queue of plan_scene has reached after k rounds.
Reached(root, b) ==
    LET reached[k \in Nat] ==
          IF k = 0 THEN {root}
          ELSE reached[k - 1] \cup
               {d.relationship : d \in ReverseDerivations(reached[k - 1], b)}
    IN  reached[Cardinality(derivations)]

JoinedDerivations(root, b) == ReverseDerivations(Reached(root, b), b)

Members(root, b) ==
    {root} \cup (UNION {d.supports : d \in RootDerivations(root, b)})
           \cup {d.relationship : d \in JoinedDerivations(root, b)}

\* Fault: the lineage is read as far as it goes.
UnboundedLineage(id, b) ==
    {row.sequence : row \in {r \in lineage : r.relationship = id}}

Lineage(id, b) ==
    {row.sequence : row \in {r \in lineage : /\ r.relationship = id
                                             /\ r.sequence <= b}}

Ends(id) == {id.source, id.target}

FirstTrigger(ds) == Min({d.sequence : d \in ds})

Transition(from, to, n) == [from |-> from, to |-> to, sequence |-> n]

CompromisesOf(root, b) ==
    {d \in JoinedDerivations(root, b) : d.relationship.rule = "COR_SEQ_002"}

Plan(root, b) ==
    LET members == Members(root, b)
        positions(ids) == UNION {Lineage(id, b) : id \in ids}
        compromises == CompromisesOf(root, b)
    IN  [state |-> IF compromises = {} THEN "observed" ELSE "confirmed",
         span |-> SpanOver(positions(members)),
         relationships |-> [id \in members |-> SpanOver(Lineage(id, b))],
         entities |->
            [e \in UNION {Ends(id) : id \in members} |->
               SpanOver(positions({id \in members : e \in Ends(id)}))],
         observations |-> positions(members),
         transitions |->
            {Transition("potential", "observed",
                        FirstTrigger(RootDerivations(root, b)))}
            \cup IF compromises = {} THEN {}
                 ELSE {Transition("observed", "confirmed",
                                  FirstTrigger(compromises))}]

\* AttackScenePlanningInvariantError: what the tables say is contradictory.
Contradictory(root, b) ==
    \/ \E d \in RootDerivations(root, b) \cup JoinedDerivations(root, b) :
          \/ d.sequence \notin Lineage(d.relationship, b)
          \/ \E id \in d.supports : Lineage(id, d.sequence - 1) = {}
    \/ \E id \in Members(root, b) :
          \/ id \notin DOMAIN relationships
          \/ Lineage(id, b) = {}
          \/ ~(Ends(id) \subseteq DOMAIN entities)

-----------------------------------------------------------------------------
(* The handler: plans merged into stored scenes.                           *)

\* AttackSceneProjectionInvariantError: a stored member is no longer planned,
\* or a transition is planned otherwise than it is stored.
Unexpected(stored, plan) ==
    \/ ~(DOMAIN stored.relationships \subseteq DOMAIN plan.relationships)
    \/ ~(DOMAIN stored.entities \subseteq DOMAIN plan.entities)
    \/ ~(stored.observations \subseteq plan.observations)
    \/ \E s \in stored.transitions, t \in plan.transitions :
          s.sequence = t.sequence /\ s # t

\* Automatic states only go up, and never away from an analyst's.
Advanced(state, planned) ==
    IF /\ StateRank[planned] > StateRank[state]
       /\ state \notin {"contained", "closed"}
    THEN planned ELSE state

Merged(stored, plan) ==
    [plan EXCEPT !.state = Advanced(stored.state, plan.state),
                 !.transitions = stored.transitions \cup @]

PlanScenes ==
    LET n == NextItem("scene")
        roots == Roots(n)
        plans == [root \in roots |-> Plan(root, n)]
        known == DOMAIN scenes
    IN  /\ Ready("scene")
        /\ DependenciesReady(n)
        /\ \A root \in roots : ~Contradictory(root, n)
        /\ \A root \in roots \cap known : ~Unexpected(scenes[root], plans[root])
        /\ scenes' = [root \in known \cup roots |->
                        IF root \notin roots THEN scenes[root]
                        ELSE IF root \notin known THEN plans[root]
                        ELSE Merged(scenes[root], plans[root])]
        /\ Processed("scene")

-----------------------------------------------------------------------------
(* The checks and foreign keys of the tables.                              *)

AttackSceneRecord(scene) ==
    /\ scene.state \in IncidentState
    /\ Ordered(scene.span)

AttackSceneEntityRecord(entity, span) ==
    entity \in DOMAIN entities /\ Ordered(span)

AttackSceneRelationshipRecord(relationship, span) ==
    relationship \in DOMAIN relationships /\ Ordered(span)

AttackSceneObservationRecord(sequence) == sequence \in DOMAIN log

\* The key is the position: a scene enters one state at a position.
AttackSceneStateTransitionRecord(transition, others) ==
    /\ transition.sequence \in DOMAIN log
    /\ {transition.from, transition.to} \subseteq IncidentState
    /\ transition.from # transition.to
    /\ \A other \in others : other.sequence # transition.sequence

SceneTypeOK ==
    \A root \in DOMAIN scenes :
        LET scene == scenes[root]
        IN  /\ AttackSceneRecord(scene)
            /\ \A e \in DOMAIN scene.entities :
                  AttackSceneEntityRecord(e, scene.entities[e])
            /\ \A id \in DOMAIN scene.relationships :
                  AttackSceneRelationshipRecord(id, scene.relationships[id])
            /\ \A n \in scene.observations : AttackSceneObservationRecord(n)
            /\ \A t \in scene.transitions :
                  AttackSceneStateTransitionRecord(t, scene.transitions \ {t})

-----------------------------------------------------------------------------
(* What a scene must be.                                                   *)

\* The relationships that belong to the scene of root: the least set with the
\* root that is closed under "derived with the help of".
FollowsFrom(root, b) ==
    LET joining == DerivationsOf(JoiningRules, b)
        closed == {S \in SUBSET {d.relationship : d \in joining} :
                     \A d \in joining :
                        d.supports \cap (S \cup {root}) # {}
                            => d.relationship \in S}
    IN  {id \in UNION closed : \A S \in closed : id \in S}

SupportedBy(root, b) ==
    UNION {d.supports : d \in RootDerivations(root, b)}

(***************************************************************************)
(* The stored scenes, merged item by item, are those of the observations up*)
(* to the checkpoint: one for every root, with exactly the relationships   *)
(* that support it or follow from it, their ends and observations, the     *)
(* spans of these, and a state its transitions lead to                     *)
(* (AttackSceneProjectionHandler._persist_plan over the planner's          *)
(* breadth-first search).                                                  *)
(***************************************************************************)
ScenesAreClosure ==
    LET b == checkpoint["scene"]
    IN  /\ DOMAIN scenes = Roots(b)
        /\ \A root \in DOMAIN scenes :
              LET scene == scenes[root]
                  members == {root} \cup SupportedBy(root, b)
                                    \cup FollowsFrom(root, b)
              IN  /\ DOMAIN scene.relationships = members
                  /\ DOMAIN scene.entities = UNION {Ends(id) : id \in members}
                  /\ scene.observations =
                        UNION {KnownAt(derivations, id, b + 1) : id \in members}
                  /\ scene.span = SpanOver(scene.observations)
                  /\ \A id \in members :
                        scene.relationships[id] =
                           SpanOver(KnownAt(derivations, id, b + 1))
                  /\ {t.to : t \in scene.transitions} =
                        IF scene.state = "confirmed"
                        THEN {"observed", "confirmed"} ELSE {"observed"}
                  /\ (scene.state = "confirmed") <=>
                        \E id \in members : id.rule = "COR_SEQ_002"
                  /\ \A s, t \in scene.transitions :
                        StateRank[s.to] < StateRank[t.to]
                            => s.sequence < t.sequence

=============================================================================
