------------------------- MODULE ProjectionPipeline -------------------------
(***************************************************************************)
(* The four projectors, each run by processes of its own, over one growing *)
(* log.  They meet in the database only: correlation waits for the         *)
(* relationship checkpoint and adds to the relationship graph; scenes wait *)
(* for all three and read their tables, in which the others may be ahead.  *)
(* The projectors and their writers lock different rows, and what an item  *)
(* reads is bounded by its position, so that one item is one step.         *)
(***************************************************************************)
EXTENDS SceneReplay

vars == << base, entityTables, correlationTables, scenes >>

Init ==
    /\ BaseInit
    /\ EntityInit
    /\ GraphInit
    /\ CorrelationInit
    /\ SceneInit

AppendObservation(o) ==
    /\ Ingest(o)
    /\ UNCHANGED << entityTables, correlationTables, scenes >>

RunEntity ==
    /\ ProjectEntities \/ PoisonEntity
    /\ UNCHANGED << correlationTables, scenes >>

RunRelationship ==
    /\ ProjectRelationship \/ PoisonRelationship
    /\ UNCHANGED << entityTables, derivations, scenes >>

RunCorrelation ==
    /\ Correlate
    /\ UNCHANGED << entityTables, scenes >>

RunScene ==
    /\ PlanScenes
    /\ UNCHANGED << entityTables, correlationTables >>

Next ==
    \/ \E o \in Payload : AppendObservation(o)
    \/ RunEntity
    \/ RunRelationship
    \/ RunCorrelation
    \/ RunScene

Spec == Init /\ [][Next]_vars

\* Operators keep every projector running.
FairSpec ==
    /\ Spec
    /\ WF_vars(RunEntity)
    /\ WF_vars(RunRelationship)
    /\ WF_vars(RunCorrelation)
    /\ WF_vars(RunScene)

-----------------------------------------------------------------------------

(***************************************************************************)
(* The rows that projectors write are such as their tables take: no check, *)
(* unique key or foreign key of models.py ever refuses one.                *)
(***************************************************************************)
TypeOK ==
    /\ log \in Seq(Payload)
    /\ Len(log) <= MaxLog
    /\ checkpoint \in [Projector -> 0..MaxLog]
    /\ failed \subseteq {"entity", "relationship"}
    /\ EntityTypeOK
    /\ GraphTypeOK
    /\ CorrelationTypeOK
    /\ SceneTypeOK

(***************************************************************************)
(* No projector is ever ahead of the log, and none that depends on others  *)
(* is ahead of any of them (_require_relationship_checkpoint and           *)
(* _require_dependencies).                                                 *)
(***************************************************************************)
CheckpointsOrdered ==
    /\ \A p \in Projector : checkpoint[p] <= Len(log)
    /\ checkpoint["correlation"] <= checkpoint["relationship"]
    /\ \A p \in Projector : checkpoint["scene"] <= checkpoint[p]

\* A projector has processed all it can: it has reached the end of the log,
\* or a recorded failure, or the projector it waits for.
Settled ==
    /\ \A p \in {"entity", "relationship"} :
          checkpoint[p] = Len(log) \/ p \in failed
    /\ checkpoint["correlation"] = checkpoint["relationship"]
    /\ checkpoint["scene"] = Least(checkpoint["entity"],
                                   checkpoint["correlation"])

(***************************************************************************)
(* The pipeline drains: no projector stops short of the log's end except at*)
(* a failure it has recorded or behind one that has.  In particular no     *)
(* invariant error of the correlation rules or of the scene planner, which *)
(* would roll back the same item for ever, can come about.                 *)
(***************************************************************************)
PipelineAdvances == <>[]Settled

(***************************************************************************)
(* Whatever observation the relationship projector cannot project ends as a*)
(* recorded failure, on which operators can act.                           *)
(***************************************************************************)
PoisonRecorded ==
    \A n \in Position :
        n <= Len(log) ~> \/ checkpoint["relationship"] >= n
                         \/ "relationship" \in failed

=============================================================================
