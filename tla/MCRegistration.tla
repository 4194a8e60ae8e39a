--------------------------- MODULE MCRegistration ---------------------------
(***************************************************************************)
(* Two versions of the relationship projector, correlation configurations  *)
(* that compete for them, and scene configurations of one version.         *)
(***************************************************************************)
EXTENDS Registration, TLC

CONSTANTS v1, v2

Plain(projector, version) == [projector |-> projector, version |-> version]

Correlation(version, relationship, ruleset, ontology) ==
    [projector |-> "correlation", version |-> version,
     relationship |-> relationship, ruleset |-> ruleset,
     ontology |-> ontology]

Scene(relationship, correlation, policy) ==
    [projector |-> "scene", version |-> v1, entity |-> v1,
     relationship |-> relationship, correlation |-> correlation,
     policy |-> policy]

Requests ==
    {Plain("entity", v1), Plain("relationship", v1),
     Plain("relationship", v2),
     Correlation(v1, v1, "sequence1", "core1"),
     Correlation(v1, v1, "sequence2", "core1"),
     Correlation(v1, v2, "sequence1", "core1"),
     Correlation(v1, v1, "sequence1", "core2"),
     Correlation(v2, v1, "sequence1", "core1"),
     Scene(v1, v1, "policy1"), Scene(v1, v1, "policy2"),
     Scene(v2, v1, "policy1")}

OperatorSymmetry == Permutations(Operator)

=============================================================================
