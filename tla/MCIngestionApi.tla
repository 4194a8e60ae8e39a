--------------------------- MODULE MCIngestionApi ---------------------------
(***************************************************************************)
(* Batches that overlap in an observation, disagree about it, disagree     *)
(* about its evidence, leave the collector's scope or break the ontology.  *)
(***************************************************************************)
EXTENDS IngestionApi, TLC

CONSTANTS c1, k1, r1, r2, here, there

Observed(obs, hash, evidence) ==
    [obs |-> obs, hash |-> hash, scope |-> here, valid |-> TRUE,
     evidence |-> [id |-> "e1", hash |-> evidence]]

First == Observed("o1", "h1", "g1")
Changed == Observed("o1", "h2", "g1")
Second == Observed("o2", "h3", "g1")
Clash == Observed("o3", "h4", "g2")
Foreign == [Second EXCEPT !.scope = there]
Invalid == [Second EXCEPT !.valid = FALSE]

Payloads == {First, Changed, Second, Clash, Foreign, Invalid}

Posted(batch, body) == [batch |-> batch, body |-> body, single |-> FALSE]

Submissions ==
    {Posted(<< First, Changed >>, "whole"),
     Posted(<< Changed, Second >>, "cut_behind"),
     [Posted(<< Clash >>, "whole") EXCEPT !.single = TRUE],
     Posted(<< Second, Foreign >>, "whole"),
     Posted(<< Invalid >>, "whole"),
     Posted(<< First, First, Second >>, "whole"),
     Posted(<< First >>, "cut_short")}

Scopes == [c \in Collector |-> here]

RequestSymmetry == Permutations(Request)

=============================================================================
