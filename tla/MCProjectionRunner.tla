------------------------- MODULE MCProjectionRunner ------------------------
(***************************************************************************)
(* Two processes operating one projector over a short log.                 *)
(***************************************************************************)
EXTENDS ProjectionRunner, TLC

CONSTANTS r1, r2, o1, o2, o3

Observations(ids) == [obs : ids]

TwoPayloads == Observations({o1, o2})

=============================================================================
