------------------------ MODULE MCObservationIngest ------------------------
(***************************************************************************)
(* Small instances of ObservationIngest.  The payload sets are chosen so   *)
(* that the writers can repeat each other's observation, change it, share  *)
(* evidence in opposite orders, disagree about evidence and repeat an      *)
(* evidence reference within one observation.                              *)
(***************************************************************************)
EXTENDS ObservationIngest, TLC

CONSTANTS w1, w2, w3, o1, o2, o3, e1, e2, h1, h2

Ref(e, h) == [id |-> e, hash |-> h]

Observed(o, h, refs) == [obs |-> o, hash |-> h, evidence |-> refs]

\* One observation in two versions and evidence e2 in two, declared in opposite
\* orders; an observation that repeats a reference, so that its link rows can
\* never be inserted; and one that shares nothing with the first two.
ConflictPayloads ==
    { Observed(o1, h1, << Ref(e1, h1), Ref(e2, h1) >>),
      Observed(o1, h2, << Ref(e1, h1) >>),
      Observed(o2, h1, << Ref(e2, h2), Ref(e1, h1) >>),
      Observed(o2, h2, << Ref(e2, h1), Ref(e2, h1) >>),
      Observed(o3, h1, << Ref(e2, h1) >>) }

\* Three observations, the first of which shares evidence with each other one.
RacingPayloads ==
    { Observed(o1, h1, << Ref(e1, h1), Ref(e2, h1) >>),
      Observed(o2, h1, << Ref(e1, h1) >>),
      Observed(o3, h1, << Ref(e2, h1) >>) }

WriterSymmetry == Permutations(Writer)

=============================================================================
