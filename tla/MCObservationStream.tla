------------------------ MODULE MCObservationStream -------------------------
(***************************************************************************)
(* A collector of scope a over logs that hold observations of two scopes;  *)
(* and, beside it, four requests that compete for three slots, two of them *)
(* at most for the same collector, so that both limits are reached         *)
(* independently.                                                          *)
(*                                                                         *)
(* One stream and the slots of all of them share no variable.  Each moves  *)
(* while the other is as it was at first, which reaches every state of     *)
(* both without the product of the two.                                    *)
(***************************************************************************)
EXTENDS ObservationStream, StreamLeases, TLC

CONSTANTS o1, o2, o3, a, b, r1, r2, r3, r4, c1, c2

\* Two observations of the collector's scope and one of another.
ThreeObservations ==
    { [obs |-> o1, scope |-> a], [obs |-> o2, scope |-> b],
      [obs |-> o3, scope |-> a] }

NoLeases == LeasesInit /\ key = [r \in Request |-> c1]

StreamOrLeases ==
    \/ Next /\ NoLeases /\ UNCHANGED leaseVars
    \/ LeasesNext /\ Init /\ UNCHANGED vars

StreamsInit == Init /\ NoLeases

StreamsSpec ==
    /\ StreamsInit
    /\ [][StreamOrLeases]_<< vars, leaseVars >>
    /\ Fairness

=============================================================================
