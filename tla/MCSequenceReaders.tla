------------------------- MODULE MCSequenceReaders -------------------------
(***************************************************************************)
(* A poller and a scanner of scope a, over logs in which observations of   *)
(* two scopes follow each other in every order.                            *)
(***************************************************************************)
EXTENDS SequenceReaders, TLC

CONSTANTS o1, o2, o3, o4, a, b, poller, scanner

\* A page of two can be filled with rows of the other scope.
SparsePayloads ==
    { [obs |-> o1, scope |-> a], [obs |-> o2, scope |-> b],
      [obs |-> o3, scope |-> b], [obs |-> o4, scope |-> a] }

ScannerOfA == [s \in {scanner} |-> a]

=============================================================================
