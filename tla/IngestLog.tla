----------------------------- MODULE IngestLog -----------------------------
(***************************************************************************)
(* What the durable observation store promises to everything that consumes *)
(* it: one global log of immutable observations.  Position n of the log is *)
(* the observation whose row in observation_ingest_entries carries         *)
(* ingest_sequence = n.  The log only grows at its end, one observation    *)
(* per transaction, and an observation identifier enters it at most once.  *)
(*                                                                         *)
(* Writers, transactions, locks and retries are absent here.  The module   *)
(* ObservationIngest is the detailed store that implements this log.       *)
(***************************************************************************)
EXTENDS Naturals, Sequences

CONSTANT Payload      \* records with a field obs: the identified observations

VARIABLE log          \* the committed observations, in ingest order

Init == log = << >>

\* An identifier that has no row yet is given the next ingest sequence.
AppendObservation(p) ==
    /\ \A n \in DOMAIN log : log[n].obs # p.obs
    /\ log' = Append(log, p)

Next == \E p \in Payload : AppendObservation(p)

Spec == Init /\ [][Next]_log

-----------------------------------------------------------------------------

LogTypeOK == log \in Seq(Payload)

(* A tenant-qualified observation identifier occupies one ingest position. *)
NoDuplicates ==
    \A m, n \in DOMAIN log : log[m].obs = log[n].obs => m = n

=============================================================================
