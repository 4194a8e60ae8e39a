-------------------------- MODULE DurableConsumer --------------------------
(***************************************************************************)
(* What the projection runtime promises to a projection and to everything  *)
(* built on one: the projection's tables always hold the effects of an     *)
(* initial part of the ingest log, each observation applied once and in    *)
(* ingest order, and that part never shrinks.  A consumer is absent until  *)
(* it is registered; a paused one applies nothing; a failed one stands     *)
(* before an observation it could not apply and is idle again only after   *)
(* it has applied it.                                                      *)
(***************************************************************************)
EXTENDS Naturals, Sequences

CONSTANT Payload

VARIABLES
    log,        \* the ingest log
    applied,    \* the observations whose effects are durable, in order
    status      \* "absent", "idle", "failed" or "paused"

vars == << log, applied, status >>

Store == INSTANCE IngestLog

Init ==
    /\ Store!Init
    /\ applied = << >>
    /\ status = "absent"

AppendObservation ==
    /\ Store!Next
    /\ UNCHANGED << applied, status >>

Register ==
    /\ status = "absent"
    /\ status' = "idle"
    /\ UNCHANGED << log, applied >>

\* A batch makes the effects of the next observations, possibly none, durable.
Run ==
    /\ status \in {"idle", "failed"}
    /\ \E n \in Len(applied)..Len(log) :
          /\ applied' = SubSeq(log, 1, n)
          /\ \/ /\ n < Len(log)
                /\ status' = "failed"
             \/ /\ status = "idle" \/ n > Len(applied)
                /\ status' = "idle"
    /\ UNCHANGED log

Pause ==
    /\ status = "idle"
    /\ status' = "paused"
    /\ UNCHANGED << log, applied >>

Resume ==
    /\ status = "paused"
    /\ status' = "idle"
    /\ UNCHANGED << log, applied >>

Next == AppendObservation \/ Register \/ Run \/ Pause \/ Resume

Spec == Init /\ [][Next]_vars

=============================================================================
