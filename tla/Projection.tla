----------------------------- MODULE Projection -----------------------------
(***************************************************************************)
(* What the four projectors share.  Each reads the log of observations in  *)
(* order, one item to a transaction, and keeps a checkpoint; a handler     *)
(* that raises ProjectionHandlerError leaves a failure record and its      *)
(* checkpoint where it is; any other error rolls the transaction back, and *)
(* is no step of the specification.  Batches, retries, pauses and locks    *)
(* are the subject of ProjectionRunner.                                    *)
(***************************************************************************)
EXTENDS Ontology, Sequences, FiniteSetsExt

CONSTANTS
    Payload,        \* the observations that may be ingested
    MaxLog          \* bound: observations ingested

Projector == {"entity", "relationship", "correlation", "scene"}

Position == 1..MaxLog

ASSUME ProjectionAssumption ==
    /\ MaxLog \in Nat
    /\ \A o \in Payload : Accepted(o)

VARIABLES
    log,            \* the committed observations
    checkpoint,     \* last_processed_sequence of each projector
    failed          \* the projectors with an active failure record

base == << log, checkpoint, failed >>

Store == INSTANCE IngestLog

BaseInit ==
    /\ Store!Init
    /\ checkpoint = [p \in Projector |-> 0]
    /\ failed = {}

Ingest(o) ==
    /\ Len(log) < MaxLog
    /\ Store!AppendObservation(o)
    /\ UNCHANGED << checkpoint, failed >>

\* The next item of projector p.
NextItem(p) == checkpoint[p] + 1

Ready(p) ==
    /\ p \notin failed
    /\ checkpoint[p] < Len(log)

Processed(p) ==
    /\ checkpoint' = [checkpoint EXCEPT ![p] = @ + 1]
    /\ UNCHANGED << log, failed >>

Poisoned(p) ==
    /\ failed' = failed \cup {p}
    /\ UNCHANGED << log, checkpoint >>

-----------------------------------------------------------------------------
(* first_seen, last_seen, first_ingest_sequence and last_ingest_sequence.  *)

Time == {o.time : o \in Payload}

Span == [firstSeen : Time, lastSeen : Time,
         firstSequence : Position, lastSequence : Position]

\* What the tables that have these columns check.
Ordered(span) ==
    /\ span \in Span
    /\ span.firstSeen <= span.lastSeen
    /\ span.firstSequence <= span.lastSequence
    /\ span.lastSequence <= Len(log)

\* Fault: positions are counted from zero.
ZeroBasedSpan(n) ==
    [firstSeen |-> log[n].time, lastSeen |-> log[n].time,
     firstSequence |-> n - 1, lastSequence |-> n - 1]

SpanAt(n) ==
    [firstSeen |-> log[n].time, lastSeen |-> log[n].time,
     firstSequence |-> n, lastSequence |-> n]

Least(x, y) == IF y < x THEN y ELSE x
Greatest(x, y) == IF y > x THEN y ELSE x

Widened(span, n) ==
    [firstSeen |-> Least(span.firstSeen, log[n].time),
     lastSeen |-> Greatest(span.lastSeen, log[n].time),
     firstSequence |-> Least(span.firstSequence, n),
     lastSequence |-> Greatest(span.lastSequence, n)]

\* The span over a nonempty set of positions.
SpanOver(positions) ==
    [firstSeen |-> Min({log[n].time : n \in positions}),
     lastSeen |-> Max({log[n].time : n \in positions}),
     firstSequence |-> Min(positions),
     lastSequence |-> Max(positions)]

\* The rows of a table of spans after item n has touched those of keys.
Upserted(spans, keys, n) ==
    [k \in DOMAIN spans \cup keys |->
        IF k \notin keys THEN spans[k]
        ELSE IF k \in DOMAIN spans THEN Widened(spans[k], n)
        ELSE SpanAt(n)]

=============================================================================
