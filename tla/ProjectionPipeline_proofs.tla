---------------------- MODULE ProjectionPipeline_proofs ----------------------
(***************************************************************************)
(* Proofs about the projection pipeline, its readers and scenario replay,  *)
(* for any observations the schema accepts, any ruleset and any number of  *)
(* steps.                                                                  *)
(*                                                                         *)
(* The tables are kept incrementally; the invariant says what they are     *)
(* instead, as a function of the log and the checkpoints:                  *)
(*                                                                         *)
(*   Basics, Ground   the log, and the order of the four checkpoints       *)
(*   TablesTrue       entity rows, their lineage, evidence and claims      *)
(*   Graph            lineage, relationship rows and evidence: who made a  *)
(*                    relationship known where; and derivations, position  *)
(*                    by position, as what the rules derive of what was    *)
(*                    known before                                         *)
(*   ScenesTrue       stored scenes are the plans of the scene checkpoint  *)
(*   Columns          the ranges and keys of the tables                    *)
(*                                                                         *)
(* Pipeline is the first three of these and Sound all of them.  Readers    *)
(* run beside the pipeline: their proofs add what a reply or a listing     *)
(* holds so far, and rest on Grown, what one step of the pipeline leaves   *)
(* of the tables.  Induction over positions is by the least position that  *)
(* fails (LeastElement, Induction).                                        *)
(***************************************************************************)
EXTENDS Queries, FiniteSetTheorems, WellFoundedInduction, TLAPS

Basics ==
    /\ log \in Seq(Payload)
    /\ checkpoint \in [Projector -> Nat]
    /\ checkpoint["entity"] <= Len(log)

\* The observations that mention an entity with a piece of evidence, or with
\* a value for an identity key.
Evidencing(id, e) == {m \in Mentions(id) : e \in log[m].evidence}
Claiming(id, key) == {m \in Mentions(id) : key \in Reference(log[m], id).keys}

\* A span reaches from the first to the last of a set of positions, and of
\* their event times.
Spans(span, S) ==
    /\ span \in [firstSeen : Nat, lastSeen : Nat,
                 firstSequence : Nat, lastSequence : Nat]
    /\ span.firstSequence \in S /\ span.lastSequence \in S
    /\ \E m \in S : span.firstSeen = log[m].time
    /\ \E m \in S : span.lastSeen = log[m].time
    /\ \A m \in S :
          /\ span.firstSequence <= m /\ m <= span.lastSequence
          /\ span.firstSeen <= log[m].time /\ log[m].time <= span.lastSeen

\* Position m holds the claim that replaces all others of the entity.
Newest(id, m) ==
    /\ m \in Mentions(id)
    /\ \A k \in Mentions(id) :
          \/ log[k].time < log[m].time
          \/ log[k].time = log[m].time /\ k <= m

Shows(row, id) ==
    \E m \in Mentions(id) :
        /\ Newest(id, m)
        /\ row.claimed = << log[m].time, m >>
        /\ row.claim = Reference(log[m], id).claim

IsRow(row) ==
    row = [type |-> row.type, claim |-> row.claim, claimed |-> row.claimed,
           span |-> row.span]

RowTrue(id) ==
    LET row == entities[id]
    IN  IsRow(row) /\ Shows(row, id) /\ Spans(row.span, Mentions(id))

EntitiesTrue ==
    /\ \A id : id \in DOMAIN entities <=> Mentions(id) # {}
    /\ \A id \in DOMAIN entities : RowTrue(id)

LineageTrue ==
    /\ \A row \in entityObservations : row.sequence \in Mentions(row.entity)
    /\ \A id : \A n \in Mentions(id) : \E row \in entityObservations :
          row.entity = id /\ row.sequence = n

EvidenceTrue ==
    /\ \A k \in DOMAIN entityEvidence : k = << k[1], k[2] >>
    /\ \A id, e : << id, e >> \in DOMAIN entityEvidence
                     <=> Evidencing(id, e) # {}
    /\ \A id, e : << id, e >> \in DOMAIN entityEvidence =>
          Spans(entityEvidence[<< id, e >>], Evidencing(id, e))

ClaimsTrue ==
    /\ \A k \in DOMAIN identityClaims : k = << k[1], k[2] >>
    /\ \A id, key : << id, key >> \in DOMAIN identityClaims
                       <=> Claiming(id, key) # {}
    /\ \A id, key : << id, key >> \in DOMAIN identityClaims =>
          Spans(identityClaims[<< id, key >>], Claiming(id, key))

TablesTrue == EntitiesTrue /\ LineageTrue /\ EvidenceTrue /\ ClaimsTrue

-----------------------------------------------------------------------------
(* Spans.                                                                  *)

LEMMA Times ==
    ASSUME Basics, NEW m \in DOMAIN log
    PROVE  m \in Nat /\ log[m] \in Payload /\ log[m].time \in Nat
<1>1. m \in Nat /\ log[m] \in Payload
  BY DEF Basics
<1>2. QED
  BY <1>1, ProjectionAssumption DEF Accepted, Observation

LEMMA NewSpan ==
    ASSUME Basics, NEW n \in DOMAIN log PROVE Spans(SpanAt(n), {n})
BY Times DEF Spans, SpanAt

LEMMA WiderSpan ==
    ASSUME Basics, NEW n \in DOMAIN log, NEW S \in SUBSET DOMAIN log, NEW span,
           Spans(span, S)
    PROVE  Spans(Widened(span, n), S \cup {n})
<1> DEFINE wider == Widened(span, n)
<1>1. /\ span.firstSeen \in Nat /\ span.lastSeen \in Nat
      /\ span.firstSequence \in Nat /\ span.lastSequence \in Nat
      /\ n \in Nat /\ log[n].time \in Nat
      /\ \A m \in S : m \in Nat /\ log[m].time \in Nat
  BY Times DEF Spans
<1>2. /\ wider \in [firstSeen : Nat, lastSeen : Nat,
                    firstSequence : Nat, lastSequence : Nat]
      /\ wider.firstSeen = Least(span.firstSeen, log[n].time)
      /\ wider.lastSeen = Greatest(span.lastSeen, log[n].time)
      /\ wider.firstSequence = Least(span.firstSequence, n)
      /\ wider.lastSequence = Greatest(span.lastSequence, n)
  BY <1>1 DEF Widened, Least, Greatest
<1> HIDE DEF wider
<1>3. wider.firstSequence \in S \cup {n} /\ wider.lastSequence \in S \cup {n}
  BY <1>2 DEF Spans, Least, Greatest
<1>4. \E m \in S \cup {n} : wider.firstSeen = log[m].time
  <2>1. PICK m \in S : span.firstSeen = log[m].time
    BY DEF Spans
  <2>2. QED
    BY <1>2, <2>1 DEF Least
<1>5. \E m \in S \cup {n} : wider.lastSeen = log[m].time
  <2>1. PICK m \in S : span.lastSeen = log[m].time
    BY DEF Spans
  <2>2. QED
    BY <1>2, <2>1 DEF Greatest
<1>6. ASSUME NEW m \in S \cup {n}
      PROVE  /\ wider.firstSequence <= m /\ m <= wider.lastSequence
             /\ wider.firstSeen <= log[m].time /\ log[m].time <= wider.lastSeen
  <2>1. CASE m = n
    BY <1>1, <1>2, <2>1 DEF Least, Greatest
  <2>2. CASE m \in S
    <3>1. /\ span.firstSequence <= m /\ m <= span.lastSequence
          /\ span.firstSeen <= log[m].time /\ log[m].time <= span.lastSeen
          /\ m \in Nat /\ log[m].time \in Nat
      BY <1>1, <2>2 DEF Spans
    <3>2. QED
      BY <1>1, <1>2, <3>1 DEF Least, Greatest
  <2>3. QED
    BY <2>1, <2>2
<1>7. QED
  BY <1>2, <1>3, <1>4, <1>5, <1>6 DEF Spans, wider

\* A row of a table of spans that item n has touched.
LEMMA UpsertedSpan ==
    ASSUME Basics, NEW n \in DOMAIN log, NEW table, NEW keys,
           NEW k \in DOMAIN table \cup keys, NEW S \in SUBSET DOMAIN log,
           k \in DOMAIN table => Spans(table[k], S),
           k \notin DOMAIN table => S = {}
    PROVE  /\ k \in keys => Spans(Upserted(table, keys, n)[k], S \cup {n})
           /\ k \notin keys => Spans(Upserted(table, keys, n)[k], S)
<1>1. CASE k \notin keys
  BY <1>1 DEF Upserted
<1>2. CASE k \in keys /\ k \in DOMAIN table
  <2>1. Upserted(table, keys, n)[k] = Widened(table[k], n)
    BY <1>2 DEF Upserted
  <2>2. QED
    BY <1>2, <2>1, WiderSpan
<1>3. CASE k \in keys /\ k \notin DOMAIN table
  <2>1. Upserted(table, keys, n)[k] = SpanAt(n)
    BY <1>3 DEF Upserted
  <2>2. S \cup {n} = {n}
    BY <1>3
  <2>3. QED
    BY <1>3, <2>1, <2>2, NewSpan
<1>4. QED
  BY <1>1, <1>2, <1>3

LEMMA UpsertedKeys ==
    ASSUME NEW table, NEW keys, NEW n
    PROVE  DOMAIN Upserted(table, keys, n) = DOMAIN table \cup keys
BY DEF Upserted

\* Minima and maxima of the set that a span reaches over.
LEMMA SpanIsOver ==
    ASSUME Basics, NEW S \in SUBSET DOMAIN log, NEW span, Spans(span, S)
    PROVE  span = SpanOver(S)
<1> DEFINE times == {log[n].time : n \in S}
<1>1. /\ \A m \in S : m \in Nat /\ log[m].time \in Nat
      /\ span.firstSeen \in times /\ span.lastSeen \in times
      /\ span.firstSequence \in S /\ span.lastSequence \in S
  BY Times DEF Spans
<1>2. \A t \in times : t \in Nat /\ span.firstSeen <= t /\ t <= span.lastSeen
  BY <1>1 DEF Spans
<1>3. \A m \in S : span.firstSequence <= m /\ m <= span.lastSequence
  BY DEF Spans
<1> HIDE DEF times
<1>4. Min(times) = span.firstSeen /\ Max(times) = span.lastSeen
  <2>1. \A t \in times : (\A u \in times : t <= u) => t = span.firstSeen
    BY <1>1, <1>2
  <2>2. \A t \in times : (\A u \in times : t >= u) => t = span.lastSeen
    BY <1>1, <1>2
  <2>3. \A u \in times : span.firstSeen <= u /\ span.lastSeen >= u
    BY <1>1, <1>2
  <2>4. QED
    BY <1>1, <2>1, <2>2, <2>3 DEF Min, Max
<1>5. Min(S) = span.firstSequence /\ Max(S) = span.lastSequence
  <2>1. \A m \in S : (\A k \in S : m <= k) => m = span.firstSequence
    BY <1>1, <1>3
  <2>2. \A m \in S : (\A k \in S : m >= k) => m = span.lastSequence
    BY <1>1, <1>3
  <2>3. \A k \in S : span.firstSequence <= k /\ span.lastSequence >= k
    BY <1>1, <1>3
  <2>4. QED
    BY <1>1, <2>1, <2>2, <2>3 DEF Min, Max
<1>6. SpanOver(S) = [firstSeen |-> span.firstSeen, lastSeen |-> span.lastSeen,
                     firstSequence |-> span.firstSequence,
                     lastSequence |-> span.lastSequence]
  BY <1>4, <1>5 DEF SpanOver, times
<1>7. QED
  BY <1>6 DEF Spans

-----------------------------------------------------------------------------
(* Steps that leave the entity projector alone.                            *)

LEMMA MentionsIn ==
    ASSUME Basics, NEW id
    PROVE  Mentions(id) \subseteq DOMAIN log
BY DEF Basics, Mentions, Projector

LEMMA KeepsTables ==
    ASSUME Basics, TablesTrue, UNCHANGED entityTables,
           checkpoint'["entity"] = checkpoint["entity"],
           \A n \in DOMAIN log : log'[n] = log[n]
    PROVE  TablesTrue'
<1>0. UNCHANGED << entities, entityObservations, entityEvidence, identityClaims >>
  BY DEF entityTables
<1>1. \A n \in 1..checkpoint["entity"] : n \in DOMAIN log /\ log'[n] = log[n]
  BY DEF Basics, Projector
<1>2. ASSUME NEW id
      PROVE  /\ Mentions(id)' = Mentions(id)
             /\ \A m \in Mentions(id) : log'[m] = log[m]
  BY <1>1 DEF Mentions
<1>3. ASSUME NEW id, NEW e PROVE Evidencing(id, e)' = Evidencing(id, e)
  BY <1>2 DEF Evidencing
<1>4. ASSUME NEW id, NEW key PROVE Claiming(id, key)' = Claiming(id, key)
  BY <1>2 DEF Claiming
<1>5. ASSUME NEW span, NEW S, Spans(span, S), \A m \in S : log'[m] = log[m]
      PROVE  Spans(span, S)'
  BY <1>5 DEF Spans
<1>6. ASSUME NEW id \in DOMAIN entities PROVE RowTrue(id)'
  <2>1. IsRow(entities[id]) /\ Spans(entities[id].span, Mentions(id))
    BY DEF TablesTrue, EntitiesTrue, RowTrue
  <2>2. PICK m \in Mentions(id) :
            /\ Newest(id, m)
            /\ entities[id].claimed = << log[m].time, m >>
            /\ entities[id].claim = Reference(log[m], id).claim
    BY DEF TablesTrue, EntitiesTrue, RowTrue, Shows
  <2>3. Newest(id, m)'
    BY <1>2, <2>2 DEF Newest
  <2>4. Shows(entities[id], id)'
    BY <1>0, <1>2, <2>2, <2>3 DEF Shows
  <2>5. Spans(entities[id].span, Mentions(id))'
    BY <1>0, <1>2, <1>5, <2>1
  <2>6. QED
    BY <1>0, <2>1, <2>4, <2>5 DEF RowTrue, IsRow
<1>7. EntitiesTrue'
  BY <1>0, <1>2, <1>6 DEF TablesTrue, EntitiesTrue
<1>8. LineageTrue'
  BY <1>0, <1>2 DEF TablesTrue, LineageTrue
<1>9. EvidenceTrue'
  <2>1. ASSUME NEW id, NEW e, << id, e >> \in DOMAIN entityEvidence
        PROVE  Spans(entityEvidence[<< id, e >>], Evidencing(id, e))'
    <3>1. \A m \in Evidencing(id, e) : log'[m] = log[m]
      BY <1>2 DEF Evidencing
    <3>2. Spans(entityEvidence[<< id, e >>], Evidencing(id, e))
      BY <2>1 DEF TablesTrue, EvidenceTrue
    <3>3. QED
      BY <1>0, <1>3, <1>5, <3>1, <3>2
  <2>2. QED
    BY <1>0, <1>3, <2>1 DEF TablesTrue, EvidenceTrue
<1>10. ClaimsTrue'
  <2>1. ASSUME NEW id, NEW key, << id, key >> \in DOMAIN identityClaims
        PROVE  Spans(identityClaims[<< id, key >>], Claiming(id, key))'
    <3>1. \A m \in Claiming(id, key) : log'[m] = log[m]
      BY <1>2 DEF Claiming
    <3>2. Spans(identityClaims[<< id, key >>], Claiming(id, key))
      BY <2>1 DEF TablesTrue, ClaimsTrue
    <3>3. QED
      BY <1>0, <1>4, <1>5, <3>1, <3>2
  <2>2. QED
    BY <1>0, <1>4, <2>1 DEF TablesTrue, ClaimsTrue
<1>11. QED
  BY <1>7, <1>8, <1>9, <1>10 DEF TablesTrue

-----------------------------------------------------------------------------
(* The step of the entity projector.                                       *)

\* The next item mentions its references, and nothing else changes about what
\* was mentioned before.
LEMMA NextMentions ==
    ASSUME Basics, Ready("entity"), Processed("entity"), NEW id
    PROVE  LET n == NextItem("entity")
           IN  /\ n \in DOMAIN log /\ n = checkpoint["entity"] + 1
               /\ n \notin Mentions(id)
               /\ id \in EntityIds(log[n]) =>
                     Mentions(id)' = Mentions(id) \cup {n}
               /\ id \notin EntityIds(log[n]) => Mentions(id)' = Mentions(id)
<1> DEFINE n == NextItem("entity")
<1>1. /\ n = checkpoint["entity"] + 1 /\ n \in DOMAIN log
      /\ checkpoint["entity"] \in Nat
  BY DEF Ready, NextItem, Basics, Projector
<1>2. checkpoint'["entity"] = n /\ log' = log
  BY <1>1 DEF Processed, Basics, Projector
<1>3. 1..n = 1..checkpoint["entity"] \cup {n} /\ n \notin 1..checkpoint["entity"]
  BY <1>1
<1> HIDE DEF n
<1>4. QED
  BY <1>1, <1>2, <1>3 DEF Mentions, n

\* References that do not conflict are told apart by their identifiers.
LEMMA OneReference ==
    ASSUME NEW o, ~ConflictingReferences(o), NEW r \in References(o)
    PROVE  Reference(o, r.id) = r
<1>1. \A s \in References(o) : s.id = r.id => s = r
  BY DEF ConflictingReferences
<1>2. QED
  BY <1>1 DEF Reference

\* The row of an entity that the item mentions.
LEMMA MentionedRow ==
    ASSUME Basics, EntitiesTrue, ProjectEntities,
           NEW n, n = NextItem("entity"), NEW id \in EntityIds(log[n])
    PROVE  RowTrue(id)'
<1> DEFINE r == Reference(log[n], id)
           claimed == << log[n].time, n >>
<1>1. /\ Ready("entity") /\ Processed("entity") /\ log' = log
      /\ ~ConflictingReferences(log[n])
  BY DEF ProjectEntities, EntityPoison, Processed
<1>2. /\ n \in DOMAIN log /\ n = checkpoint["entity"] + 1
      /\ Mentions(id)' = Mentions(id) \cup {n}
  BY <1>1, NextMentions
<1>3. /\ Mentions(id) \subseteq DOMAIN log
      /\ \A m \in Mentions(id) : m \in Nat /\ m < n /\ log[m].time \in Nat
      /\ n \in Nat /\ log[n].time \in Nat
  <2>1. \A m \in Mentions(id) : m \in 1..checkpoint["entity"]
    BY DEF Mentions
  <2>2. checkpoint["entity"] \in Nat
    BY DEF Basics, Projector
  <2>3. QED
    BY <1>2, <2>1, <2>2, MentionsIn, Times
<1>4. r.id = id
  <2>1. PICK s \in References(log[n]) : s.id = id
    BY DEF EntityIds
  <2>2. QED
    BY <1>1, <2>1, OneReference
<1>5. entities'[id] = EntityRow(r, n)
  BY DEF ProjectEntities
<1> HIDE DEF r
<1>6. CASE id \notin DOMAIN entities
  <2>1. entities'[id] = [type |-> r.type, claim |-> r.claim,
                         claimed |-> claimed, span |-> SpanAt(n)]
    BY <1>4, <1>5, <1>6 DEF EntityRow
  <2>2. Mentions(id)' = {n}
    BY <1>2, <1>6 DEF EntitiesTrue
  <2>3. Newest(id, n)'
    BY <1>3, <2>2 DEF Newest
  <2>4. Shows(entities[id], id)'
    BY <1>1, <2>1, <2>2, <2>3 DEF Shows, r
  <2>5. Spans(SpanAt(n), {n})
    BY <1>2, NewSpan
  <2>6. Spans(entities[id].span, Mentions(id))'
    BY <1>1, <2>1, <2>2, <2>5 DEF Spans
  <2>7. IsRow(entities'[id])
    BY <2>1 DEF IsRow
  <2>8. QED
    BY <2>4, <2>6, <2>7 DEF RowTrue, IsRow
<1>7. CASE id \in DOMAIN entities
  <2> DEFINE row == entities[id]
             wider == [row EXCEPT !.span = Widened(row.span, n)]
  <2>1. IsRow(row) /\ Shows(row, id) /\ Spans(row.span, Mentions(id))
    BY <1>7 DEF EntitiesTrue, RowTrue
  <2>2. PICK m \in Mentions(id) :
            /\ Newest(id, m)
            /\ row.claimed = << log[m].time, m >>
            /\ row.claim = Reference(log[m], id).claim
    BY <2>1 DEF Shows
  <2>3. Spans(Widened(row.span, n), Mentions(id) \cup {n})
    BY <1>2, <1>3, <2>1, WiderSpan
  <2>4. wider = [type |-> row.type, claim |-> row.claim,
                 claimed |-> row.claimed, span |-> Widened(row.span, n)]
    <3>1. row = [type |-> row.type, claim |-> row.claim,
                 claimed |-> row.claimed, span |-> row.span]
      BY <2>1 DEF IsRow
    <3>2. QED
      BY <3>1
  <2>5. Later(claimed, row.claimed) <=> log[n].time >= log[m].time
    BY <1>3, <2>2 DEF Later
  <2>6. CASE log[n].time >= log[m].time
    <3>1. entities'[id] = [wider EXCEPT !.claim = r.claim, !.claimed = claimed]
      BY <1>4, <1>5, <1>7, <2>5, <2>6 DEF EntityRow
    <3>2. entities'[id] = [type |-> row.type, claim |-> r.claim,
                           claimed |-> claimed, span |-> Widened(row.span, n)]
      BY <2>4, <3>1
    <3>3. Newest(id, n)'
      <4>1. ASSUME NEW k \in Mentions(id)
            PROVE  \/ log[k].time < log[n].time
                   \/ log[k].time = log[n].time /\ k <= n
        BY <1>3, <2>2, <2>6 DEF Newest
      <4>2. QED
        BY <1>1, <1>2, <1>3, <4>1 DEF Newest
    <3>4. Shows(entities[id], id)'
      BY <1>1, <1>2, <3>2, <3>3 DEF Shows, r
    <3>5. Spans(entities[id].span, Mentions(id))'
      BY <1>1, <1>2, <2>3, <3>2 DEF Spans
    <3>6. IsRow(entities'[id])
      BY <3>2 DEF IsRow
    <3>7. QED
      BY <3>4, <3>5, <3>6 DEF RowTrue, IsRow
  <2>7. CASE ~(log[n].time >= log[m].time)
    <3>1. entities'[id] = wider
      BY <1>4, <1>5, <1>7, <2>5, <2>7 DEF EntityRow
    <3>2. entities'[id] = [type |-> row.type, claim |-> row.claim,
                           claimed |-> row.claimed, span |-> Widened(row.span, n)]
      BY <2>4, <3>1
    <3>3. Newest(id, m)'
      <4>1. ASSUME NEW k \in Mentions(id) \cup {n}
            PROVE  \/ log[k].time < log[m].time
                   \/ log[k].time = log[m].time /\ k <= m
        <5>1. CASE k = n
          <6>1. log[n].time \in Nat /\ log[m].time \in Nat
            BY <1>3, <2>2
          <6>2. log[n].time < log[m].time
            BY <2>7, <6>1
          <6>3. QED
            BY <5>1, <6>2
        <5>2. CASE k \in Mentions(id)
          BY <2>2, <5>2 DEF Newest
        <5>3. QED
          BY <5>1, <5>2
      <4>2. QED
        BY <1>1, <1>2, <4>1 DEF Newest
    <3>4. Shows(entities[id], id)'
      BY <1>1, <1>2, <2>2, <3>2, <3>3 DEF Shows
    <3>5. Spans(entities[id].span, Mentions(id))'
      BY <1>1, <1>2, <2>3, <3>2 DEF Spans
    <3>6. IsRow(entities'[id])
      BY <3>2 DEF IsRow
    <3>7. QED
      BY <3>4, <3>5, <3>6 DEF RowTrue, IsRow
  <2>8. QED
    BY <2>6, <2>7
<1>8. QED
  BY <1>6, <1>7

LEMMA EntityRowsStep ==
    ASSUME Basics, EntitiesTrue, ProjectEntities PROVE EntitiesTrue'
<1> DEFINE n == NextItem("entity")
<1>1. /\ Ready("entity") /\ Processed("entity") /\ log' = log
      /\ DOMAIN entities' = DOMAIN entities \cup EntityIds(log[n])
      /\ \A id \in DOMAIN entities \ EntityIds(log[n]) :
            entities'[id] = entities[id]
  BY DEF ProjectEntities, Processed
<1>2. ASSUME NEW id PROVE id \in DOMAIN entities' <=> Mentions(id)' # {}
  BY <1>1, NextMentions DEF EntitiesTrue
<1>3. ASSUME NEW id \in DOMAIN entities' PROVE RowTrue(id)'
  <2>1. CASE id \in EntityIds(log[n])
    BY <2>1, MentionedRow
  <2>2. CASE id \notin EntityIds(log[n])
    <3>1. /\ id \in DOMAIN entities /\ entities'[id] = entities[id]
          /\ Mentions(id)' = Mentions(id)
      BY <1>1, <2>2, NextMentions
    <3>2. RowTrue(id)
      BY <3>1 DEF EntitiesTrue
    <3>3. QED
      BY <1>1, <3>1, <3>2 DEF RowTrue, Shows, Newest, Spans, IsRow
  <2>3. QED
    BY <2>1, <2>2
<1>4. QED
  BY <1>2, <1>3 DEF EntitiesTrue

LEMMA LineageStep ==
    ASSUME Basics, LineageTrue, ProjectEntities PROVE LineageTrue'
<1> DEFINE n == NextItem("entity")
           o == log[n]
           new == {[entity |-> o.subject.id, role |-> "subject", sequence |-> n]}
                    \cup {[entity |-> r.id, role |-> "object", sequence |-> n] :
                             r \in o.object}
<1>1. /\ Ready("entity") /\ Processed("entity")
      /\ entityObservations' = entityObservations \cup new
  BY DEF ProjectEntities
<1>2. /\ \A row \in new : row.sequence = n /\ row.entity \in EntityIds(o)
      /\ \A id \in EntityIds(o) : \E row \in new :
            row.entity = id /\ row.sequence = n
  <2>1. \A row \in new : row.sequence = n /\ row.entity \in EntityIds(o)
    BY DEF EntityIds, References
  <2>2. ASSUME NEW r \in References(o)
        PROVE  \E row \in new : row.entity = r.id /\ row.sequence = n
    <3>1. CASE r = o.subject
      <4>1. [entity |-> r.id, role |-> "subject", sequence |-> n] \in new
        BY <3>1
      <4>2. QED
        BY <4>1
    <3>2. CASE r \in o.object
      <4>1. [entity |-> r.id, role |-> "object", sequence |-> n] \in new
        BY <3>2
      <4>2. QED
        BY <4>1
    <3>3. QED
      BY <3>1, <3>2 DEF References
  <2>3. QED
    BY <2>1, <2>2 DEF EntityIds
<1> HIDE DEF new, n
<1>3. ASSUME NEW row \in entityObservations'
      PROVE  row.sequence \in Mentions(row.entity)'
  BY <1>1, <1>2, <1>3, NextMentions DEF LineageTrue, n
<1>4. ASSUME NEW id, NEW m \in Mentions(id)'
      PROVE  \E row \in entityObservations' : row.entity = id /\ row.sequence = m
  BY <1>1, <1>2, <1>4, NextMentions DEF LineageTrue, n
<1>5. QED
  BY <1>3, <1>4 DEF LineageTrue

LEMMA EvidenceStep ==
    ASSUME Basics, EvidenceTrue, ProjectEntities PROVE EvidenceTrue'
<1> DEFINE n == NextItem("entity")
           keys == EntityIds(log[n]) \X log[n].evidence
<1>1. /\ Ready("entity") /\ Processed("entity") /\ log' = log
      /\ entityEvidence' = Upserted(entityEvidence, keys, n)
  BY DEF ProjectEntities, Processed
<1>2. DOMAIN entityEvidence' = DOMAIN entityEvidence \cup keys
  BY <1>1, UpsertedKeys
<1>3. n \in DOMAIN log
  BY <1>1, NextMentions
<1>4. ASSUME NEW id, NEW e
      PROVE  /\ << id, e >> \in keys =>
                   Evidencing(id, e)' = Evidencing(id, e) \cup {n}
             /\ << id, e >> \notin keys => Evidencing(id, e)' = Evidencing(id, e)
             /\ Evidencing(id, e) \subseteq DOMAIN log
  BY <1>1, NextMentions, MentionsIn DEF Evidencing
<1>5. \A k \in DOMAIN entityEvidence' : k = << k[1], k[2] >>
  BY <1>2 DEF EvidenceTrue
<1> HIDE DEF keys, n
<1>6. ASSUME NEW id, NEW e
      PROVE  << id, e >> \in DOMAIN entityEvidence' <=> Evidencing(id, e)' # {}
  BY <1>2, <1>4 DEF EvidenceTrue
<1>7. ASSUME NEW id, NEW e, << id, e >> \in DOMAIN entityEvidence'
      PROVE  Spans(entityEvidence[<< id, e >>], Evidencing(id, e))'
  <2> DEFINE k == << id, e >>
             S == Evidencing(id, e)
  <2>1. /\ k \in DOMAIN entityEvidence => Spans(entityEvidence[k], S)
        /\ k \notin DOMAIN entityEvidence => S = {}
        /\ k \in DOMAIN entityEvidence \cup keys
        /\ S \in SUBSET DOMAIN log
    BY <1>2, <1>4, <1>7 DEF EvidenceTrue
  <2> HIDE DEF k, S
  <2>2. /\ k \in keys => Spans(Upserted(entityEvidence, keys, n)[k], S \cup {n})
        /\ k \notin keys => Spans(Upserted(entityEvidence, keys, n)[k], S)
    BY <1>3, <2>1, UpsertedSpan
  <2>3. Spans(entityEvidence'[k], Evidencing(id, e)')
    BY <1>1, <1>4, <2>2 DEF k, S
  <2>4. QED
    BY <1>1, <2>3 DEF Spans, k
<1>8. QED
  BY <1>5, <1>6, <1>7 DEF EvidenceTrue

LEMMA ClaimsStep ==
    ASSUME Basics, ClaimsTrue, ProjectEntities PROVE ClaimsTrue'
<1> DEFINE n == NextItem("entity")
           keys == UNION {{r.id} \X r.keys : r \in References(log[n])}
<1>1. /\ Ready("entity") /\ Processed("entity") /\ log' = log
      /\ identityClaims' = Upserted(identityClaims, keys, n)
      /\ ~ConflictingReferences(log[n])
  BY DEF ProjectEntities, Processed, EntityPoison
<1>2. DOMAIN identityClaims' = DOMAIN identityClaims \cup keys
  BY <1>1, UpsertedKeys
<1>3. n \in DOMAIN log
  BY <1>1, NextMentions
<1>4. ASSUME NEW id, NEW key
      PROVE  << id, key >> \in keys <=>
                /\ id \in EntityIds(log[n])
                /\ key \in Reference(log[n], id).keys
  <2>1. << id, key >> \in keys <=>
           \E r \in References(log[n]) : id = r.id /\ key \in r.keys
    OBVIOUS
  <2>2. \A r \in References(log[n]) : Reference(log[n], r.id) = r
    BY <1>1, OneReference
  <2>3. QED
    BY <2>1, <2>2 DEF EntityIds
<1>5. \A k \in DOMAIN identityClaims' : k = << k[1], k[2] >>
  <2>1. \A k \in keys : k = << k[1], k[2] >>
    OBVIOUS
  <2>2. QED
    BY <1>2, <2>1 DEF ClaimsTrue
<1> HIDE DEF keys
<1>6. ASSUME NEW id, NEW key
      PROVE  /\ << id, key >> \in keys =>
                   Claiming(id, key)' = Claiming(id, key) \cup {n}
             /\ << id, key >> \notin keys => Claiming(id, key)' = Claiming(id, key)
             /\ Claiming(id, key) \subseteq DOMAIN log
  BY <1>1, <1>4, NextMentions, MentionsIn DEF Claiming
<1> HIDE DEF n
<1>7. ASSUME NEW id, NEW key
      PROVE  << id, key >> \in DOMAIN identityClaims' <=> Claiming(id, key)' # {}
  BY <1>2, <1>6 DEF ClaimsTrue
<1>8. ASSUME NEW id, NEW key, << id, key >> \in DOMAIN identityClaims'
      PROVE  Spans(identityClaims[<< id, key >>], Claiming(id, key))'
  <2> DEFINE k == << id, key >>
             S == Claiming(id, key)
  <2>1. /\ k \in DOMAIN identityClaims => Spans(identityClaims[k], S)
        /\ k \notin DOMAIN identityClaims => S = {}
        /\ k \in DOMAIN identityClaims \cup keys
        /\ S \in SUBSET DOMAIN log
    BY <1>2, <1>6, <1>8 DEF ClaimsTrue
  <2> HIDE DEF k, S
  <2>2. /\ k \in keys => Spans(Upserted(identityClaims, keys, n)[k], S \cup {n})
        /\ k \notin keys => Spans(Upserted(identityClaims, keys, n)[k], S)
    BY <1>3, <2>1, UpsertedSpan
  <2>3. Spans(identityClaims'[k], Claiming(id, key)')
    BY <1>1, <1>6, <2>2 DEF k, S
  <2>4. QED
    BY <1>1, <2>3 DEF Spans, k
<1>9. QED
  BY <1>5, <1>7, <1>8 DEF ClaimsTrue

-----------------------------------------------------------------------------
(* All steps.                                                              *)

\* What a step of any other projector leaves of the entity projector's state.
Elsewhere ==
    /\ UNCHANGED << log, entityTables >>
    /\ checkpoint' \in [Projector -> Nat]
    /\ checkpoint'["entity"] = checkpoint["entity"]

LEMMA OtherProjectors ==
    ASSUME Basics,
           \/ RunRelationship \/ RunCorrelation \/ RunScene
           \/ PoisonEntity \/ UNCHANGED vars
    PROVE  Elsewhere
<1>1. ASSUME NEW p \in Projector \ {"entity"}, Processed(p)
      PROVE  /\ checkpoint' \in [Projector -> Nat] /\ log' = log
             /\ checkpoint'["entity"] = checkpoint["entity"]
  BY <1>1 DEF Processed, Basics, Projector
<1>2. CASE RunRelationship
  <2>1. CASE ProjectRelationship
    BY <1>1, <1>2, <2>1
    DEF ProjectRelationship, RunRelationship, Elsewhere, Projector
  <2>2. CASE PoisonRelationship
    BY <1>2, <2>2
    DEF PoisonRelationship, Poisoned, RunRelationship, Elsewhere, Basics
  <2>3. QED
    BY <1>2, <2>1, <2>2 DEF RunRelationship
<1>3. CASE RunCorrelation
  BY <1>1, <1>3 DEF RunCorrelation, Correlate, Elsewhere, Projector
<1>4. CASE RunScene
  BY <1>1, <1>4 DEF RunScene, PlanScenes, Elsewhere, Projector
<1>5. CASE PoisonEntity
  BY <1>5 DEF PoisonEntity, Poisoned, Elsewhere, Basics
<1>6. CASE UNCHANGED vars
  BY <1>6 DEF vars, base, Elsewhere, Basics
<1>7. QED
  BY <1>2, <1>3, <1>4, <1>5, <1>6

LEMMA TablesStep == Basics /\ TablesTrue /\ [Next]_vars => Basics' /\ TablesTrue'
<1> SUFFICES ASSUME Basics, TablesTrue, [Next]_vars PROVE Basics' /\ TablesTrue'
  OBVIOUS
<1>1. ASSUME NEW p \in Payload, AppendObservation(p) PROVE Basics' /\ TablesTrue'
  <2>1. /\ log' = Append(log, p) /\ log \in Seq(Payload)
        /\ UNCHANGED << checkpoint, entityTables >>
    BY <1>1 DEF AppendObservation, Ingest, Store!AppendObservation, Basics
  <2>2. /\ log' \in Seq(Payload) /\ Len(log') = Len(log) + 1 /\ Len(log) \in Nat
        /\ \A n \in DOMAIN log : log'[n] = log[n]
    BY <2>1
  <2>3. Basics'
    BY <2>1, <2>2 DEF Basics, Projector
  <2>4. QED
    BY <2>1, <2>2, <2>3, KeepsTables
<1>2. CASE ProjectEntities
  <2>1. Ready("entity") /\ Processed("entity")
    BY <1>2 DEF ProjectEntities
  <2>2. Basics'
    BY <2>1 DEF Ready, Processed, Basics, Projector
  <2>3. QED
    BY <1>2, <2>2, EntityRowsStep, LineageStep, EvidenceStep, ClaimsStep
    DEF TablesTrue
<1>3. CASE Elsewhere
  <2>1. Basics'
    BY <1>3 DEF Elsewhere, Basics
  <2>2. QED
    BY <1>3, <2>1, KeepsTables DEF Elsewhere
<1>4. QED
  BY <1>1, <1>2, <1>3, OtherProjectors DEF Next, RunEntity

LEMMA InitialTables == Init => Basics /\ TablesTrue
<1> SUFFICES ASSUME Init PROVE Basics /\ TablesTrue
  OBVIOUS
<1>1. /\ log = << >> /\ checkpoint = [p \in Projector |-> 0]
      /\ entities = << >> /\ entityObservations = {}
      /\ entityEvidence = << >> /\ identityClaims = << >>
  BY DEF Init, BaseInit, EntityInit, Store!Init
<1>2. \A id : Mentions(id) = {}
  BY <1>1 DEF Mentions, Projector
<1>3. /\ \A id, e : Evidencing(id, e) = {}
      /\ \A id, key : Claiming(id, key) = {}
  BY <1>2 DEF Evidencing, Claiming
<1>4. DOMAIN << >> = {}
  OBVIOUS
<1>5. Basics
  BY <1>1 DEF Basics, Projector
<1>6. EntitiesTrue /\ LineageTrue
  BY <1>1, <1>2, <1>4 DEF EntitiesTrue, LineageTrue
<1>7. EvidenceTrue /\ ClaimsTrue
  BY <1>1, <1>3, <1>4 DEF EvidenceTrue, ClaimsTrue
<1>8. QED
  BY <1>5, <1>6, <1>7 DEF TablesTrue

\* The one position that Newest describes.
LEMMA NewestIsLatest ==
    ASSUME Basics, NEW id, NEW m, Newest(id, m) PROVE LatestMention(id) = m
<1>1. \A k \in Mentions(id) : k \in Nat /\ log[k].time \in Nat
  BY MentionsIn, Times
<1>2. ASSUME NEW k \in Mentions(id),
             \A j \in Mentions(id) : \/ log[j].time < log[k].time
                                     \/ log[j].time = log[k].time /\ j <= k
      PROVE  k = m
  BY <1>1, <1>2 DEF Newest
<1>3. QED
  BY <1>2 DEF LatestMention, Newest

(***************************************************************************)
(* Whatever the order in which observations arrive and however the other   *)
(* projectors run, the entity tables are what the log up to the checkpoint *)
(* says: every entity shows its latest claim in event time, and its spans  *)
(* and those of its evidence and identity claims reach exactly over the    *)
(* observations that mention them (EntityProjectionHandler).               *)
(***************************************************************************)
THEOREM EntitiesAreTrue == Spec => []EntitiesMatchLineage
<1>1. Basics /\ TablesTrue => EntitiesMatchLineage
  <2> SUFFICES ASSUME Basics, TablesTrue PROVE EntitiesMatchLineage
    OBVIOUS
  <2>1. DOMAIN entities = UNION {EntityIds(log[n]) : n \in 1..checkpoint["entity"]}
    <3>1. \A id : id \in DOMAIN entities <=>
                     \E n \in 1..checkpoint["entity"] : id \in EntityIds(log[n])
      BY DEF TablesTrue, EntitiesTrue, Mentions
    <3>2. QED
      BY <3>1
  <2>2. ASSUME NEW id \in DOMAIN entities
        PROVE  /\ {row.sequence : row \in {r \in entityObservations :
                                              r.entity = id}} = Mentions(id)
               /\ entities[id].claim = Reference(log[LatestMention(id)], id).claim
               /\ entities[id].span = SpanOver(Mentions(id))
    <3>1. {row.sequence : row \in {r \in entityObservations : r.entity = id}}
             = Mentions(id)
      BY DEF TablesTrue, LineageTrue
    <3>2. PICK m \in Mentions(id) :
              Newest(id, m) /\ entities[id].claim = Reference(log[m], id).claim
      BY DEF TablesTrue, EntitiesTrue, RowTrue, Shows
    <3>3. LatestMention(id) = m
      BY <3>2, NewestIsLatest
    <3>4. Spans(entities[id].span, Mentions(id))
      BY DEF TablesTrue, EntitiesTrue, RowTrue
    <3>5. entities[id].span = SpanOver(Mentions(id))
      BY <3>4, MentionsIn, SpanIsOver
    <3>6. QED
      BY <3>1, <3>2, <3>3, <3>5
  <2>3. ASSUME NEW k \in DOMAIN entityEvidence
        PROVE  entityEvidence[k] =
                  SpanOver({n \in Mentions(k[1]) : k[2] \in log[n].evidence})
    <3>1. k = << k[1], k[2] >>
      BY DEF TablesTrue, EvidenceTrue
    <3>2. Spans(entityEvidence[k], Evidencing(k[1], k[2]))
      BY <3>1 DEF TablesTrue, EvidenceTrue
    <3>3. Evidencing(k[1], k[2]) \subseteq DOMAIN log
      BY MentionsIn DEF Evidencing
    <3>4. QED
      BY <3>2, <3>3, SpanIsOver DEF Evidencing
  <2>4. ASSUME NEW k \in DOMAIN identityClaims
        PROVE  identityClaims[k] =
                  SpanOver({n \in Mentions(k[1]) :
                               k[2] \in Reference(log[n], k[1]).keys})
    <3>1. k = << k[1], k[2] >>
      BY DEF TablesTrue, ClaimsTrue
    <3>2. Spans(identityClaims[k], Claiming(k[1], k[2]))
      BY <3>1 DEF TablesTrue, ClaimsTrue
    <3>3. Claiming(k[1], k[2]) \subseteq DOMAIN log
      BY MentionsIn DEF Claiming
    <3>4. QED
      BY <3>2, <3>3, SpanIsOver DEF Claiming
  <2>5. QED
    BY <2>1, <2>2, <2>3, <2>4 DEF EntitiesMatchLineage
<1>2. QED
  BY <1>1, InitialTables, TablesStep, PTL DEF Spec

-----------------------------------------------------------------------------
(* How far the projectors are.                                             *)

\* A step that processes an item does so after those it waits for.
LEMMA ProcessedInOrder ==
    ASSUME Basics, CheckpointsOrdered, NEW p \in Projector, Ready(p),
           Processed(p),
           p = "correlation" =>
               checkpoint["relationship"] >= checkpoint["correlation"] + 1,
           p = "scene" => DependenciesReady(checkpoint["scene"] + 1)
    PROVE  CheckpointsOrdered'
<1>1. /\ \A q \in Projector : checkpoint[q] \in Nat
      /\ Len(log) \in Nat /\ log' = log /\ checkpoint[p] < Len(log)
      /\ checkpoint'[p] = checkpoint[p] + 1
      /\ \A q \in Projector \ {p} : checkpoint'[q] = checkpoint[q]
  BY DEF Basics, Ready, Processed
<1>2. \A q \in Projector : checkpoint'[q] <= Len(log')
  BY <1>1 DEF CheckpointsOrdered
<1>3. checkpoint'["correlation"] <= checkpoint'["relationship"]
  BY <1>1 DEF CheckpointsOrdered, Projector
<1>4. ASSUME NEW q \in Projector PROVE checkpoint'["scene"] <= checkpoint'[q]
  <2>1. CASE p = "scene"
    <3>1. q # "scene" => checkpoint[q] >= checkpoint["scene"] + 1
      BY <2>1 DEF DependenciesReady, Projector
    <3>2. QED
      BY <1>1, <2>1, <3>1 DEF Projector
  <2>2. CASE p # "scene"
    <3>1. checkpoint["scene"] <= checkpoint[q]
      BY DEF CheckpointsOrdered
    <3>2. QED
      BY <1>1, <2>2, <3>1 DEF Projector
  <2>3. QED
    BY <2>1, <2>2
<1>5. QED
  BY <1>2, <1>3, <1>4 DEF CheckpointsOrdered

LEMMA OrderStep ==
    Basics /\ CheckpointsOrdered /\ [Next]_vars => CheckpointsOrdered'
<1> SUFFICES ASSUME Basics, CheckpointsOrdered, [Next]_vars
             PROVE  CheckpointsOrdered'
  OBVIOUS
<1>1. ASSUME NEW o \in Payload, AppendObservation(o) PROVE CheckpointsOrdered'
  <2>1. log' = Append(log, o) /\ checkpoint' = checkpoint
    BY <1>1 DEF AppendObservation, Ingest, Store!AppendObservation
  <2>2. Len(log') = Len(log) + 1 /\ Len(log) \in Nat
    BY <2>1 DEF Basics
  <2>3. \A p \in Projector : checkpoint'[p] <= Len(log')
    BY <2>1, <2>2 DEF Basics, CheckpointsOrdered
  <2>4. QED
    BY <2>1, <2>3 DEF CheckpointsOrdered
<1>2. CASE RunEntity
  <2>1. CASE ProjectEntities
    BY <2>1, ProcessedInOrder DEF ProjectEntities, Projector
  <2>2. CASE PoisonEntity
    BY <2>2 DEF PoisonEntity, Poisoned, CheckpointsOrdered
  <2>3. QED
    BY <1>2, <2>1, <2>2 DEF RunEntity
<1>3. CASE RunRelationship
  <2>1. CASE ProjectRelationship
    BY <2>1, ProcessedInOrder DEF ProjectRelationship, Projector
  <2>2. CASE PoisonRelationship
    BY <2>2 DEF PoisonRelationship, Poisoned, CheckpointsOrdered
  <2>3. QED
    BY <1>3, <2>1, <2>2 DEF RunRelationship
<1>4. CASE RunCorrelation
  <2>1. /\ Ready("correlation") /\ Processed("correlation")
        /\ checkpoint["relationship"] >= checkpoint["correlation"] + 1
    BY <1>4 DEF RunCorrelation, Correlate, RelationshipCaughtUp, NextItem
  <2>2. QED
    BY <2>1, ProcessedInOrder DEF Projector
<1>5. CASE RunScene
  <2>1. /\ Ready("scene") /\ Processed("scene")
        /\ DependenciesReady(checkpoint["scene"] + 1)
    BY <1>5 DEF RunScene, PlanScenes, NextItem
  <2>2. QED
    BY <2>1, ProcessedInOrder DEF Projector
<1>6. CASE UNCHANGED vars
  BY <1>6 DEF vars, base, CheckpointsOrdered
<1>7. QED
  BY <1>1, <1>2, <1>3, <1>4, <1>5, <1>6 DEF Next

(***************************************************************************)
(* No projector gets ahead of the log, correlation not ahead of the        *)
(* relationship projector, and scenes not ahead of any of the others       *)
(* (_require_relationship_checkpoint, _require_dependencies).              *)
(***************************************************************************)
THEOREM ProjectorsInOrder == Spec => []CheckpointsOrdered
<1>1. Init => CheckpointsOrdered
  BY DEF Init, BaseInit, Store!Init, CheckpointsOrdered, Projector
<1>2. QED
  BY <1>1, InitialTables, TablesStep, OrderStep, PTL DEF Spec

-----------------------------------------------------------------------------
(* Numbers.                                                                *)

\* Every nonempty set of numbers has a least one.
LEMMA LeastElement ==
    ASSUME NEW T \in SUBSET Nat, T # {}
    PROVE  \E n \in T : \A m \in T : n <= m
<1> DEFINE R == StrictSubsetOrdering(Nat)
           F == FiniteSubsetsOf(Nat)
           up == {0..n : n \in T}
<1>1. IsWellFoundedOn(R, F)
  BY FS_StrictSubsetOrderingWellFounded
<1>2. up \subseteq F
  <2>1. \A n \in Nat : 0..n \in SUBSET Nat
    OBVIOUS
  <2>2. \A n \in Nat : IsFiniteSet(0..n)
    BY FS_Interval
  <2>3. QED
    BY <2>1, <2>2 DEF FiniteSubsetsOf
<1>3. up # {}
  OBVIOUS
<1> HIDE DEF R, F, up
<1>4. PICK x \in up : \A y \in up : ~(<< y, x >> \in R)
  BY <1>1, <1>2, <1>3, WFMin
<1>5. PICK n \in T : x = 0..n
  BY DEF up
<1>6. ASSUME NEW m \in T, m < n PROVE FALSE
  <2>1. 0..m \in up /\ 0..m \subseteq 0..n /\ 0..m # 0..n
    BY <1>6 DEF up
  <2>2. << 0..m, 0..n >> \in R
    BY <2>1 DEF R, StrictSubsetOrdering
  <2>3. QED
    BY <1>4, <1>5, <2>1, <2>2
<1>7. QED
  BY <1>6

\* Induction over the numbers, for a set instead of a predicate.
LEMMA Induction ==
    ASSUME NEW S, 0 \in S, \A n \in Nat : n \in S => n + 1 \in S
    PROVE  Nat \subseteq S
<1> SUFFICES ASSUME Nat \ S # {} PROVE FALSE
  OBVIOUS
<1>1. PICK n \in Nat \ S : \A m \in Nat \ S : n <= m
  BY LeastElement
<1>2. n - 1 \in Nat /\ ~(n <= n - 1) /\ (n - 1) + 1 = n
  OBVIOUS
<1>3. n - 1 \in S
  BY <1>1, <1>2
<1>4. QED
  BY <1>2, <1>3

\* The least number of a set, however it goes on.
LEMMA MinIs ==
    ASSUME NEW S \in SUBSET Nat, NEW n \in S, \A m \in S : n <= m
    PROVE  Min(S) = n
<1>1. \A m \in S : (\A k \in S : m <= k) => m = n
  OBVIOUS
<1>2. QED
  BY <1>1 DEF Min

LEMMA MinOf ==
    ASSUME NEW S \in SUBSET Nat, S # {}
    PROVE  Min(S) \in S /\ \A m \in S : Min(S) <= m
<1>1. PICK n \in S : \A m \in S : n <= m
  BY LeastElement
<1>2. QED
  BY <1>1, MinIs

-----------------------------------------------------------------------------
(* What the schema says of an observation.                                 *)

LEMMA Schema ==
    ASSUME NEW o \in Payload
    PROVE  /\ o.time \in Nat /\ o.confidence \in 0..100
           /\ o.subject.type \in EntityType
           /\ \A t \in o.object : t.type \in EntityType
           /\ o.relationship \subseteq RelationshipType
           /\ \A s, t \in o.object : s = t
           /\ \A s, t \in o.relationship : s = t
           /\ \A s, t \in o.attack_source : s = t
           /\ o.evidence # {}
<1>1. Accepted(o)
  BY ProjectionAssumption
<1>2. PICK Id, Claim, Key, Obs :
          o \in Observation(Obs, Id, Claim, Key, o.evidence, Nat, 0..100)
  BY <1>1 DEF Accepted
<1>3. /\ o.time \in Nat /\ o.confidence \in 0..100
      /\ o.subject \in EntityRef(Id, Claim, Key)
      /\ o.object \in AtMostOne(EntityRef(Id, Claim, Key))
      /\ o.relationship \in AtMostOne(RelationshipType)
      /\ o.attack_source \in AtMostOne(Id)
  BY <1>2 DEF Observation
<1>4. ASSUME NEW S, NEW X \in AtMostOne(S)
      PROVE  X \subseteq S /\ \A s, t \in X : s = t
  BY DEF AtMostOne
<1>5. /\ o.subject.type \in EntityType
      /\ \A r \in EntityRef(Id, Claim, Key) : r.type \in EntityType
  BY <1>3 DEF EntityRef
<1>6. o.evidence # {}
  BY <1>1 DEF Accepted
<1>7. o.object \subseteq EntityRef(Id, Claim, Key) /\ \A s, t \in o.object : s = t
  BY <1>3, <1>4
<1>8. o.relationship \subseteq RelationshipType /\ \A s, t \in o.relationship : s = t
  BY <1>3, <1>4
<1>9. \A s, t \in o.attack_source : s = t
  BY <1>3, <1>4
<1>10. QED
  BY <1>3, <1>5, <1>6, <1>7, <1>8, <1>9

-----------------------------------------------------------------------------
(* The relationship graph.                                                 *)

\* An observation at position m states the relationship, or a derivation made
\* it there.
At(id, m) ==
    \/ /\ m \in 1..checkpoint["relationship"]
       /\ \E e \in Direct(log[m]) : e.id = id
    \/ \E d \in derivations : d.relationship = id /\ d.sequence = m

Positions(id) == {m \in DOMAIN log : At(id, m)}

\* The lineage holds exactly these positions.
LineageExact ==
    /\ \A row \in lineage :
          /\ row = [relationship |-> row.relationship,
                    sequence |-> row.sequence]
          /\ At(row.relationship, row.sequence)
    /\ \A id, m : At(id, m) =>
          [relationship |-> id, sequence |-> m] \in lineage

\* Observed edges have no rule, derived ones have one.
Provenance(id) ==
    /\ id.type \in RelationshipType
    /\ id.provenance \in {"observed", "deterministic"}
    /\ (id.provenance = "observed") <=> (id.rule = "none")

\* The ends of the edge are of the types that observation n gives them; only
\* the source of a compromise is not its subject.
EndsAt(id, sourceType, targetType, n) ==
    /\ \E t \in log[n].object : t.id = id.target /\ t.type = targetType
    /\ id.rule # "COR_SEQ_002" =>
          id.source = log[n].subject.id /\ sourceType = log[n].subject.type

IsGraphRow(row) ==
    row = [sourceType |-> row.sourceType, targetType |-> row.targetType,
           confidence |-> row.confidence, span |-> row.span]

RelationshipTrue(id) ==
    LET row == relationships[id]
    IN  /\ IsGraphRow(row)
        /\ Provenance(id)
        /\ ValidEdge(id.type, row.sourceType, row.targetType)
        /\ row.confidence \in 0..100
        /\ Spans(row.span, Positions(id))
        /\ \A m \in Positions(id) :
              EndsAt(id, row.sourceType, row.targetType, m)

RelationshipsTrue ==
    /\ \A id : id \in DOMAIN relationships <=> Positions(id) # {}
    /\ \A id \in DOMAIN relationships : RelationshipTrue(id)

RelationshipEvidenceTrue ==
    \A k \in DOMAIN relationshipEvidence :
        /\ k = << k[1], k[2] >>
        /\ k[1] \in DOMAIN relationships
        /\ \E m \in DOMAIN log : k[2] \in log[m].evidence
        /\ \E S \in SUBSET DOMAIN log : Spans(relationshipEvidence[k], S)

\* What a writer of the graph may record at position n.
FitEdge(e, n) ==
    /\ ~Collides(e)
    /\ Provenance(e.id)
    /\ ValidEdge(e.id.type, e.sourceType, e.targetType)
    /\ e.confidence \in 0..100
    /\ EndsAt(e.id, e.sourceType, e.targetType, n)

Written(edges, n) ==
    /\ relationships' = RelationshipsAfter(edges, n)
    /\ lineage' = LineageAfter(edges, n)
    /\ log' = log

LEMMA WrittenLineage ==
    ASSUME LineageExact, NEW n, NEW edges, Written(edges, n),
           \A id, m : At(id, m)' <=>
               At(id, m) \/ (m = n /\ \E e \in edges : e.id = id)
    PROVE  LineageExact'
<1>1. lineage' = lineage \cup {[relationship |-> e.id, sequence |-> n] : e \in edges}
  BY DEF Written, LineageAfter
<1>2. ASSUME NEW row \in lineage'
      PROVE  /\ row = [relationship |-> row.relationship, sequence |-> row.sequence]
             /\ At(row.relationship, row.sequence)'
  <2>1. CASE row \in lineage
    BY <2>1 DEF LineageExact
  <2>2. CASE row \in {[relationship |-> e.id, sequence |-> n] : e \in edges}
    BY <2>2
  <2>3. QED
    BY <1>1, <2>1, <2>2
<1>3. ASSUME NEW id, NEW m, At(id, m)'
      PROVE  [relationship |-> id, sequence |-> m] \in lineage'
  <2>1. CASE At(id, m)
    BY <1>1, <2>1 DEF LineageExact
  <2>2. CASE m = n /\ \E e \in edges : e.id = id
    BY <1>1, <2>2
  <2>3. QED
    BY <1>3, <2>1, <2>2
<1>4. QED
  BY <1>2, <1>3 DEF LineageExact

\* The row of an edge that is recorded.
LEMMA WrittenRow ==
    ASSUME Basics, RelationshipsTrue, NEW n \in DOMAIN log, NEW edges,
           Written(edges, n), NEW e \in edges, FitEdge(e, n),
           \A f \in edges : f.id = e.id => f = e,
           Positions(e.id)' = Positions(e.id) \cup {n}
    PROVE  RelationshipTrue(e.id)'
<1> DEFINE id == e.id
           row == relationships[id]
<1>1. relationships'[id] = RelationshipRow(e, n) /\ log' = log
  <2>1. id \in {f.id : f \in edges}
    OBVIOUS
  <2>2. (CHOOSE f \in edges : f.id = id) = e
    OBVIOUS
  <2>3. QED
    BY <2>1, <2>2 DEF Written, RelationshipsAfter
<1>2. Positions(id) \in SUBSET DOMAIN log
  BY DEF Positions
<1>3. ASSUME NEW r, relationships'[id] = r,
             IsGraphRow(r), ValidEdge(id.type, r.sourceType, r.targetType),
             r.confidence \in 0..100, Spans(r.span, Positions(id) \cup {n}),
             \A m \in Positions(id) \cup {n} :
                EndsAt(id, r.sourceType, r.targetType, m)
      PROVE  RelationshipTrue(id)'
  <2>1. Spans(r.span, Positions(id))'
    BY <1>1, <1>3 DEF Spans
  <2>2. \A m \in Positions(id)' : EndsAt(id, r.sourceType, r.targetType, m)'
    BY <1>1, <1>3 DEF EndsAt
  <2>3. Provenance(id)
    BY DEF FitEdge
  <2>4. (relationships[id])' = r
    BY <1>3
  <2> HIDE DEF id
  <2>5. QED
    BY <1>3, <2>1, <2>2, <2>3, <2>4 DEF RelationshipTrue
<1>4. CASE id \notin DOMAIN relationships
  <2> DEFINE r == [sourceType |-> e.sourceType, targetType |-> e.targetType,
                   confidence |-> e.confidence, span |-> SpanAt(n)]
  <2>1. relationships'[id] = r
    BY <1>1, <1>4 DEF RelationshipRow
  <2>2. Positions(id) = {}
    BY <1>4 DEF RelationshipsTrue
  <2>3. /\ r.sourceType = e.sourceType /\ r.targetType = e.targetType
        /\ r.confidence = e.confidence /\ r.span = SpanAt(n)
    OBVIOUS
  <2>4. IsGraphRow(r)
    BY DEF IsGraphRow
  <2> HIDE DEF r
  <2>5. Spans(r.span, Positions(id) \cup {n})
    BY <2>2, <2>3, NewSpan
  <2>6. QED
    BY <1>3, <2>1, <2>2, <2>3, <2>4, <2>5 DEF FitEdge
<1>5. CASE id \in DOMAIN relationships
  <2> DEFINE r == [sourceType |-> row.sourceType, targetType |-> row.targetType,
                   confidence |-> Greatest(row.confidence, e.confidence),
                   span |-> Widened(row.span, n)]
  <2>1. relationships'[id] = [row EXCEPT
                                !.confidence = Greatest(@, e.confidence),
                                !.span = Widened(@, n)]
    BY <1>1, <1>5 DEF RelationshipRow
  <2>2. RelationshipTrue(id)
    BY <1>5 DEF RelationshipsTrue
  <2>3. IsGraphRow(row)
    BY <2>2 DEF RelationshipTrue
  <2>4. relationships'[id] = r
    BY <2>1, <2>3 DEF IsGraphRow
  <2>5. /\ r.sourceType = row.sourceType /\ r.targetType = row.targetType
        /\ r.confidence = Greatest(row.confidence, e.confidence)
        /\ r.span = Widened(row.span, n)
        /\ IsGraphRow(r)
    BY DEF IsGraphRow
  <2>6. row.sourceType = e.sourceType /\ row.targetType = e.targetType
    BY <1>5 DEF FitEdge, Collides
  <2> HIDE DEF r
  <2>7. r.confidence \in 0..100
    BY <2>2, <2>5 DEF RelationshipTrue, FitEdge, Greatest
  <2>8. Spans(r.span, Positions(id) \cup {n})
    BY <1>2, <2>2, <2>5, WiderSpan DEF RelationshipTrue
  <2>9. \A m \in Positions(id) \cup {n} :
           EndsAt(id, r.sourceType, r.targetType, m)
    BY <2>2, <2>5, <2>6 DEF RelationshipTrue, FitEdge
  <2>10. ValidEdge(id.type, r.sourceType, r.targetType)
    BY <2>5, <2>6 DEF FitEdge
  <2>11. QED
    BY <1>3, <2>4, <2>5, <2>7, <2>8, <2>9, <2>10
<1>6. QED
  BY <1>4, <1>5

LEMMA WrittenRows ==
    ASSUME Basics, RelationshipsTrue, NEW n \in DOMAIN log, NEW edges,
           Written(edges, n),
           \A e \in edges : FitEdge(e, n),
           \A e, f \in edges : f.id = e.id => f = e,
           \A id, m : At(id, m)' <=>
               At(id, m) \/ (m = n /\ \E e \in edges : e.id = id)
    PROVE  RelationshipsTrue'
<1>1. log' = log /\ DOMAIN relationships' = DOMAIN relationships \cup {e.id : e \in edges}
  BY DEF Written, RelationshipsAfter
<1>2. ASSUME NEW e \in edges
      PROVE  Positions(e.id)' = Positions(e.id) \cup {n}
  BY <1>1 DEF Positions
<1>3. ASSUME NEW id, id \notin {e.id : e \in edges}
      PROVE  Positions(id)' = Positions(id)
  BY <1>1, <1>3 DEF Positions
<1>4. ASSUME NEW id
      PROVE  id \in DOMAIN relationships' <=> Positions(id)' # {}
  <2>1. CASE id \in {e.id : e \in edges}
    BY <1>1, <1>2, <2>1
  <2>2. CASE id \notin {e.id : e \in edges}
    BY <1>1, <1>3, <2>2 DEF RelationshipsTrue
  <2>3. QED
    BY <2>1, <2>2
<1>5. ASSUME NEW id \in DOMAIN relationships' PROVE RelationshipTrue(id)'
  <2>1. CASE id \in {e.id : e \in edges}
    BY <1>2, <2>1, WrittenRow
  <2>2. CASE id \notin {e.id : e \in edges}
    <3>1. id \in DOMAIN relationships /\ relationships'[id] = relationships[id]
      BY <1>1, <2>2 DEF Written, RelationshipsAfter
    <3>2. RelationshipTrue(id) /\ Positions(id)' = Positions(id)
      BY <1>3, <2>2, <3>1 DEF RelationshipsTrue
    <3>3. Spans(relationships[id].span, Positions(id))'
      BY <1>1, <3>1, <3>2 DEF RelationshipTrue, Spans
    <3>4. QED
      BY <1>1, <3>1, <3>2, <3>3 DEF RelationshipTrue, EndsAt
  <2>3. QED
    BY <2>1, <2>2
<1>6. QED
  BY <1>4, <1>5 DEF RelationshipsTrue

\* The evidence of an item of either writer.
LEMMA WrittenEvidence ==
    ASSUME Basics, RelationshipEvidenceTrue, NEW n \in DOMAIN log, NEW keys,
           relationshipEvidence' = Upserted(relationshipEvidence, keys, n),
           log' = log, DOMAIN relationships \subseteq DOMAIN relationships',
           \A k \in keys :
              /\ k = << k[1], k[2] >>
              /\ k[1] \in DOMAIN relationships'
              /\ \E m \in DOMAIN log : k[2] \in log[m].evidence
    PROVE  RelationshipEvidenceTrue'
<1>1. DOMAIN relationshipEvidence' = DOMAIN relationshipEvidence \cup keys
  BY UpsertedKeys
<1>2. ASSUME NEW k \in DOMAIN relationshipEvidence'
      PROVE  \E S \in SUBSET DOMAIN log : Spans(relationshipEvidence'[k], S)
  <2>1. \E S \in SUBSET DOMAIN log :
           /\ k \in DOMAIN relationshipEvidence => Spans(relationshipEvidence[k], S)
           /\ k \notin DOMAIN relationshipEvidence => S = {}
    BY DEF RelationshipEvidenceTrue
  <2>2. PICK S \in SUBSET DOMAIN log :
           /\ k \in DOMAIN relationshipEvidence => Spans(relationshipEvidence[k], S)
           /\ k \notin DOMAIN relationshipEvidence => S = {}
    BY <2>1
  <2>3. k \in DOMAIN relationshipEvidence \cup keys
    BY <1>1
  <2>4. /\ k \in keys => Spans(relationshipEvidence'[k], S \cup {n})
        /\ k \notin keys => Spans(relationshipEvidence'[k], S)
    BY <2>2, <2>3, UpsertedSpan
  <2>5. S \cup {n} \in SUBSET DOMAIN log
    OBVIOUS
  <2>6. QED
    BY <2>4, <2>5
<1>3. ASSUME NEW k \in DOMAIN relationshipEvidence', NEW S \in SUBSET DOMAIN log,
             Spans(relationshipEvidence'[k], S)
      PROVE  Spans(relationshipEvidence[k], S)'
  BY <1>3 DEF Spans
<1>4. \A k \in DOMAIN relationshipEvidence' :
         \E S \in SUBSET DOMAIN log' : Spans(relationshipEvidence[k], S)'
  BY <1>2, <1>3
<1>5. QED
  BY <1>1, <1>4 DEF RelationshipEvidenceTrue

-----------------------------------------------------------------------------
(* Derivations.                                                            *)

DerivationsBefore(n) == {d \in derivations : d.sequence < n}

DerivationsWithin ==
    \A d \in derivations : d.sequence \in 1..checkpoint["correlation"]

\* Position by position, the derivations are those that the observations
\* before lead to.
DerivationsExact ==
    \A n \in 1..checkpoint["correlation"] :
        {d \in derivations : d.sequence = n} = DerivedAt(DerivationsBefore(n), n)

Graph ==
    /\ LineageExact
    /\ RelationshipsTrue
    /\ RelationshipEvidenceTrue
    /\ DerivationsWithin
    /\ DerivationsExact

Ground == Basics /\ CheckpointsOrdered

\* What is derived of an observation depends on nothing after it.
LEMMA DerivedAtKept ==
    ASSUME NEW n \in Nat, \A m \in 1..n : log'[m] = log[m], n # 0, NEW before
    PROVE  DerivedAt(before, n)' = DerivedAt(before, n)
<1>1. log'[n] = log[n] /\ \A m \in 1..(n - 1) : log'[m] = log[m]
  OBVIOUS
<1>2. Known(before, n)' = Known(before, n)
  BY <1>1 DEF Known
<1>3. ASSUME NEW id
      PROVE  /\ KnownAt(before, id, n)' = KnownAt(before, id, n)
             /\ \A m \in KnownAt(before, id, n) : log'[m] = log[m]
  BY <1>1 DEF KnownAt
<1>4. ASSUME NEW rule
      PROVE  SupportsAt(before, rule, n)' = SupportsAt(before, rule, n)
  BY <1>1, <1>2 DEF SupportsAt
<1>5. ASSUME NEW rule
      PROVE  DerivedBy(before, rule, n)' = DerivedBy(before, rule, n)
  <2>1. ASSUME NEW S PROVE EvidenceOf(before, S, n)' = EvidenceOf(before, S, n)
    <3> DEFINE positions == UNION {KnownAt(before, id, n) : id \in S}
    <3>1. positions' = positions /\ \A m \in positions : log'[m] = log[m]
      BY <1>3
    <3>2. EvidenceOf(before, S, n) = UNION {log[m].evidence : m \in positions}
      BY DEF EvidenceOf
    <3>3. EvidenceOf(before, S, n)' = UNION {log'[m].evidence : m \in positions}
      BY <3>1 DEF EvidenceOf
    <3> HIDE DEF positions
    <3>4. QED
      BY <3>1, <3>2, <3>3
  <2>2. QED
    BY <1>1, <1>4, <2>1 DEF DerivedBy
<1>6. QED
  BY <1>1, <1>4, <1>5 DEF DerivedAt

LEMMA Counts ==
    ASSUME Ground
    PROVE  /\ Len(log) \in Nat /\ DOMAIN log = 1..Len(log)
           /\ \A p \in Projector : checkpoint[p] \in Nat /\ checkpoint[p] <= Len(log)
           /\ checkpoint["correlation"] <= checkpoint["relationship"]
           /\ checkpoint["scene"] <= checkpoint["correlation"]
           /\ checkpoint["scene"] <= checkpoint["entity"]
           /\ {"entity", "relationship", "correlation", "scene"} = Projector
BY DEF Ground, Basics, CheckpointsOrdered, Projector

LEMMA AtWithin ==
    ASSUME Ground, DerivationsWithin, NEW id, NEW m, At(id, m)
    PROVE  /\ m \in Nat /\ m \in DOMAIN log /\ m \in 1..checkpoint["relationship"]
           /\ m \in Positions(id)
<1>1. CASE \E d \in derivations : d.sequence = m
  BY <1>1, Counts DEF DerivationsWithin, Positions
<1>2. CASE m \in 1..checkpoint["relationship"]
  BY <1>2, Counts DEF Positions
<1>3. QED
  BY <1>1, <1>2 DEF At

\* Up to a position that correlation has passed, what is known is what the
\* lineage says.
LEMMA KnownIs ==
    ASSUME Ground, DerivationsWithin, NEW n \in Nat,
           n <= checkpoint["correlation"] + 1, NEW id
    PROVE  /\ id \in Known(DerivationsBefore(n), n) <=>
                 \E m \in 1..(n - 1) : At(id, m)
           /\ KnownAt(DerivationsBefore(n), id, n) = {m \in 1..(n - 1) : At(id, m)}
           /\ KnownAt(derivations, id, n) = {m \in 1..(n - 1) : At(id, m)}
<1>1. \A m \in 1..(n - 1) : m \in 1..checkpoint["relationship"] /\ m \in Nat /\ m < n
  BY Counts
<1>2. \A d \in derivations : d.sequence \in Nat /\ d.sequence >= 1
  BY Counts DEF DerivationsWithin
<1>3. \A d \in derivations : d.sequence < n => d.sequence \in 1..(n - 1)
  BY <1>2
<1>4. \A m \in 1..(n - 1) : At(id, m) <=>
          \/ \E e \in Direct(log[m]) : e.id = id
          \/ \E d \in derivations : d.relationship = id /\ d.sequence = m
  BY <1>1 DEF At
<1>5. id \in Known(DerivationsBefore(n), n) <=>
         \/ \E m \in 1..(n - 1) : \E e \in Direct(log[m]) : e.id = id
         \/ \E d \in DerivationsBefore(n) : d.relationship = id /\ d.sequence < n
  <2> DEFINE direct == UNION {{e.id : e \in Direct(log[m])} : m \in 1..(n - 1)}
             derived == {d.relationship :
                           d \in {x \in DerivationsBefore(n) : x.sequence < n}}
  <2>1. id \in direct <=> \E m \in 1..(n - 1) : \E e \in Direct(log[m]) : e.id = id
    OBVIOUS
  <2>2. id \in derived <=> \E d \in DerivationsBefore(n) :
                               d.relationship = id /\ d.sequence < n
    OBVIOUS
  <2>3. Known(DerivationsBefore(n), n) = direct \cup derived
    BY DEF Known
  <2> HIDE DEF direct, derived
  <2>4. QED
    BY <2>1, <2>2, <2>3
<1>6. \A d \in derivations : d.sequence < n <=> d \in DerivationsBefore(n)
  BY DEF DerivationsBefore
<1>7. id \in Known(DerivationsBefore(n), n) <=> \E m \in 1..(n - 1) : At(id, m)
  BY <1>1, <1>3, <1>4, <1>5, <1>6 DEF DerivationsBefore
<1>8. KnownAt(DerivationsBefore(n), id, n) = {m \in 1..(n - 1) : At(id, m)}
  BY <1>1, <1>4, <1>6 DEF KnownAt, DerivationsBefore
<1>9. KnownAt(derivations, id, n) = {m \in 1..(n - 1) : At(id, m)}
  BY <1>1, <1>4 DEF KnownAt
<1>10. QED
  BY <1>7, <1>8, <1>9

-----------------------------------------------------------------------------
(* Steps that write nothing to the graph.                                  *)

LEMMA GraphKept ==
    ASSUME Ground, Graph, UNCHANGED << graphTables, derivations >>,
           checkpoint'["relationship"] = checkpoint["relationship"],
           checkpoint'["correlation"] = checkpoint["correlation"],
           \A m \in DOMAIN log : log'[m] = log[m],
           DOMAIN log \subseteq DOMAIN log', Ground'
    PROVE  Graph'
<1>0. UNCHANGED << relationships, lineage, relationshipEvidence, derivations >>
  BY DEF graphTables
<1>1. ASSUME NEW id, NEW m PROVE At(id, m)' <=> At(id, m)
  <2>1. \A k \in 1..checkpoint["relationship"] : log'[k] = log[k]
    BY Counts
  <2>2. QED
    BY <1>0, <2>1 DEF At
<1>2. ASSUME NEW id PROVE Positions(id)' = Positions(id)
  BY <1>1, AtWithin DEF Positions, Graph
<1>3. ASSUME NEW span, NEW S \in SUBSET DOMAIN log, Spans(span, S)
      PROVE  Spans(span, S)'
  BY <1>3 DEF Spans
<1>4. LineageExact'
  BY <1>0, <1>1 DEF Graph, LineageExact
<1>5. ASSUME NEW id \in DOMAIN relationships PROVE RelationshipTrue(id)'
  <2>1. RelationshipTrue(id) /\ Positions(id) \in SUBSET DOMAIN log
    BY DEF Graph, RelationshipsTrue, Positions
  <2>2. Spans(relationships[id].span, Positions(id))'
    BY <1>0, <1>2, <1>3, <2>1 DEF RelationshipTrue
  <2>3. \A m \in Positions(id) : log'[m] = log[m]
    BY <2>1
  <2>4. QED
    BY <1>0, <1>2, <2>1, <2>2, <2>3 DEF RelationshipTrue, EndsAt
<1>6. RelationshipsTrue'
  BY <1>0, <1>2, <1>5 DEF Graph, RelationshipsTrue
<1>7. RelationshipEvidenceTrue'
  <2>1. ASSUME NEW k \in DOMAIN relationshipEvidence
        PROVE  /\ \E m \in DOMAIN log' : k[2] \in log'[m].evidence
               /\ \E S \in SUBSET DOMAIN log' : Spans(relationshipEvidence[k], S)'
    <3>1. PICK S \in SUBSET DOMAIN log : Spans(relationshipEvidence[k], S)
      BY DEF Graph, RelationshipEvidenceTrue
    <3>2. Spans(relationshipEvidence[k], S)'
      BY <1>0, <1>3, <3>1
    <3>3. PICK m \in DOMAIN log : k[2] \in log[m].evidence
      BY DEF Graph, RelationshipEvidenceTrue
    <3>4. QED
      BY <3>1, <3>2, <3>3
  <2>2. QED
    BY <1>0, <2>1 DEF Graph, RelationshipEvidenceTrue
<1>8. DerivationsWithin'
  BY <1>0 DEF Graph, DerivationsWithin
<1>9. ASSUME NEW n \in 1..checkpoint["correlation"]
      PROVE  {d \in derivations' : d.sequence = n}
                = DerivedAt(DerivationsBefore(n), n)'
  <2>1. n \in Nat /\ n # 0 /\ \A m \in 1..n : log'[m] = log[m]
    BY Counts
  <2>2. DerivationsBefore(n)' = DerivationsBefore(n)
    BY <1>0 DEF DerivationsBefore
  <2>3. ASSUME NEW before PROVE DerivedAt(before, n)' = DerivedAt(before, n)
    BY <2>1, DerivedAtKept
  <2>4. {d \in derivations : d.sequence = n} = DerivedAt(DerivationsBefore(n), n)
    BY DEF Graph, DerivationsExact
  <2>5. QED
    BY <1>0, <2>2, <2>3, <2>4
<1>10. DerivationsExact'
  BY <1>9 DEF DerivationsExact
<1>11. QED
  BY <1>4, <1>6, <1>7, <1>8, <1>10 DEF Graph

-----------------------------------------------------------------------------
(* The step of the relationship projector.                                 *)

\* The edge an observation states.
LEMMA DirectEdge ==
    ASSUME NEW o \in Payload, NEW e \in Direct(o)
    PROVE  /\ \A f \in Direct(o) : f = e
           /\ \E t \in o.object : t.id = e.id.target /\ t.type = e.targetType
           /\ e.id.type \in o.relationship /\ e.id.type \in RelationshipType
           /\ e.id.source = o.subject.id /\ e.sourceType = o.subject.type
           /\ e.id.provenance = "observed" /\ e.id.rule = "none"
           /\ e.confidence = o.confidence /\ e.confidence \in 0..100
<1>1. PICK type \in o.relationship, t \in o.object :
        e = Edge(RelationshipId(o.subject.id, type, t.id, "observed", "none"),
                 o.subject.type, t.type, o.confidence)
  BY DEF Direct
<1>2. /\ e.id = RelationshipId(o.subject.id, type, t.id, "observed", "none")
      /\ e.sourceType = o.subject.type /\ e.targetType = t.type
      /\ e.confidence = o.confidence
  BY <1>1 DEF Edge
<1>3. /\ e.id.source = o.subject.id /\ e.id.type = type /\ e.id.target = t.id
      /\ e.id.provenance = "observed" /\ e.id.rule = "none"
  BY <1>2 DEF RelationshipId
<1>4. \A s \in o.object : s = t
  BY Schema
<1>5. \A r \in o.relationship : r = type
  BY Schema
<1>6. \A f \in Direct(o) : f = e
  BY <1>1, <1>4, <1>5 DEF Direct
<1>7. type \in RelationshipType /\ o.confidence \in 0..100
  BY Schema
<1>8. QED
  BY <1>2, <1>3, <1>6, <1>7

LEMMA RelationshipGraphStep ==
    ASSUME Ground, Graph, ProjectRelationship, UNCHANGED derivations, Ground'
    PROVE  Graph'
<1> DEFINE n == NextItem("relationship")
           edges == Direct(log[n])
<1>1. /\ Ready("relationship") /\ Processed("relationship")
      /\ ~RelationshipPoison /\ \A e \in edges : ~Collides(e)
      /\ relationships' = RelationshipsAfter(edges, n)
      /\ lineage' = LineageAfter(edges, n)
      /\ relationshipEvidence' =
            Upserted(relationshipEvidence, {e.id : e \in edges} \X log[n].evidence, n)
  BY DEF ProjectRelationship
<1>2. /\ n = checkpoint["relationship"] + 1 /\ n \in DOMAIN log /\ n \in Nat
      /\ log[n] \in Payload
      /\ checkpoint'["relationship"] = n /\ log' = log
      /\ checkpoint'["correlation"] = checkpoint["correlation"]
  <2>1. n = checkpoint["relationship"] + 1
    BY DEF NextItem
  <2>2. n \in DOMAIN log /\ n \in Nat
    BY <1>1, <2>1, Counts DEF Ready
  <2>3. log[n] \in Payload
    BY <2>2, Times DEF Ground
  <2>4. /\ checkpoint'["relationship"] = n /\ log' = log
        /\ checkpoint'["correlation"] = checkpoint["correlation"]
    BY <1>1, <2>1 DEF Processed, Ground, Basics, Projector
  <2>5. QED
    BY <2>1, <2>2, <2>3, <2>4
<1>3. \A type \in log[n].relationship, t \in log[n].object :
         ValidEdge(type, log[n].subject.type, t.type)
  BY <1>1 DEF RelationshipPoison
<1> HIDE DEF n
<1>4. Written(edges, n)
  BY <1>1, <1>2 DEF Written
<1>5. ASSUME NEW e \in edges PROVE FitEdge(e, n)
  <2>1. /\ \E t \in log[n].object : t.id = e.id.target /\ t.type = e.targetType
        /\ e.id.type \in log[n].relationship /\ e.id.type \in RelationshipType
        /\ e.id.source = log[n].subject.id /\ e.sourceType = log[n].subject.type
        /\ e.id.provenance = "observed" /\ e.id.rule = "none"
        /\ e.confidence \in 0..100
    BY <1>2, DirectEdge
  <2>2. ValidEdge(e.id.type, e.sourceType, e.targetType)
    BY <1>3, <2>1
  <2>3. ~Collides(e)
    BY <1>1
  <2>4. QED
    BY <2>1, <2>2, <2>3 DEF FitEdge, Provenance, EndsAt
<1>6. \A e, f \in edges : f.id = e.id => f = e
  BY <1>2, DirectEdge
<1>7. ASSUME NEW id, NEW m
      PROVE  At(id, m)' <=> At(id, m) \/ (m = n /\ \E e \in edges : e.id = id)
  <2>1. 1..n = 1..checkpoint["relationship"] \cup {n}
    BY <1>2, Counts
  <2>2. QED
    BY <1>2, <2>1 DEF At
<1>8. LineageExact'
  BY <1>4, <1>7, WrittenLineage DEF Graph
<1>9. RelationshipsTrue'
  BY <1>2, <1>4, <1>5, <1>6, <1>7, WrittenRows DEF Graph, Ground
<1>10. RelationshipEvidenceTrue'
  <2>1. DOMAIN relationships' = DOMAIN relationships \cup {e.id : e \in edges}
    BY <1>1 DEF RelationshipsAfter
  <2>2. \A k \in {e.id : e \in edges} \X log[n].evidence :
           /\ k = << k[1], k[2] >>
           /\ k[1] \in DOMAIN relationships'
           /\ \E m \in DOMAIN log : k[2] \in log[m].evidence
    BY <1>2, <2>1
  <2>3. QED
    BY <1>1, <1>2, <2>1, <2>2, WrittenEvidence DEF Graph, Ground
<1>11. DerivationsWithin'
  BY <1>2 DEF Graph, DerivationsWithin
<1>12. DerivationsExact'
  <2>1. ASSUME NEW k \in 1..checkpoint["correlation"]
        PROVE  {d \in derivations' : d.sequence = k}
                  = DerivedAt(DerivationsBefore(k), k)'
    <3>1. k \in Nat /\ k # 0 /\ \A m \in 1..k : log'[m] = log[m]
      BY <1>2, Counts
    <3>2. DerivationsBefore(k)' = DerivationsBefore(k)
      BY DEF DerivationsBefore
    <3>3. ASSUME NEW before PROVE DerivedAt(before, k)' = DerivedAt(before, k)
      BY <3>1, DerivedAtKept
    <3>4. QED
      BY <3>2, <3>3 DEF Graph, DerivationsExact
  <2>2. QED
    BY <1>2, <2>1 DEF DerivationsExact
<1>13. QED
  BY <1>8, <1>9, <1>10, <1>11, <1>12 DEF Graph

-----------------------------------------------------------------------------
(* What derivations are made of.                                           *)

SupportType ==
    [COR_SEQ_001 |-> "has_vulnerability", COR_SEQ_002 |-> "exploited",
     COR_SEQ_003 |-> "compromised"]

LEMMA RuleNames ==
    ASSUME NEW rule \in Ruleset
    PROVE  /\ rule \in {"COR_SEQ_001", "COR_SEQ_002", "COR_SEQ_003"}
           /\ Rules["COR_SEQ_001"].type = "exploited"
           /\ Rules["COR_SEQ_002"].type = "compromised"
           /\ Rules["COR_SEQ_003"].type = "moved_laterally_to"
           /\ Rules[rule].type \in RelationshipType
           /\ Rules[rule].confidence \in 0..100
           /\ Rules[rule].type # "has_vulnerability"
BY RulesetAssumption DEF Rules, RelationshipType, SourceTypes

LEMMA Only ==
    ASSUME NEW S, NEW x \in S, \A y \in S : y = x
    PROVE  (CHOOSE y \in S : TRUE) = x
OBVIOUS

LEMMA DerivedFields ==
    ASSUME NEW n, log[n] \in Payload, NEW before, NEW rule \in Ruleset,
           SupportsAt(before, rule, n) # {},
           NEW d, d = DerivedBy(before, rule, n)
    PROVE  /\ d.relationship.rule = rule
           /\ d.relationship.type = Rules[rule].type
           /\ d.relationship.provenance = "deterministic"
           /\ d.sequence = n
           /\ d.supports = SupportsAt(before, rule, n)
           /\ d.triggerEvidence = log[n].evidence
           /\ d.supportEvidence = EvidenceOf(before, d.supports, n)
           /\ \E t \in log[n].object : t.id = d.relationship.target
           /\ rule # "COR_SEQ_002" => d.relationship.source = log[n].subject.id
           /\ rule = "COR_SEQ_002" =>
                 d.relationship.source \in log[n].attack_source
           /\ \A id \in d.supports :
                 /\ id \in Known(before, n)
                 /\ id.type = SupportType[rule]
                 /\ Supports(rule, log[n], id)
<1> DEFINE o == log[n]
           source == IF rule = "COR_SEQ_002"
                     THEN CHOOSE s \in o.attack_source : TRUE
                     ELSE o.subject.id
           target == CHOOSE t \in o.object : TRUE
<1>1. d = [relationship |-> RelationshipId(source, Rules[rule].type, target.id,
                                           "deterministic", rule),
           sequence |-> n,
           supports |-> SupportsAt(before, rule, n),
           triggerEvidence |-> o.evidence,
           supportEvidence |-> EvidenceOf(before, SupportsAt(before, rule, n), n)]
  BY DEF DerivedBy
<1>2. PICK id \in SupportsAt(before, rule, n) : Supports(rule, o, id)
  BY DEF SupportsAt
<1>3. o.object # {} /\ (rule = "COR_SEQ_002" => o.attack_source # {})
  BY <1>2, RuleNames DEF Supports
<1>4. target \in o.object
  BY <1>3
<1>5. rule = "COR_SEQ_002" => source \in o.attack_source
  BY <1>3
<1>6. rule # "COR_SEQ_002" => source = o.subject.id
  OBVIOUS
<1> HIDE DEF source, target
<1>7. /\ d.relationship = RelationshipId(source, Rules[rule].type, target.id,
                                         "deterministic", rule)
      /\ d.sequence = n
      /\ d.supports = SupportsAt(before, rule, n)
      /\ d.triggerEvidence = o.evidence
      /\ d.supportEvidence = EvidenceOf(before, d.supports, n)
  BY <1>1
<1>8. /\ d.relationship.rule = rule
      /\ d.relationship.type = Rules[rule].type
      /\ d.relationship.provenance = "deterministic"
      /\ d.relationship.source = source
      /\ d.relationship.target = target.id
  BY <1>7 DEF RelationshipId
<1>9. ASSUME NEW s \in d.supports
      PROVE  /\ s \in Known(before, n) /\ Supports(rule, o, s)
             /\ s.type = SupportType[rule]
  <2>1. s \in Known(before, n) /\ Supports(rule, o, s)
    BY <1>7 DEF SupportsAt
  <2>2. CASE rule = "COR_SEQ_001"
    BY <2>1, <2>2 DEF Supports, SupportType
  <2>3. CASE rule = "COR_SEQ_002"
    BY <2>1, <2>3 DEF Supports, SupportType
  <2>4. CASE rule = "COR_SEQ_003"
    BY <2>1, <2>4 DEF Supports, SupportType
  <2>5. QED
    BY <2>1, <2>2, <2>3, <2>4, RuleNames
<1>10. QED
  BY <1>4, <1>5, <1>6, <1>7, <1>8, <1>9

\* Every derivation is one that its position and its rule lead to.
LEMMA Layers ==
    ASSUME Ground, DerivationsWithin, DerivationsExact, NEW d \in derivations
    PROVE  LET n == d.sequence
               rule == d.relationship.rule
               before == DerivationsBefore(n)
           IN  /\ n \in 1..checkpoint["correlation"] /\ n \in DOMAIN log
               /\ rule \in Ruleset
               /\ d = DerivedBy(before, rule, n)
               /\ Admits(rule, log[n])
               /\ SupportsAt(before, rule, n) # {}
               /\ d.relationship.type = Rules[rule].type
               /\ d.relationship.provenance = "deterministic"
               /\ d.supports = SupportsAt(before, rule, n)
               /\ d.triggerEvidence = log[n].evidence
               /\ d.supportEvidence = EvidenceOf(before, d.supports, n)
               /\ \E t \in log[n].object : t.id = d.relationship.target
               /\ rule # "COR_SEQ_002" =>
                     d.relationship.source = log[n].subject.id
               /\ \A id \in d.supports :
                     /\ id.type = SupportType[rule]
                     /\ Supports(rule, log[n], id)
                     /\ \E m \in 1..(n - 1) : At(id, m)
               /\ At(d.relationship, n)
<1> DEFINE n == d.sequence
           before == DerivationsBefore(n)
<1>1. /\ n \in 1..checkpoint["correlation"] /\ n \in DOMAIN log /\ n \in Nat
      /\ log[n] \in Payload
  <2>1. n \in 1..checkpoint["correlation"]
    BY DEF DerivationsWithin
  <2>2. n \in DOMAIN log /\ n \in Nat
    BY <2>1, Counts
  <2>3. QED
    BY <2>1, <2>2, Times DEF Ground
<1>2. d \in DerivedAt(before, n)
  BY <1>1 DEF DerivationsExact
<1>3. PICK rule \in Ruleset :
          /\ SupportsAt(before, rule, n) # {}
          /\ Admits(rule, log[n])
          /\ d = DerivedBy(before, rule, n)
  BY <1>2 DEF DerivedAt
<1> HIDE DEF n, before
<1>4. /\ d.relationship.rule = rule
      /\ d.relationship.type = Rules[rule].type
      /\ d.relationship.provenance = "deterministic"
      /\ d.supports = SupportsAt(before, rule, n)
      /\ d.triggerEvidence = log[n].evidence
      /\ d.supportEvidence = EvidenceOf(before, d.supports, n)
      /\ \E t \in log[n].object : t.id = d.relationship.target
      /\ rule # "COR_SEQ_002" => d.relationship.source = log[n].subject.id
      /\ \A id \in d.supports :
            /\ id \in Known(before, n)
            /\ id.type = SupportType[rule]
            /\ Supports(rule, log[n], id)
  BY <1>1, <1>3, DerivedFields
<1>5. \A id \in d.supports : \E m \in 1..(n - 1) : At(id, m)
  <2>1. n <= checkpoint["correlation"] + 1
    BY <1>1, Counts
  <2>2. QED
    BY <1>1, <1>4, <2>1, KnownIs DEF before
<1>6. At(d.relationship, n)
  BY DEF At, n
<1>7. QED
  BY <1>1, <1>3, <1>4, <1>5, <1>6 DEF n, before

\* Only observations make a vulnerability known.
LEMMA AtKind ==
    ASSUME Ground, DerivationsWithin, DerivationsExact, NEW id, NEW m, At(id, m)
    PROVE  /\ id.provenance = "observed" \/ id.provenance = "deterministic"
           /\ id.provenance = "deterministic" =>
                 \E d \in derivations : d.relationship = id /\ d.sequence = m
           /\ id.type = "has_vulnerability" => id.provenance = "observed"
<1>1. CASE \E d \in derivations : d.relationship = id /\ d.sequence = m
  <2>1. PICK d \in derivations : d.relationship = id /\ d.sequence = m
    BY <1>1
  <2>2. /\ id.provenance = "deterministic" /\ id.rule \in Ruleset
        /\ id.type = Rules[id.rule].type
    BY <2>1, Layers
  <2>3. id.type # "has_vulnerability"
    BY <2>2, RuleNames
  <2>4. QED
    BY <2>1, <2>2, <2>3
<1>2. CASE m \in 1..checkpoint["relationship"] /\ \E e \in Direct(log[m]) : e.id = id
  <2>1. m \in DOMAIN log
    BY <1>2, Counts
  <2>2. log[m] \in Payload
    BY <2>1, Times DEF Ground
  <2>3. id.provenance = "observed"
    BY <1>2, <2>2, DirectEdge
  <2>4. QED
    BY <2>3
<1>3. QED
  BY <1>1, <1>2 DEF At

-----------------------------------------------------------------------------
(* The step of the correlation projector: what its reader finds is what is *)
(* known, and its candidates are the derivations there must be.            *)

LEMMA DerivationsBeforeNext ==
    ASSUME Ground, DerivationsWithin, NEW n, n = checkpoint["correlation"] + 1
    PROVE  DerivationsBefore(n) = derivations
<1>1. checkpoint["correlation"] \in Nat
  BY Counts
<1>2. \A d \in derivations : d.sequence < n
  BY <1>1 DEF DerivationsWithin
<1>3. QED
  BY <1>2 DEF DerivationsBefore

\* CorrelationGraphReader's bound on lineage.
LEMMA PriorIsKnown ==
    ASSUME Ground, Graph, NEW n, n = checkpoint["correlation"] + 1, NEW id
    PROVE  id \in DOMAIN relationships /\ KnownBefore(id, n)
              <=> id \in Known(derivations, n)
<1>1. n \in Nat /\ n <= checkpoint["correlation"] + 1
  BY Counts
<1>2. id \in Known(derivations, n) <=> \E m \in 1..(n - 1) : At(id, m)
  BY <1>1, KnownIs, DerivationsBeforeNext DEF Graph
<1>3. ASSUME NEW m \in 1..(n - 1), At(id, m)
      PROVE  id \in DOMAIN relationships /\ KnownBefore(id, n)
  <2>1. m \in Positions(id)
    BY <1>3, AtWithin DEF Graph
  <2>2. id \in DOMAIN relationships
    BY <2>1 DEF Graph, RelationshipsTrue
  <2>3. [relationship |-> id, sequence |-> m] \in lineage
    BY <1>3 DEF Graph, LineageExact
  <2>4. m < n
    BY <1>1
  <2>5. QED
    BY <2>2, <2>3, <2>4 DEF KnownBefore
<1>4. ASSUME KnownBefore(id, n) PROVE \E m \in 1..(n - 1) : At(id, m)
  <2>1. PICK row \in lineage : row.relationship = id /\ row.sequence < n
    BY <1>4 DEF KnownBefore
  <2>2. At(id, row.sequence)
    BY <2>1 DEF Graph, LineageExact
  <2>3. row.sequence \in 1..checkpoint["relationship"]
    BY <2>2, AtWithin DEF Graph
  <2>4. row.sequence \in 1..(n - 1)
    BY <1>1, <2>1, <2>3, Counts
  <2>5. QED
    BY <2>2, <2>4
<1>5. QED
  BY <1>2, <1>3, <1>4

LEMMA PriorEvidenceIs ==
    ASSUME Ground, Graph, NEW n, n = checkpoint["correlation"] + 1, NEW S
    PROVE  PriorEvidence(S, n) = EvidenceOf(derivations, S, n)
<1>1. n \in Nat /\ n <= checkpoint["correlation"] + 1
  BY Counts
<1>2. ASSUME NEW id
      PROVE  KnownAt(derivations, id, n) = {m \in 1..(n - 1) : At(id, m)}
  BY <1>1, KnownIs DEF Graph
<1>3. ASSUME NEW e \in PriorEvidence(S, n) PROVE e \in EvidenceOf(derivations, S, n)
  <2>1. PICK row \in lineage : /\ row.relationship \in S /\ row.sequence < n
                               /\ e \in log[row.sequence].evidence
    BY DEF PriorEvidence
  <2>2. At(row.relationship, row.sequence)
    BY DEF Graph, LineageExact
  <2>3. row.sequence \in 1..(n - 1)
    <3>1. row.sequence \in 1..checkpoint["relationship"]
      BY <2>2, AtWithin DEF Graph
    <3>2. QED
      BY <1>1, <2>1, <3>1, Counts
  <2>4. row.sequence \in KnownAt(derivations, row.relationship, n)
    BY <1>2, <2>2, <2>3
  <2>5. QED
    BY <2>1, <2>4 DEF EvidenceOf
<1>4. ASSUME NEW e \in EvidenceOf(derivations, S, n) PROVE e \in PriorEvidence(S, n)
  <2>0. PICK id \in S : \E m \in KnownAt(derivations, id, n) : e \in log[m].evidence
    BY DEF EvidenceOf
  <2>1. PICK m \in KnownAt(derivations, id, n) : e \in log[m].evidence
    BY <2>0
  <2>2. m \in 1..(n - 1) /\ At(id, m) /\ m < n
    BY <1>1, <1>2, <2>1
  <2> DEFINE row == [relationship |-> id, sequence |-> m]
  <2>3. row \in lineage
    BY <2>2 DEF Graph, LineageExact
  <2>4. row.relationship = id /\ row.sequence = m
    OBVIOUS
  <2> HIDE DEF row
  <2>5. row \in {r \in lineage : r.relationship \in S /\ r.sequence < n}
    BY <2>2, <2>3, <2>4
  <2>6. QED
    BY <2>1, <2>4, <2>5 DEF PriorEvidence
<1>5. QED
  BY <1>3, <1>4

\* The three reads.
LEMMA PriorReads ==
    ASSUME Ground, Graph, NEW n, n = checkpoint["correlation"] + 1
    PROVE  /\ \A entity : PriorVulnerabilities(entity, n) =
                 {id \in Known(derivations, n) :
                    id.type = "has_vulnerability" /\ id.source = entity}
           /\ \A source, target : PriorExploits(source, target, n) =
                 {id \in Known(derivations, n) :
                    /\ id.type = "exploited"
                    /\ id.source = source /\ id.target = target}
           /\ \A entity : PriorCompromises(entity, n) =
                 {id \in Known(derivations, n) :
                    id.type = "compromised" /\ id.target = entity}
<1>1. ASSUME NEW id
      PROVE  /\ id \in DOMAIN relationships /\ KnownBefore(id, n)
                   <=> id \in Known(derivations, n)
             /\ id \in DOMAIN relationships =>
                   /\ id.provenance \in {"observed", "deterministic"}
                   /\ id.type = "has_vulnerability" => id.provenance = "observed"
  <2>1. ASSUME id \in DOMAIN relationships
        PROVE  /\ id.provenance \in {"observed", "deterministic"}
               /\ id.type = "has_vulnerability" => id.provenance = "observed"
    <3>1. PICK m \in Positions(id) : TRUE
      BY <2>1 DEF Graph, RelationshipsTrue
    <3>2. At(id, m)
      BY <3>1 DEF Positions
    <3>3. QED
      BY <3>2, AtKind DEF Graph
  <2>2. QED
    BY <2>1, PriorIsKnown
<1>2. ASSUME NEW entity
      PROVE  PriorVulnerabilities(entity, n) =
                {id \in Known(derivations, n) :
                   id.type = "has_vulnerability" /\ id.source = entity}
  BY <1>1 DEF PriorVulnerabilities
<1>3. ASSUME NEW source, NEW target
      PROVE  PriorExploits(source, target, n) =
                {id \in Known(derivations, n) :
                   /\ id.type = "exploited"
                   /\ id.source = source /\ id.target = target}
  BY <1>1 DEF PriorExploits
<1>4. ASSUME NEW entity
      PROVE  PriorCompromises(entity, n) =
                {id \in Known(derivations, n) :
                   id.type = "compromised" /\ id.target = entity}
  BY <1>1 DEF PriorCompromises
<1>5. QED
  BY <1>2, <1>3, <1>4

-----------------------------------------------------------------------------
(* The candidates of each rule.                                            *)

\* c is what rule derives of observation n, and may be recorded there.
CandidateBy(c, rule, n) ==
    /\ SupportsAt(derivations, rule, n) # {}
    /\ Admits(rule, log[n])
    /\ c.supports = SupportsAt(derivations, rule, n)
    /\ c.edge.id = DerivedBy(derivations, rule, n).relationship
    /\ c.edge.confidence = Rules[rule].confidence
    /\ ValidEdge(Rules[rule].type, c.edge.sourceType, c.edge.targetType)
    /\ \E t \in log[n].object : c.edge.targetType = t.type
    /\ rule # "COR_SEQ_002" => c.edge.sourceType = log[n].subject.type

LEMMA CandidateFields ==
    ASSUME NEW rule, NEW source, NEW sourceType, NEW target, NEW supports,
           NEW c, c = Candidate(rule, source, sourceType, target, supports)
    PROVE  /\ c.supports = supports
           /\ c.edge.id = RelationshipId(source, Rules[rule].type, target.id,
                                         "deterministic", rule)
           /\ c.edge.confidence = Rules[rule].confidence
           /\ c.edge.sourceType = sourceType
           /\ c.edge.targetType = target.type
BY DEF Candidate, Edge

LEMMA DerivedRelationship ==
    ASSUME NEW n, NEW rule, NEW t \in log[n].object,
           \A s \in log[n].object : s = t
    PROVE  /\ rule # "COR_SEQ_002" =>
                 DerivedBy(derivations, rule, n).relationship =
                    RelationshipId(log[n].subject.id, Rules[rule].type, t.id,
                                   "deterministic", rule)
           /\ \A s \in log[n].attack_source :
                 rule = "COR_SEQ_002" /\ (\A r \in log[n].attack_source : r = s) =>
                    DerivedBy(derivations, rule, n).relationship =
                       RelationshipId(s, Rules[rule].type, t.id,
                                      "deterministic", rule)
<1>1. (CHOOSE s \in log[n].object : TRUE) = t
  BY Only
<1>2. \A s \in log[n].attack_source : (\A r \in log[n].attack_source : r = s) =>
         (CHOOSE r \in log[n].attack_source : TRUE) = s
  OBVIOUS
<1>3. QED
  BY <1>1, <1>2 DEF DerivedBy

LEMMA ExploitsAre ==
    ASSUME Ground, Graph, NEW n, n = checkpoint["correlation"] + 1,
           n \in DOMAIN log
    PROVE  /\ \A c \in Exploits(n) : CandidateBy(c, "COR_SEQ_001", n)
           /\ \A c, d \in Exploits(n) : c = d
           /\ SupportsAt(derivations, "COR_SEQ_001", n) # {}
                 /\ Admits("COR_SEQ_001", log[n]) => Exploits(n) # {}
<1> DEFINE o == log[n]
           rule == "COR_SEQ_001"
           supports(t) == PriorVulnerabilities(t.id, n)
<1>1. o \in Payload
  BY Times DEF Ground
<1>2. \A s, t \in o.object : s = t
  BY <1>1, Schema
<1>3. ASSUME NEW t \in o.object, o.activity = "exploit_attempt"
      PROVE  SupportsAt(derivations, rule, n) = supports(t)
  <2>1. supports(t) = {id \in Known(derivations, n) :
                         id.type = "has_vulnerability" /\ id.source = t.id}
    BY PriorReads
  <2>2. ASSUME NEW id
        PROVE  Supports(rule, o, id) <=>
                  id.type = "has_vulnerability" /\ id.source = t.id
    BY <1>2, <1>3 DEF Supports
  <2>3. QED
    BY <2>1, <2>2 DEF SupportsAt
<1>4. ASSUME NEW t \in o.object
      PROVE  Admits(rule, o) <=> ValidEdge("exploited", o.subject.type, t.type)
  BY <1>2 DEF Admits, Rules
<1>5. Exploits(n) =
        {Candidate(rule, o.subject.id, o.subject.type, target, supports(target)) :
           target \in {t \in o.object :
                         /\ o.activity = "exploit_attempt"
                         /\ ValidEdge("exploited", o.subject.type, t.type)
                         /\ supports(t) # {}}}
  BY DEF Exploits
<1>6. ASSUME NEW c \in Exploits(n) PROVE CandidateBy(c, rule, n)
  <2>1. PICK t \in o.object :
           /\ o.activity = "exploit_attempt"
           /\ ValidEdge("exploited", o.subject.type, t.type)
           /\ supports(t) # {}
           /\ c = Candidate(rule, o.subject.id, o.subject.type, t, supports(t))
    BY <1>5
  <2>2. SupportsAt(derivations, rule, n) = supports(t) /\ Admits(rule, o)
    BY <1>3, <1>4, <2>1
  <2>3. DerivedBy(derivations, rule, n).relationship =
           RelationshipId(o.subject.id, Rules[rule].type, t.id,
                          "deterministic", rule)
    BY <1>2, DerivedRelationship
  <2>4. /\ c.supports = supports(t)
        /\ c.edge.id = RelationshipId(o.subject.id, Rules[rule].type, t.id,
                                      "deterministic", rule)
        /\ c.edge.confidence = Rules[rule].confidence
        /\ c.edge.sourceType = o.subject.type
        /\ c.edge.targetType = t.type
    BY <2>1, CandidateFields
  <2>5. Rules[rule].type = "exploited"
    BY DEF Rules
  <2> HIDE DEF supports
  <2>6. QED
    BY <2>1, <2>2, <2>3, <2>4, <2>5 DEF CandidateBy
<1>7. \A c, d \in Exploits(n) : c = d
  BY <1>2, <1>5
<1>8. ASSUME SupportsAt(derivations, rule, n) # {}, Admits(rule, o)
      PROVE  Exploits(n) # {}
  <2>1. PICK id \in SupportsAt(derivations, rule, n) : Supports(rule, o, id)
    BY <1>8 DEF SupportsAt
  <2>2. PICK t \in o.object : o.activity = "exploit_attempt"
    BY <2>1 DEF Supports
  <2>3. supports(t) # {} /\ ValidEdge("exploited", o.subject.type, t.type)
    BY <1>3, <1>4, <1>8, <2>2
  <2>4. Candidate(rule, o.subject.id, o.subject.type, t, supports(t)) \in Exploits(n)
    BY <1>5, <2>2, <2>3
  <2>5. QED
    BY <2>4
<1>9. QED
  BY <1>6, <1>7, <1>8

LEMMA LateralMovesAre ==
    ASSUME Ground, Graph, NEW n, n = checkpoint["correlation"] + 1,
           n \in DOMAIN log
    PROVE  /\ \A c \in LateralMoves(n) : CandidateBy(c, "COR_SEQ_003", n)
           /\ \A c, d \in LateralMoves(n) : c = d
           /\ SupportsAt(derivations, "COR_SEQ_003", n) # {}
                 /\ Admits("COR_SEQ_003", log[n]) => LateralMoves(n) # {}
<1> DEFINE o == log[n]
           rule == "COR_SEQ_003"
           supports == PriorCompromises(o.subject.id, n)
<1>1. o \in Payload
  BY Times DEF Ground
<1>2. \A s, t \in o.object : s = t
  BY <1>1, Schema
<1>3. ASSUME NEW t \in o.object, o.class = "authentication"
      PROVE  SupportsAt(derivations, rule, n) = supports
  <2>1. supports = {id \in Known(derivations, n) :
                         id.type = "compromised" /\ id.target = o.subject.id}
    BY PriorReads
  <2>2. ASSUME NEW id
        PROVE  Supports(rule, o, id) <=>
                  id.type = "compromised" /\ id.target = o.subject.id
    BY <1>3 DEF Supports
  <2>3. QED
    BY <2>1, <2>2 DEF SupportsAt
<1>4. ASSUME NEW t \in o.object
      PROVE  Admits(rule, o) <=> ValidEdge("moved_laterally_to", o.subject.type, t.type)
  BY <1>2 DEF Admits, Rules
<1>5. LateralMoves(n) =
        {Candidate(rule, o.subject.id, o.subject.type, target, supports) :
           target \in {t \in o.object :
                         /\ o.class = "authentication"
                         /\ supports # {}
                         /\ ValidEdge("moved_laterally_to", o.subject.type,
                                      t.type)}}
  BY DEF LateralMoves
<1>6. ASSUME NEW c \in LateralMoves(n) PROVE CandidateBy(c, rule, n)
  <2>1. PICK t \in o.object :
           /\ o.class = "authentication"
           /\ ValidEdge("moved_laterally_to", o.subject.type, t.type)
           /\ supports # {}
           /\ c = Candidate(rule, o.subject.id, o.subject.type, t, supports)
    BY <1>5
  <2>2. SupportsAt(derivations, rule, n) = supports /\ Admits(rule, o)
    BY <1>3, <1>4, <2>1
  <2>3. DerivedBy(derivations, rule, n).relationship =
           RelationshipId(o.subject.id, Rules[rule].type, t.id,
                          "deterministic", rule)
    BY <1>2, DerivedRelationship
  <2>4. /\ c.supports = supports
        /\ c.edge.id = RelationshipId(o.subject.id, Rules[rule].type, t.id,
                                      "deterministic", rule)
        /\ c.edge.confidence = Rules[rule].confidence
        /\ c.edge.sourceType = o.subject.type
        /\ c.edge.targetType = t.type
    BY <2>1, CandidateFields, SMTT(30)
  <2>5. Rules[rule].type = "moved_laterally_to"
    BY DEF Rules
  <2> HIDE DEF supports
  <2>6. QED
    BY <2>1, <2>2, <2>3, <2>4, <2>5 DEF CandidateBy
<1>7. \A c, d \in LateralMoves(n) : c = d
  BY <1>2, <1>5
<1>8. ASSUME SupportsAt(derivations, rule, n) # {}, Admits(rule, o)
      PROVE  LateralMoves(n) # {}
  <2>1. PICK id \in SupportsAt(derivations, rule, n) : Supports(rule, o, id)
    BY <1>8 DEF SupportsAt
  <2>2. PICK t \in o.object : o.class = "authentication"
    BY <2>1 DEF Supports
  <2>3. supports # {} /\ ValidEdge("moved_laterally_to", o.subject.type, t.type)
    BY <1>3, <1>4, <1>8, <2>2
  <2>4. Candidate(rule, o.subject.id, o.subject.type, t, supports) \in LateralMoves(n)
    BY <1>5, <2>2, <2>3
  <2>5. QED
    BY <2>4
<1>9. QED
  BY <1>6, <1>7, <1>8

\* Where an exploit went before, the ontology admits a compromise.
LEMMA ExploitedIsCompromisable ==
    ASSUME NEW source, NEW target, ValidEdge("exploited", source, target)
    PROVE  ValidEdge("compromised", source, target)
BY DEF ValidEdge, SourceTypes, TargetTypes

LEMMA CompromisesAre ==
    ASSUME Ground, Graph, NEW n, n = checkpoint["correlation"] + 1,
           n \in DOMAIN log, "COR_SEQ_002" \in Ruleset, ~ConflictingSupports(n)
    PROVE  /\ \A c \in Compromises(n) : CandidateBy(c, "COR_SEQ_002", n)
           /\ \A c, d \in Compromises(n) : c = d
           /\ SupportsAt(derivations, "COR_SEQ_002", n) # {}
                 /\ Admits("COR_SEQ_002", log[n]) => Compromises(n) # {}
<1> DEFINE o == log[n]
           rule == "COR_SEQ_002"
<1>1. o \in Payload
  BY Times DEF Ground
<1>2. /\ \A s, t \in o.object : s = t
      /\ \A s, t \in o.attack_source : s = t
  BY <1>1, Schema
<1>3. ASSUME NEW s \in o.attack_source, NEW t \in o.object,
             Suspicious(o)
      PROVE  SupportsAt(derivations, rule, n) = PriorExploits(s, t.id, n)
  <2>1. PriorExploits(s, t.id, n) =
           {id \in Known(derivations, n) :
              id.type = "exploited" /\ id.source = s /\ id.target = t.id}
    BY PriorReads
  <2>2. ASSUME NEW id
        PROVE  Supports(rule, o, id) <=>
                  id.type = "exploited" /\ id.source = s /\ id.target = t.id
    BY <1>2, <1>3 DEF Supports
  <2>3. QED
    BY <2>1, <2>2 DEF SupportsAt
<1>4. ASSUME NEW c \in SuspiciousChildren(n)
      PROVE  \E s \in o.attack_source, t \in o.object :
                /\ Suspicious(o)
                /\ c = [source |-> s, target |-> t, supports |-> PriorExploits(s, t.id, n)]
                /\ c.supports # {}
  <2>1. /\ c \in [source : o.attack_source, target : o.object,
                  supports : {PriorExploits(s, t.id, n) :
                                s \in o.attack_source, t \in o.object}]
        /\ Suspicious(o) /\ c.supports # {}
    BY DEF SuspiciousChildren
  <2>2. /\ c.source \in o.attack_source /\ c.target \in o.object
        /\ c = [source |-> c.source, target |-> c.target, supports |-> c.supports]
        /\ \E s \in o.attack_source, t \in o.object :
              c.supports = PriorExploits(s, t.id, n)
    BY <2>1
  <2>3. c.supports = PriorExploits(c.source, c.target.id, n)
    BY <1>2, <2>2
  <2>4. QED
    BY <2>1, <2>2, <2>3
<1>5. ASSUME NEW c \in SuspiciousChildren(n), NEW id \in c.supports
      PROVE  /\ id \in DOMAIN relationships
             /\ ValidEdge("compromised", relationships[id].sourceType, c.target.type)
  <2>1. PICK s \in o.attack_source, t \in o.object :
            c = [source |-> s, target |-> t, supports |-> PriorExploits(s, t.id, n)]
    BY <1>4
  <2>2. c.supports = PriorExploits(s, t.id, n)
    BY <2>1
  <2>3. id \in DOMAIN relationships /\ id.type = "exploited"
    BY <2>2 DEF PriorExploits
  <2>4. RelationshipTrue(id)
    BY <2>3 DEF Graph, RelationshipsTrue
  <2>5. ValidEdge("exploited", relationships[id].sourceType,
                  relationships[id].targetType)
    BY <2>3, <2>4 DEF RelationshipTrue
  <2>6. TargetTypesOf(c.supports) = {c.target.type}
    BY DEF ConflictingSupports
  <2>7. relationships[id].targetType = c.target.type
    BY <2>6 DEF TargetTypesOf
  <2>8. QED
    BY <2>3, <2>5, <2>7, ExploitedIsCompromisable
<1>6. ASSUME NEW c \in SuspiciousChildren(n), NEW t \in SourceTypesOf(c.supports)
      PROVE  ValidEdge("compromised", t, c.target.type)
  BY <1>5 DEF SourceTypesOf
<1>7. Compromises(n) =
        {Candidate(rule, c.source, CHOOSE t \in SourceTypesOf(c.supports) : TRUE,
                   c.target, c.supports) : c \in SuspiciousChildren(n)}
  <2>1. {c \in SuspiciousChildren(n) :
                 \A t \in SourceTypesOf(c.supports) :
                    ValidEdge("compromised", t, c.target.type)}
          = SuspiciousChildren(n)
    BY <1>6
  <2>2. QED
    BY <2>1 DEF Compromises
<1>8. Admits(rule, o)
  BY DEF Admits
<1>9. ASSUME NEW c \in Compromises(n) PROVE CandidateBy(c, rule, n)
  <2>1. PICK x \in SuspiciousChildren(n) :
            c = Candidate(rule, x.source,
                          CHOOSE t \in SourceTypesOf(x.supports) : TRUE,
                          x.target, x.supports)
    BY <1>7
  <2> DEFINE sourceType == CHOOSE t \in SourceTypesOf(x.supports) : TRUE
  <2>2. PICK s \in o.attack_source, t \in o.object :
            /\ Suspicious(o)
            /\ x = [source |-> s, target |-> t, supports |-> PriorExploits(s, t.id, n)]
            /\ x.supports # {}
    BY <1>4
  <2>3. x.source = s /\ x.target = t /\ x.supports = PriorExploits(s, t.id, n)
    BY <2>2
  <2>4. SupportsAt(derivations, rule, n) = x.supports
    BY <1>3, <2>2, <2>3
  <2>5. DerivedBy(derivations, rule, n).relationship =
           RelationshipId(s, Rules[rule].type, t.id, "deterministic", rule)
    BY <1>2, DerivedRelationship, ZenonT(60)
  <2>6. sourceType \in SourceTypesOf(x.supports)
    BY <2>2 DEF SourceTypesOf
  <2>7. ValidEdge("compromised", sourceType, x.target.type)
    BY <1>6, <2>6
  <2> HIDE DEF sourceType
  <2>8. /\ c.supports = x.supports
        /\ c.edge.id = RelationshipId(x.source, Rules[rule].type, x.target.id,
                                      "deterministic", rule)
        /\ c.edge.confidence = Rules[rule].confidence
        /\ c.edge.sourceType = sourceType
        /\ c.edge.targetType = x.target.type
    BY <2>1, CandidateFields DEF sourceType
  <2>9. Rules[rule].type = "compromised"
    BY DEF Rules
  <2>10. QED
    BY <1>8, <2>2, <2>3, <2>4, <2>5, <2>7, <2>8, <2>9 DEF CandidateBy
<1>10. ASSUME NEW c \in Compromises(n), NEW d \in Compromises(n) PROVE c = d
  <2>1. \A x, y \in SuspiciousChildren(n) : x = y
    BY <1>2, <1>4
  <2>2. QED
    BY <1>7, <2>1
<1>11. ASSUME SupportsAt(derivations, rule, n) # {}
       PROVE  Compromises(n) # {}
  <2>1. PICK id \in SupportsAt(derivations, rule, n) : Supports(rule, o, id)
    BY <1>11 DEF SupportsAt
  <2>2. PICK s \in o.attack_source, t \in o.object :
            Suspicious(o)
    BY <2>1 DEF Supports
  <2>3. PriorExploits(s, t.id, n) # {}
    BY <1>3, <1>11, <2>2
  <2> DEFINE x == [source |-> s, target |-> t, supports |-> PriorExploits(s, t.id, n)]
  <2>4. x \in [source : o.attack_source, target : o.object,
               supports : {PriorExploits(r, u.id, n) :
                             r \in o.attack_source, u \in o.object}]
    OBVIOUS
  <2>5. x.supports # {}
    BY <2>3
  <2> HIDE DEF x
  <2>6. x \in SuspiciousChildren(n)
    BY <2>2, <2>4, <2>5 DEF SuspiciousChildren
  <2>7. QED
    BY <1>7, <2>6
<1>12. QED
  BY <1>9, <1>10, <1>11

-----------------------------------------------------------------------------

LEMMA CandidatesAre ==
    ASSUME Ground, Graph, NEW n, n = checkpoint["correlation"] + 1,
           n \in DOMAIN log, ~ConflictingSupports(n), NEW rule \in Ruleset
    PROVE  /\ \A c \in CandidatesOf(rule, n) : CandidateBy(c, rule, n)
           /\ \A c, d \in CandidatesOf(rule, n) : c = d
           /\ SupportsAt(derivations, rule, n) # {} /\ Admits(rule, log[n])
                 => CandidatesOf(rule, n) # {}
<1>1. CASE rule = "COR_SEQ_001"
  <2>1. CandidatesOf(rule, n) = Exploits(n)
    BY <1>1 DEF CandidatesOf
  <2>2. QED
    BY <1>1, <2>1, ExploitsAre
<1>2. CASE rule = "COR_SEQ_002"
  <2>1. CandidatesOf(rule, n) = Compromises(n)
    BY <1>2 DEF CandidatesOf
  <2>2. QED
    BY <1>2, <2>1, CompromisesAre
<1>3. CASE rule = "COR_SEQ_003"
  <2>1. CandidatesOf(rule, n) = LateralMoves(n)
    BY <1>3 DEF CandidatesOf
  <2>2. QED
    BY <1>3, <2>1, LateralMovesAre
<1>4. QED
  BY <1>1, <1>2, <1>3, RuleNames

\* A candidate becomes the edge and the derivation there must be.
LEMMA CandidateBecomes ==
    ASSUME Ground, Graph, NEW n, n = checkpoint["correlation"] + 1,
           n \in DOMAIN log, NEW rule \in Ruleset, NEW c,
           CandidateBy(c, rule, n), ~Collides(c.edge)
    PROVE  /\ FitEdge(c.edge, n)
           /\ c.edge.id.rule = rule
           /\ Derivation(c, n) = DerivedBy(derivations, rule, n)
<1> DEFINE d == DerivedBy(derivations, rule, n)
           o == log[n]
<1>1. o \in Payload
  BY Times DEF Ground
<1>2. SupportsAt(derivations, rule, n) # {}
  BY DEF CandidateBy
<1>3. /\ d.relationship.rule = rule
      /\ d.relationship.type = Rules[rule].type
      /\ d.relationship.provenance = "deterministic"
      /\ d.sequence = n
      /\ d.supports = SupportsAt(derivations, rule, n)
      /\ d.triggerEvidence = o.evidence
      /\ d.supportEvidence = EvidenceOf(derivations, d.supports, n)
      /\ \E t \in o.object : t.id = d.relationship.target
      /\ rule # "COR_SEQ_002" => d.relationship.source = o.subject.id
  BY <1>1, <1>2, DerivedFields
<1>4. d = [relationship |-> d.relationship, sequence |-> d.sequence,
           supports |-> d.supports, triggerEvidence |-> d.triggerEvidence,
           supportEvidence |-> d.supportEvidence]
  BY DEF DerivedBy
<1> HIDE DEF d
<1>5. c.edge.id = d.relationship /\ c.supports = d.supports
  BY <1>3 DEF CandidateBy, d
<1>6. Derivation(c, n) = d
  <2>1. PriorEvidence(c.supports, n) = d.supportEvidence
    BY <1>3, <1>5, PriorEvidenceIs
  <2>2. QED
    BY <1>3, <1>4, <1>5, <2>1 DEF Derivation
<1>7. \A s, t \in o.object : s = t
  BY <1>1, Schema
<1>8. EndsAt(c.edge.id, c.edge.sourceType, c.edge.targetType, n)
  <2>1. \E t \in o.object : /\ t.id = c.edge.id.target
                            /\ t.type = c.edge.targetType
    BY <1>3, <1>5, <1>7 DEF CandidateBy
  <2>2. QED
    BY <1>3, <1>5, <2>1 DEF EndsAt, CandidateBy
<1>9. Provenance(c.edge.id)
  BY <1>3, <1>5, RuleNames DEF Provenance
<1>10. /\ ValidEdge(c.edge.id.type, c.edge.sourceType, c.edge.targetType)
       /\ c.edge.confidence \in 0..100
  BY <1>3, <1>5, RuleNames DEF CandidateBy
<1>11. FitEdge(c.edge, n)
  BY <1>8, <1>9, <1>10 DEF FitEdge
<1>12. QED
  BY <1>3, <1>5, <1>6, <1>11 DEF d

LEMMA CorrelationGraphStep ==
    ASSUME Ground, Graph, Correlate, Ground'
    PROVE  Graph'
<1> DEFINE n == NextItem("correlation")
           candidates == Candidates(n)
           edges == {c.edge : c \in candidates}
<1>1. /\ Ready("correlation") /\ Processed("correlation")
      /\ RelationshipCaughtUp(n)
      /\ ~ConflictingSupports(n) /\ \A e \in edges : ~Collides(e)
      /\ relationships' = RelationshipsAfter(edges, n)
      /\ lineage' = LineageAfter(edges, n)
      /\ relationshipEvidence' =
            Upserted(relationshipEvidence,
                UNION {{c.edge.id} \X (log[n].evidence
                                        \cup PriorEvidence(c.supports, n)) :
                         c \in candidates}, n)
      /\ derivations' = derivations \cup {Derivation(c, n) : c \in candidates}
  BY DEF Correlate
<1>2. /\ n = checkpoint["correlation"] + 1 /\ n \in DOMAIN log /\ n \in Nat
      /\ log[n] \in Payload /\ n <= checkpoint["relationship"]
      /\ checkpoint'["correlation"] = n /\ log' = log
      /\ checkpoint'["relationship"] = checkpoint["relationship"]
  <2>1. n = checkpoint["correlation"] + 1
    BY DEF NextItem
  <2>2. n \in DOMAIN log /\ n \in Nat
    BY <1>1, <2>1, Counts DEF Ready
  <2>3. log[n] \in Payload
    BY <2>2, Times DEF Ground
  <2>4. /\ checkpoint'["correlation"] = n /\ log' = log
        /\ checkpoint'["relationship"] = checkpoint["relationship"]
    BY <1>1, <2>1 DEF Processed, Ground, Basics, Projector
  <2>5. n <= checkpoint["relationship"]
    BY <1>1, <2>2, Counts DEF RelationshipCaughtUp
  <2>6. QED
    BY <2>1, <2>2, <2>3, <2>4, <2>5
<1>3. candidates = UNION {CandidatesOf(rule, n) : rule \in Ruleset}
  BY DEF Candidates
<1> HIDE DEF n, candidates
<1>4. ASSUME NEW rule \in Ruleset
      PROVE  /\ \A c \in CandidatesOf(rule, n) : CandidateBy(c, rule, n)
             /\ \A c, d \in CandidatesOf(rule, n) : c = d
             /\ SupportsAt(derivations, rule, n) # {} /\ Admits(rule, log[n])
                   => CandidatesOf(rule, n) # {}
  BY <1>1, <1>2, CandidatesAre
<1>5. ASSUME NEW rule \in Ruleset, NEW c \in CandidatesOf(rule, n)
      PROVE  /\ c \in candidates
             /\ CandidateBy(c, rule, n)
             /\ FitEdge(c.edge, n)
             /\ c.edge.id.rule = rule
             /\ Derivation(c, n) = DerivedBy(derivations, rule, n)
  <2>1. c \in candidates
    BY <1>3
  <2>2. CandidateBy(c, rule, n)
    BY <1>4
  <2>3. ~Collides(c.edge)
    BY <1>1, <2>1
  <2>4. QED
    BY <1>2, <2>1, <2>2, <2>3, CandidateBecomes
<1>6. \A c \in candidates : \E rule \in Ruleset : c \in CandidatesOf(rule, n)
  BY <1>3
<1>7. Written(edges, n)
  BY <1>1, <1>2 DEF Written
<1>8. \A e \in edges : FitEdge(e, n)
  BY <1>5, <1>6
<1>9. \A e, f \in edges : f.id = e.id => f = e
  <2>1. ASSUME NEW c \in candidates, NEW d \in candidates, c.edge.id = d.edge.id
        PROVE  c = d
    <3>1. PICK rule \in Ruleset : c \in CandidatesOf(rule, n)
      BY <1>6
    <3>2. PICK other \in Ruleset : d \in CandidatesOf(other, n)
      BY <1>6
    <3>3. rule = other
      BY <1>5, <2>1, <3>1, <3>2
    <3>4. QED
      BY <1>4, <3>1, <3>2, <3>3
  <2>2. QED
    BY <2>1
<1>10. \A c \in candidates : /\ Derivation(c, n).relationship = c.edge.id
                             /\ Derivation(c, n).sequence = n
  BY DEF Derivation
<1>11. ASSUME NEW id, NEW m
       PROVE  At(id, m)' <=> At(id, m) \/ (m = n /\ \E e \in edges : e.id = id)
  <2>1. (\E d \in derivations' : d.relationship = id /\ d.sequence = m)
          <=> \/ \E d \in derivations : d.relationship = id /\ d.sequence = m
              \/ m = n /\ \E e \in edges : e.id = id
    BY <1>1, <1>10
  <2>2. QED
    BY <1>2, <2>1 DEF At
<1>12. LineageExact'
  BY <1>7, <1>11, WrittenLineage DEF Graph
<1>13. RelationshipsTrue'
  BY <1>2, <1>7, <1>8, <1>9, <1>11, WrittenRows DEF Graph, Ground
<1>14. DOMAIN relationships' = DOMAIN relationships \cup {e.id : e \in edges}
  BY <1>1 DEF RelationshipsAfter
<1>15. RelationshipEvidenceTrue'
  <2> DEFINE keys == UNION {{c.edge.id} \X (log[n].evidence
                                        \cup PriorEvidence(c.supports, n)) :
                         c \in candidates}
  <2>1. ASSUME NEW k \in keys
        PROVE  /\ k = << k[1], k[2] >>
               /\ k[1] \in DOMAIN relationships'
               /\ \E m \in DOMAIN log : k[2] \in log[m].evidence
    <3>1. PICK c \in candidates :
              k \in {c.edge.id} \X (log[n].evidence \cup PriorEvidence(c.supports, n))
      OBVIOUS
    <3>2. /\ k = << k[1], k[2] >> /\ k[1] = c.edge.id
          /\ k[2] \in log[n].evidence \/ k[2] \in PriorEvidence(c.supports, n)
      BY <3>1
    <3>3. ASSUME k[2] \in PriorEvidence(c.supports, n)
          PROVE  \E m \in DOMAIN log : k[2] \in log[m].evidence
      <4>1. PICK row \in lineage : k[2] \in log[row.sequence].evidence
        BY <3>3 DEF PriorEvidence
      <4>2. At(row.relationship, row.sequence)
        BY DEF Graph, LineageExact
      <4>3. row.sequence \in DOMAIN log
        BY <4>2, AtWithin DEF Graph
      <4>4. QED
        BY <4>1, <4>3
    <3>4. QED
      BY <1>2, <1>14, <3>2, <3>3
  <2>2. relationshipEvidence' = Upserted(relationshipEvidence, keys, n)
    BY <1>1
  <2> HIDE DEF keys
  <2>3. QED
    BY <1>2, <1>14, <2>1, <2>2, WrittenEvidence DEF Graph, Ground
<1>16. DerivationsWithin'
  <2>1. checkpoint["correlation"] \in Nat /\ n \in 1..n
    BY <1>2, Counts
  <2>2. ASSUME NEW d \in derivations' PROVE d.sequence \in 1..n
    <3>1. CASE d \in derivations
      <4>1. d.sequence \in 1..checkpoint["correlation"]
        BY <3>1 DEF Graph, DerivationsWithin
      <4>2. QED
        BY <1>2, <2>1, <4>1
    <3>2. CASE d \in {Derivation(c, n) : c \in candidates}
      BY <1>10, <2>1, <3>2
    <3>3. QED
      BY <1>1, <3>1, <3>2
  <2>3. QED
    BY <1>2, <2>2 DEF DerivationsWithin
<1>17. \A d \in derivations : d.sequence # n
  <2>1. ~(n \in 1..checkpoint["correlation"])
    BY <1>2, Counts
  <2>2. QED
    BY <2>1 DEF Graph, DerivationsWithin
<1>18. ASSUME NEW k \in 1..checkpoint["correlation"]
       PROVE  {d \in derivations' : d.sequence = k}
                 = DerivedAt(DerivationsBefore(k), k)'
  <2>1. /\ k \in Nat /\ k # 0 /\ \A m \in 1..k : log'[m] = log[m]
        /\ k < n
    BY <1>2, Counts
  <2>2. DerivationsBefore(k)' = DerivationsBefore(k)
    <3>1. \A d \in {Derivation(c, n) : c \in candidates} : ~(d.sequence < k)
      BY <1>2, <1>10, <2>1
    <3>2. QED
      BY <1>1, <3>1 DEF DerivationsBefore
  <2>3. ASSUME NEW before PROVE DerivedAt(before, k)' = DerivedAt(before, k)
    BY <2>1, DerivedAtKept
  <2>4. {d \in derivations' : d.sequence = k} = {d \in derivations : d.sequence = k}
    BY <1>1, <1>2, <1>10, <2>1
  <2>5. QED
    BY <2>2, <2>3, <2>4 DEF Graph, DerivationsExact
<1>19. {Derivation(c, n) : c \in candidates} = DerivedAt(derivations, n)
  <2>1. ASSUME NEW c \in candidates PROVE Derivation(c, n) \in DerivedAt(derivations, n)
    <3>1. PICK rule \in Ruleset : c \in CandidatesOf(rule, n)
      BY <1>6
    <3>2. CandidateBy(c, rule, n) /\ Derivation(c, n) = DerivedBy(derivations, rule, n)
      BY <1>5, <3>1
    <3>3. SupportsAt(derivations, rule, n) # {} /\ Admits(rule, log[n])
      BY <3>2 DEF CandidateBy
    <3>4. QED
      BY <3>2, <3>3 DEF DerivedAt
  <2>2. ASSUME NEW d \in DerivedAt(derivations, n)
        PROVE  \E c \in candidates : d = Derivation(c, n)
    <3>1. PICK rule \in Ruleset :
             /\ SupportsAt(derivations, rule, n) # {} /\ Admits(rule, log[n])
             /\ d = DerivedBy(derivations, rule, n)
      BY DEF DerivedAt
    <3>2. PICK c \in CandidatesOf(rule, n) : TRUE
      BY <1>4, <3>1
    <3>3. QED
      BY <1>5, <3>1, <3>2
  <2>3. QED
    BY <2>1, <2>2
<1>20. ASSUME NEW k, k = n
       PROVE  {d \in derivations' : d.sequence = k}
                 = DerivedAt(DerivationsBefore(k), k)'
  <2>1. {d \in derivations' : d.sequence = k} = {Derivation(c, n) : c \in candidates}
    BY <1>1, <1>10, <1>17, <1>20
  <2>2. k \in Nat /\ k # 0 /\ \A m \in 1..k : log'[m] = log[m]
    BY <1>2, <1>20, Counts
  <2>3. DerivationsBefore(k)' = derivations
    <3>1. \A d \in derivations : d.sequence < k
      <4>1. \A d \in derivations : d.sequence \in 1..checkpoint["correlation"]
        BY DEF Graph, DerivationsWithin
      <4>2. \A m \in 1..checkpoint["correlation"] : m < k
        BY <1>2, <1>20, Counts
      <4>3. QED
        BY <4>1, <4>2
    <3>2. \A c \in candidates : ~(Derivation(c, n).sequence < k)
      BY <1>2, <1>10, <1>20
    <3>3. QED
      BY <1>1, <3>1, <3>2 DEF DerivationsBefore
  <2>4. ASSUME NEW before PROVE DerivedAt(before, k)' = DerivedAt(before, k)
    BY <2>2, DerivedAtKept
  <2>5. QED
    BY <1>19, <1>20, <2>1, <2>3, <2>4
<1>21. DerivationsExact'
  <2>1. \A k \in 1..n : k \in 1..checkpoint["correlation"] \/ k = n
    BY <1>2, Counts
  <2>2. ASSUME NEW k \in 1..n
        PROVE  {d \in derivations' : d.sequence = k} = DerivedAt(DerivationsBefore(k), k)'
    BY <1>18, <1>20, <2>1
  <2>3. QED
    BY <1>2, <2>2 DEF DerivationsExact
<1>22. QED
  BY <1>12, <1>13, <1>15, <1>16, <1>21 DEF Graph

-----------------------------------------------------------------------------
(* All steps, and the beginning.                                           *)

\* What the steps that neither writer of the graph makes leave alone.
GraphElsewhere ==
    /\ UNCHANGED << graphTables, derivations >>
    /\ checkpoint'["relationship"] = checkpoint["relationship"]
    /\ checkpoint'["correlation"] = checkpoint["correlation"]
    /\ \A m \in DOMAIN log : log'[m] = log[m]
    /\ DOMAIN log \subseteq DOMAIN log'

LEMMA OthersKeepGraph ==
    ASSUME Basics,
           \/ \E o \in Payload : AppendObservation(o)
           \/ RunEntity \/ RunScene \/ UNCHANGED vars
           \/ (PoisonRelationship /\ UNCHANGED derivations)
    PROVE  GraphElsewhere
<1>1. ASSUME NEW o \in Payload, AppendObservation(o) PROVE GraphElsewhere
  <2>1. /\ log' = Append(log, o) /\ log \in Seq(Payload)
        /\ UNCHANGED << checkpoint, correlationTables >>
    BY <1>1 DEF AppendObservation, Ingest, Store!AppendObservation, Basics
  <2>2. /\ \A n \in DOMAIN log : log'[n] = log[n]
        /\ DOMAIN log \subseteq DOMAIN log'
    BY <2>1
  <2>3. QED
    BY <2>1, <2>2 DEF GraphElsewhere, correlationTables
<1>2. ASSUME NEW p \in {"entity", "scene"}, Processed(p)
      PROVE  /\ checkpoint'["relationship"] = checkpoint["relationship"]
             /\ checkpoint'["correlation"] = checkpoint["correlation"]
             /\ log' = log
  BY <1>2 DEF Processed, Basics, Projector
<1>3. CASE RunEntity
  <2>1. UNCHANGED correlationTables
    BY <1>3 DEF RunEntity
  <2>2. CASE ProjectEntities
    BY <1>2, <2>1, <2>2 DEF ProjectEntities, GraphElsewhere, correlationTables
  <2>3. CASE PoisonEntity
    BY <2>1, <2>3 DEF PoisonEntity, Poisoned, GraphElsewhere, correlationTables
  <2>4. QED
    BY <1>3, <2>2, <2>3 DEF RunEntity
<1>4. CASE RunScene
  BY <1>2, <1>4 DEF RunScene, PlanScenes, GraphElsewhere, correlationTables
<1>5. CASE PoisonRelationship /\ UNCHANGED derivations
  BY <1>5 DEF PoisonRelationship, Poisoned, GraphElsewhere
<1>6. CASE UNCHANGED vars
  BY <1>6 DEF vars, base, correlationTables, GraphElsewhere
<1>7. QED
  BY <1>1, <1>3, <1>4, <1>5, <1>6

LEMMA GraphStep == Ground /\ Graph /\ [Next]_vars /\ Ground' => Graph'
<1> SUFFICES ASSUME Ground, Graph, [Next]_vars, Ground' PROVE Graph'
  OBVIOUS
<1>1. CASE RunCorrelation
  BY <1>1, CorrelationGraphStep DEF RunCorrelation
<1>2. CASE ProjectRelationship /\ UNCHANGED derivations
  BY <1>2, RelationshipGraphStep
<1>3. CASE GraphElsewhere
  BY <1>3, GraphKept DEF GraphElsewhere
<1>4. CASE RunRelationship
  <2>1. /\ ProjectRelationship \/ PoisonRelationship
        /\ UNCHANGED derivations
    BY <1>4 DEF RunRelationship
  <2>2. QED
    BY <1>2, <1>3, <2>1, OthersKeepGraph DEF Ground
<1>5. CASE RunEntity \/ RunScene \/ UNCHANGED vars
  <2>1. Basics
    BY DEF Ground
  <2>2. GraphElsewhere
    BY <1>5, <2>1, OthersKeepGraph
  <2>3. QED
    BY <1>3, <2>2
<1>6. CASE \E o \in Payload : AppendObservation(o)
  BY <1>3, <1>6, OthersKeepGraph DEF Ground
<1>7. QED
  BY <1>1, <1>4, <1>5, <1>6 DEF Next

\* The inductive invariant of the pipeline but for its scenes.
Pipeline == Ground /\ TablesTrue /\ Graph

LEMMA InitialPipeline == Init => Pipeline
<1> SUFFICES ASSUME Init PROVE Pipeline
  OBVIOUS
<1>1. Basics /\ TablesTrue
  BY InitialTables
<1>2. CheckpointsOrdered
  BY DEF Init, BaseInit, Store!Init, CheckpointsOrdered, Projector
<1>3. /\ log = << >> /\ checkpoint = [p \in Projector |-> 0]
      /\ relationships = << >> /\ lineage = {} /\ derivations = {}
      /\ relationshipEvidence = << >>
  BY DEF Init, BaseInit, GraphInit, CorrelationInit, Store!Init
<1>4. DOMAIN << >> = {}
  OBVIOUS
<1>5. \A id, m : ~At(id, m)
  BY <1>3 DEF At, Projector
<1>6. \A id : Positions(id) = {}
  BY <1>5 DEF Positions
<1>7. LineageExact /\ DerivationsWithin /\ DerivationsExact
  BY <1>3, <1>5 DEF LineageExact, DerivationsWithin, DerivationsExact, Projector
<1>8. RelationshipsTrue /\ RelationshipEvidenceTrue
  BY <1>3, <1>4, <1>6 DEF RelationshipsTrue, RelationshipEvidenceTrue
<1>9. QED
  BY <1>1, <1>2, <1>7, <1>8 DEF Pipeline, Ground, Graph

LEMMA PipelineStep == Pipeline /\ [Next]_vars => Pipeline'
BY TablesStep, OrderStep, GraphStep DEF Pipeline, Ground

-----------------------------------------------------------------------------
(* The derivations as a function of the log.                               *)

\* f lists what the first n observations lead to, for n up to N.
Lists(f, N) ==
    f = [n \in 0..N |-> IF n = 0 THEN {}
                        ELSE f[n - 1] \cup DerivedAt(f[n - 1], n)]

LEMMA ListExists == \A N \in Nat : \E f : Lists(f, N)
<1> DEFINE S == {N \in Nat : \E f : Lists(f, N)}
<1>1. 0 \in S
  <2> DEFINE f == [n \in 0..0 |-> {}]
  <2>1. Lists(f, 0)
    BY DEF Lists
  <2>2. QED
    BY <2>1
<1>2. ASSUME NEW N \in Nat, N \in S PROVE N + 1 \in S
  <2>1. PICK f : Lists(f, N)
    BY <1>2
  <2> DEFINE last == f[N] \cup DerivedAt(f[N], N + 1)
             g == [n \in 0..(N + 1) |-> IF n = N + 1 THEN last ELSE f[n]]
  <2>2. ASSUME NEW n \in 0..(N + 1)
        PROVE  g[n] = IF n = 0 THEN {} ELSE g[n - 1] \cup DerivedAt(g[n - 1], n)
    <3>1. f = [k \in 0..N |-> IF k = 0 THEN {}
                              ELSE f[k - 1] \cup DerivedAt(f[k - 1], k)]
      BY <2>1 DEF Lists
    <3>2. CASE n = 0
      BY <3>1, <3>2
    <3>3. CASE n = N + 1
      <4>1. g[n] = last /\ n - 1 = N /\ n # 0 /\ N \in 0..(N + 1) /\ N # N + 1
        BY <3>3
      <4>2. g[n - 1] = f[N]
        BY <4>1
      <4>3. QED
        BY <3>3, <4>1, <4>2
    <3>4. CASE n # 0 /\ n # N + 1
      <4>1. n \in 0..N /\ n - 1 \in 0..(N + 1) /\ n - 1 # N + 1
        BY <3>4
      <4>2. g[n] = f[n] /\ g[n - 1] = f[n - 1]
        BY <3>4, <4>1
      <4>3. f[n] = f[n - 1] \cup DerivedAt(f[n - 1], n)
        BY <3>1, <3>4, <4>1
      <4> HIDE DEF g
      <4>4. QED
        BY <3>4, <4>2, <4>3
    <3>5. QED
      BY <3>2, <3>3, <3>4
  <2>3. g = [n \in 0..(N + 1) |-> g[n]]
    OBVIOUS
  <2> HIDE DEF g
  <2>4. Lists(g, N + 1)
    BY <2>2, <2>3 DEF Lists
  <2>5. QED
    BY <2>4
<1> HIDE DEF S
<1>3. Nat \subseteq S
  BY <1>1, <1>2, Induction
<1>4. QED
  BY <1>3 DEF S

LEMMA PrefixDerives ==
    ASSUME Ground, DerivationsWithin, DerivationsExact, NEW f, Lists(f, Len(log))
    PROVE  f[checkpoint["correlation"]] = derivations
<1> DEFINE c == checkpoint["correlation"]
           S == {m \in Nat : m <= c => f[m] = DerivationsBefore(m + 1)}
<1>1. c \in Nat /\ c <= Len(log) /\ Len(log) \in Nat
  BY Counts
<1>2. f = [n \in 0..Len(log) |-> IF n = 0 THEN {}
                                 ELSE f[n - 1] \cup DerivedAt(f[n - 1], n)]
  BY DEF Lists
<1>3. 0 \in S
  <2>1. f[0] = {}
    BY <1>1, <1>2
  <2>2. \A d \in derivations : ~(d.sequence < 0 + 1)
    BY <1>1 DEF DerivationsWithin
  <2>3. QED
    BY <2>1, <2>2 DEF DerivationsBefore
<1>4. ASSUME NEW m \in Nat, m \in S PROVE m + 1 \in S
  <2> SUFFICES ASSUME m + 1 <= c PROVE f[m + 1] = DerivationsBefore((m + 1) + 1)
    OBVIOUS
  <2> DEFINE n == m + 1
  <2>1. /\ n \in 1..c /\ n \in 0..Len(log) /\ n # 0 /\ n - 1 = m /\ m <= c
    BY <1>1
  <2>2. f[n - 1] = DerivationsBefore(n)
    BY <1>4, <2>1
  <2>3. f[n] = DerivationsBefore(n) \cup DerivedAt(DerivationsBefore(n), n)
    BY <1>2, <2>1, <2>2
  <2>4. {d \in derivations : d.sequence = n} = DerivedAt(DerivationsBefore(n), n)
    BY <2>1 DEF DerivationsExact
  <2>5. \A d \in derivations : d.sequence < n + 1 <=> d.sequence < n \/ d.sequence = n
    <3>1. \A d \in derivations : d.sequence \in Nat
      BY <1>1 DEF DerivationsWithin
    <3>2. QED
      BY <2>1, <3>1
  <2>6. DerivationsBefore(n + 1) =
           DerivationsBefore(n) \cup {d \in derivations : d.sequence = n}
    BY <2>5 DEF DerivationsBefore
  <2>7. QED
    BY <2>3, <2>4, <2>6
<1> HIDE DEF S
<1>5. c \in S
  BY <1>1, <1>3, <1>4, Induction
<1>6. f[c] = DerivationsBefore(c + 1)
  BY <1>1, <1>5 DEF S
<1>7. QED
  BY <1>6, DerivationsBeforeNext

(***************************************************************************)
(* What correlation has derived, with supports and evidence, is what the   *)
(* rules derive of the log up to its checkpoint, for any observations, any *)
(* ruleset and however far ahead the relationship projector is             *)
(* (CorrelationGraphReader's bounds, CorrelationProjectionHandler).        *)
(***************************************************************************)
THEOREM DerivationsAreThePrefix == Spec => []DerivationsPrefixOnly
<1>1. Pipeline => DerivationsPrefixOnly
  <2> SUFFICES ASSUME Pipeline PROVE DerivationsPrefixOnly
    OBVIOUS
  <2>1. Ground /\ DerivationsWithin /\ DerivationsExact
    BY DEF Pipeline, Graph
  <2> DEFINE f == CHOOSE f : f = [n \in 0..Len(log) |->
                       IF n = 0 THEN {}
                       ELSE f[n - 1] \cup DerivedAt(f[n - 1], n)]
  <2>2. \E g : Lists(g, Len(log))
    BY <2>1, Counts, ListExists
  <2>3. Lists(f, Len(log))
    BY <2>2 DEF Lists
  <2>4. ExpectedDerivations = f[checkpoint["correlation"]]
    BY DEF ExpectedDerivations
  <2> HIDE DEF f
  <2>5. QED
    BY <2>1, <2>3, <2>4, PrefixDerives DEF DerivationsPrefixOnly
<1>2. QED
  BY <1>1, InitialPipeline, PipelineStep, PTL DEF Spec

-----------------------------------------------------------------------------
(* The columns, checks and keys of the tables.                             *)

\* What the tables hold besides what TablesTrue and Graph say.
Columns ==
    /\ Len(log) <= MaxLog
    /\ failed \subseteq {"entity", "relationship"}
    /\ \A id \in DOMAIN entities : entities[id].type \in EntityType
    /\ \A row \in entityObservations : row.role \in {"subject", "object"}

\* The type of an entity never changes, and it keeps its row.
LEMMA TypeKept ==
    ASSUME Basics, TablesTrue, ProjectEntities, NEW id
    PROVE  /\ id \in DOMAIN entities =>
                 id \in DOMAIN entities' /\ entities'[id].type = entities[id].type
           /\ id \in DOMAIN entities' =>
                 \/ id \in DOMAIN entities
                 \/ entities'[id].type \in EntityType
<1> DEFINE n == NextItem("entity")
           o == log[n]
<1>1. /\ Ready("entity")
      /\ entities' = [i \in DOMAIN entities \cup EntityIds(o) |->
                        IF i \in EntityIds(o) THEN EntityRow(Reference(o, i), n)
                                              ELSE entities[i]]
  BY DEF ProjectEntities
<1>2. o \in Payload
  BY <1>1 DEF Ready, NextItem, Basics, Projector
<1>3. ASSUME NEW i \in EntityIds(o)
      PROVE  /\ Reference(o, i).id = i
             /\ Reference(o, i).type \in EntityType
  <2>1. \E r \in References(o) : r.id = i
    BY DEF EntityIds
  <2>2. Reference(o, i) \in References(o) /\ Reference(o, i).id = i
    BY <2>1 DEF Reference
  <2>3. \A r \in References(o) : r.type \in EntityType
    BY <1>2, Schema DEF References
  <2>4. QED
    BY <2>2, <2>3
<1> HIDE DEF n
<1>4. ASSUME id \in DOMAIN entities, id \in EntityIds(o)
      PROVE  EntityRow(Reference(o, id), n).type = entities[id].type
  <2> DEFINE row == entities[id]
             r == Reference(o, id)
             wider == [row EXCEPT !.span = Widened(row.span, n)]
             claimed == << log[n].time, n >>
  <2>1. IsRow(row)
    BY <1>4 DEF TablesTrue, EntitiesTrue, RowTrue
  <2>2. wider = [type |-> row.type, claim |-> row.claim,
                 claimed |-> row.claimed, span |-> Widened(row.span, n)]
    BY <2>1 DEF IsRow
  <2>3. r.id = id
    BY <1>3, <1>4
  <2>4. \/ EntityRow(r, n) = wider
        \/ EntityRow(r, n) = [wider EXCEPT !.claim = r.claim, !.claimed = claimed]
    BY <1>4, <2>3 DEF EntityRow
  <2> HIDE DEF wider
  <2>5. CASE EntityRow(r, n) = wider
    BY <2>2, <2>5
  <2>6. CASE EntityRow(r, n) = [wider EXCEPT !.claim = r.claim, !.claimed = claimed]
    BY <2>2, <2>6
  <2>7. QED
    BY <2>4, <2>5, <2>6
<1>5. ASSUME id \notin DOMAIN entities, id \in EntityIds(o)
      PROVE  EntityRow(Reference(o, id), n).type \in EntityType
  <2>1. EntityRow(Reference(o, id), n) =
           [type |-> Reference(o, id).type, claim |-> Reference(o, id).claim,
            claimed |-> << log[n].time, n >>, span |-> SpanAt(n)]
    BY <1>3, <1>5 DEF EntityRow
  <2>2. QED
    BY <1>3, <1>5, <2>1
<1>6. QED
  BY <1>1, <1>4, <1>5

LEMMA ColumnsStep == Basics /\ TablesTrue /\ Columns /\ [Next]_vars => Columns'
<1> SUFFICES ASSUME Basics, TablesTrue, Columns, [Next]_vars PROVE Columns'
  OBVIOUS
<1>1. ASSUME NEW o \in Payload, AppendObservation(o) PROVE Columns'
  <2>1. /\ log' = Append(log, o) /\ log \in Seq(Payload) /\ Len(log) < MaxLog
        /\ UNCHANGED << checkpoint, failed, entityTables >>
    BY <1>1 DEF AppendObservation, Ingest, Store!AppendObservation, Basics
  <2>2. Len(log') <= MaxLog
    BY <2>1, ProjectionAssumption
  <2>3. QED
    BY <2>1, <2>2 DEF Columns, entityTables
<1>2. CASE ProjectEntities
  <2>1. /\ Processed("entity")
        /\ \A row \in entityObservations' :
              row \in entityObservations \/ row.role \in {"subject", "object"}
    BY <1>2 DEF ProjectEntities
  <2>2. log' = log /\ failed' = failed
    BY <2>1 DEF Processed
  <2>3. \A id \in DOMAIN entities' : entities'[id].type \in EntityType
    BY <1>2, TypeKept DEF Columns
  <2>4. QED
    BY <2>1, <2>2, <2>3 DEF Columns
<1>3. ASSUME UNCHANGED << log, entityTables >>,
             failed' \subseteq failed \cup {"entity", "relationship"}
      PROVE  Columns'
  BY <1>3 DEF Columns, entityTables
<1>4. CASE PoisonEntity
  BY <1>3, <1>4 DEF PoisonEntity, Poisoned
<1>5. CASE RunRelationship
  <2>1. UNCHANGED entityTables
    BY <1>5 DEF RunRelationship
  <2>2. CASE ProjectRelationship
    BY <1>3, <2>1, <2>2 DEF ProjectRelationship, Processed
  <2>3. CASE PoisonRelationship
    BY <1>3, <2>1, <2>3 DEF PoisonRelationship, Poisoned
  <2>4. QED
    BY <1>5, <2>2, <2>3 DEF RunRelationship
<1>6. CASE RunCorrelation
  BY <1>3, <1>6 DEF RunCorrelation, Correlate, Processed
<1>7. CASE RunScene
  BY <1>3, <1>7 DEF RunScene, PlanScenes, Processed
<1>8. CASE UNCHANGED vars
  BY <1>3, <1>8 DEF vars, base
<1>9. QED
  BY <1>1, <1>2, <1>4, <1>5, <1>6, <1>7, <1>8 DEF Next, RunEntity

LEMMA InitialColumns == Init => Columns
<1> SUFFICES ASSUME Init PROVE Columns
  OBVIOUS
<1>1. log = << >> /\ failed = {} /\ entities = << >> /\ entityObservations = {}
  BY DEF Init, BaseInit, EntityInit, Store!Init
<1>2. DOMAIN << >> = {}
  OBVIOUS
<1>3. QED
  BY <1>1, <1>2, ProjectionAssumption DEF Columns

LEMMA SpanOrdered ==
    ASSUME Basics, Columns, NEW span, NEW S \in SUBSET DOMAIN log,
           Spans(span, S)
    PROVE  Ordered(span)
<1>1. /\ Len(log) \in Nat /\ MaxLog \in Nat /\ Len(log) <= MaxLog
      /\ \A m \in S : m \in 1..Len(log)
  BY ProjectionAssumption DEF Basics, Columns
<1>2. /\ \A m \in S : m \in Position /\ m <= Len(log)
      /\ \A m \in S : log[m].time \in Time
  <2>1. \A m \in S : log[m] \in Payload
    BY Times
  <2>2. QED
    BY <1>1, <2>1 DEF Position, Time
<1>3. /\ span.firstSeen \in Time /\ span.lastSeen \in Time
      /\ span.firstSequence \in Position /\ span.lastSequence \in Position
      /\ span.lastSequence <= Len(log)
  BY <1>2 DEF Spans
<1>4. span = [firstSeen |-> span.firstSeen, lastSeen |-> span.lastSeen,
              firstSequence |-> span.firstSequence,
              lastSequence |-> span.lastSequence]
  BY DEF Spans
<1>5. span \in Span
  BY <1>3, <1>4 DEF Span
<1>6. /\ span.firstSeen <= span.lastSeen
      /\ span.firstSequence <= span.lastSequence
  <2>1. PICK m \in S : span.firstSeen = log[m].time
    BY DEF Spans
  <2>2. QED
    BY <2>1 DEF Spans
<1>7. QED
  BY <1>3, <1>5, <1>6 DEF Ordered

LEMMA EntityColumns ==
    ASSUME Basics, TablesTrue, Columns PROVE EntityTypeOK
<1>1. ASSUME NEW id PROVE Mentions(id) \in SUBSET DOMAIN log
  BY MentionsIn
<1>2. \A id : Mentions(id) # {} => id \in DOMAIN entities
  BY DEF TablesTrue, EntitiesTrue
<1>3. ASSUME NEW id \in DOMAIN entities PROVE EntityRecord(entities[id])
  <2> DEFINE row == entities[id]
  <2>1. Shows(row, id) /\ Spans(row.span, Mentions(id))
    BY DEF TablesTrue, EntitiesTrue, RowTrue
  <2>2. PICK m \in Mentions(id) : row.claimed = << log[m].time, m >>
    BY <2>1 DEF Shows
  <2>3. /\ m \in Nat /\ log[m].time \in Nat
        /\ row.claimed[1] = log[m].time /\ row.claimed[2] = m
    BY <1>1, <2>2, Times
  <2>4. /\ row.span.firstSeen \in Nat /\ row.span.lastSeen \in Nat
        /\ row.span.firstSequence \in Nat /\ row.span.lastSequence \in Nat
        /\ row.span.firstSequence <= m /\ m <= row.span.lastSequence
        /\ row.span.firstSeen <= log[m].time /\ log[m].time <= row.span.lastSeen
    BY <2>1 DEF Spans
  <2>5. Ordered(row.span)
    BY <1>1, <2>1, SpanOrdered
  <2>6. row.type \in EntityType
    BY DEF Columns
  <2> HIDE DEF row
  <2>7. QED
    BY <2>3, <2>4, <2>5, <2>6 DEF EntityRecord, row
<1>4. ASSUME NEW row \in entityObservations PROVE EntityObservationRecord(row)
  <2>1. row.sequence \in Mentions(row.entity)
    BY DEF TablesTrue, LineageTrue
  <2>2. QED
    BY <1>1, <1>2, <2>1 DEF EntityObservationRecord, Columns
<1>5. ASSUME NEW k \in DOMAIN entityEvidence
      PROVE  EntityEvidenceRecord(k, entityEvidence[k])
  <2>1. /\ k = << k[1], k[2] >> /\ Evidencing(k[1], k[2]) # {}
        /\ Spans(entityEvidence[k], Evidencing(k[1], k[2]))
    BY DEF TablesTrue, EvidenceTrue
  <2>2. Evidencing(k[1], k[2]) \in SUBSET DOMAIN log
    BY <1>1 DEF Evidencing
  <2>3. Ordered(entityEvidence[k])
    BY <2>1, <2>2, SpanOrdered
  <2>4. PICK m \in DOMAIN log : m \in Mentions(k[1]) /\ k[2] \in log[m].evidence
    BY <2>1, <2>2 DEF Evidencing
  <2>5. QED
    BY <1>2, <2>3, <2>4 DEF EntityEvidenceRecord
<1>6. ASSUME NEW k \in DOMAIN identityClaims
      PROVE  EntityIdentityClaimRecord(k, identityClaims[k])
  <2>1. /\ k = << k[1], k[2] >> /\ Claiming(k[1], k[2]) # {}
        /\ Spans(identityClaims[k], Claiming(k[1], k[2]))
    BY DEF TablesTrue, ClaimsTrue
  <2>2. Claiming(k[1], k[2]) \in SUBSET DOMAIN log /\ Mentions(k[1]) # {}
    BY <1>1, <2>1 DEF Claiming
  <2>3. Ordered(identityClaims[k])
    BY <2>1, <2>2, SpanOrdered
  <2>4. QED
    BY <1>2, <2>2, <2>3 DEF EntityIdentityClaimRecord
<1>7. QED
  BY <1>3, <1>4, <1>5, <1>6 DEF EntityTypeOK

LEMMA EdgeTypes ==
    ASSUME NEW type \in RelationshipType, NEW source, NEW target,
           ValidEdge(type, source, target)
    PROVE  source \in EntityType /\ target \in EntityType
<1>1. \A t \in RelationshipType :
         SourceTypes[t] \subseteq EntityType /\ TargetTypes[t] \subseteq EntityType
  BY DEF RelationshipType, SourceTypes, TargetTypes, EntityType, Reachable,
         Service, Actor, Attackers
<1>2. QED
  BY <1>1 DEF ValidEdge

LEMMA GraphColumns ==
    ASSUME Ground, Graph, Columns PROVE GraphTypeOK
<1>1. ASSUME NEW id PROVE Positions(id) \in SUBSET DOMAIN log
  BY DEF Positions
<1>2. ASSUME NEW id \in DOMAIN relationships
      PROVE  RelationshipRecord(id, relationships[id])
  <2>1. RelationshipTrue(id)
    BY DEF Graph, RelationshipsTrue
  <2>2. Spans(relationships[id].span, Positions(id))
    BY <2>1 DEF RelationshipTrue
  <2>3. Ordered(relationships[id].span)
    BY <1>1, <2>2, SpanOrdered DEF Ground
  <2>4. Provenance(id)
    BY <2>1 DEF RelationshipTrue
  <2>5. /\ relationships[id].sourceType \in EntityType
        /\ relationships[id].targetType \in EntityType
        /\ relationships[id].confidence \in 0..100
    BY <2>1, <2>4, EdgeTypes DEF RelationshipTrue, Provenance
  <2>6. QED
    BY <2>3, <2>4, <2>5 DEF RelationshipRecord, Provenance
<1>3. ASSUME NEW row \in lineage PROVE RelationshipObservationRecord(row)
  <2>1. At(row.relationship, row.sequence)
    BY DEF Graph, LineageExact
  <2>2. row.sequence \in Positions(row.relationship)
    BY <2>1, AtWithin DEF Graph
  <2>3. QED
    BY <1>1, <2>2 DEF RelationshipObservationRecord, Graph, RelationshipsTrue
<1>4. ASSUME NEW k \in DOMAIN relationshipEvidence
      PROVE  RelationshipEvidenceRecord(k, relationshipEvidence[k])
  <2>1. PICK S \in SUBSET DOMAIN log : Spans(relationshipEvidence[k], S)
    BY DEF Graph, RelationshipEvidenceTrue
  <2>2. Ordered(relationshipEvidence[k])
    BY <2>1, SpanOrdered DEF Ground
  <2>3. QED
    BY <2>2 DEF Graph, RelationshipEvidenceTrue, RelationshipEvidenceRecord
<1>5. QED
  BY <1>2, <1>3, <1>4 DEF GraphTypeOK

LEMMA CorrelationColumns ==
    ASSUME Ground, Graph PROVE CorrelationTypeOK
<1> SUFFICES ASSUME NEW d \in derivations
             PROVE  /\ RelationshipDerivationRecord(d)
                    /\ \A s \in d.supports : RelationshipDerivationSupportRecord(d, s)
                    /\ \A e \in d.triggerEvidence \cup d.supportEvidence :
                          RelationshipDerivationEvidenceRecord(e)
  BY DEF CorrelationTypeOK
<1> DEFINE n == d.sequence
           rule == d.relationship.rule
<1>1. /\ n \in 1..checkpoint["correlation"] /\ n \in DOMAIN log
      /\ rule \in Ruleset
      /\ d.relationship.type = Rules[rule].type
      /\ d.triggerEvidence = log[n].evidence
      /\ d.supportEvidence = EvidenceOf(DerivationsBefore(n), d.supports, n)
      /\ \A id \in d.supports :
            /\ id.type = SupportType[rule]
            /\ \E m \in 1..(n - 1) : At(id, m)
      /\ At(d.relationship, n)
  BY Layers DEF Graph
<1>2. \A id, m : At(id, m) => id \in DOMAIN relationships
  BY AtWithin DEF Graph, RelationshipsTrue
<1>3. n \in Nat /\ \A m \in 1..(n - 1) : m \in DOMAIN log
  BY <1>1, Counts
<1> HIDE DEF n, rule
<1>4. RelationshipDerivationRecord(d)
  BY <1>1, <1>2 DEF RelationshipDerivationRecord, n, rule
<1>5. ASSUME NEW s \in d.supports PROVE RelationshipDerivationSupportRecord(d, s)
  <2>1. s.type = SupportType[rule] /\ d.relationship.type = Rules[rule].type
    BY <1>1
  <2>2. SupportType[rule] # Rules[rule].type
    BY <1>1, RuleNames DEF SupportType, Rules
  <2>3. s \in DOMAIN relationships
    BY <1>1, <1>2
  <2>4. QED
    BY <2>1, <2>2, <2>3 DEF RelationshipDerivationSupportRecord
<1>6. ASSUME NEW e \in d.triggerEvidence \cup d.supportEvidence
      PROVE  RelationshipDerivationEvidenceRecord(e)
  <2>1. CASE e \in d.triggerEvidence
    BY <1>1, <2>1 DEF RelationshipDerivationEvidenceRecord
  <2>2. CASE e \in d.supportEvidence
    <3>1. PICK m \in UNION {KnownAt(DerivationsBefore(n), id, n) : id \in d.supports} :
              e \in log[m].evidence
      BY <1>1, <2>2 DEF EvidenceOf
    <3>2. m \in 1..(n - 1)
      BY <3>1 DEF KnownAt
    <3>3. QED
      BY <1>3, <3>1, <3>2 DEF RelationshipDerivationEvidenceRecord
  <2>3. QED
    BY <2>1, <2>2
<1>7. QED
  BY <1>4, <1>5, <1>6

-----------------------------------------------------------------------------
(* What follows from a root.  Rules build on each other in two layers, so  *)
(* that the breadth-first search of the planner ends after two rounds.     *)

LEMMA FiniteDerivations ==
    ASSUME Ground, Graph PROVE IsFiniteSet(derivations)
<1> DEFINE c == checkpoint["correlation"]
           S == (1..c) \X Ruleset
           f == [p \in S |-> DerivedBy(DerivationsBefore(p[1]), p[2], p[1])]
           T == {f[p] : p \in S}
<1>1. IsFiniteSet(1..c)
  <2>1. c \in Int /\ 1 \in Int
    BY Counts
  <2> HIDE DEF c
  <2>2. QED
    BY <2>1, FS_Interval
<1>2. IsFiniteSet(Ruleset)
  <2>1. IsFiniteSet({"COR_SEQ_001"} \cup {"COR_SEQ_002"} \cup {"COR_SEQ_003"})
    BY FS_Singleton, FS_Union
  <2>2. Ruleset \in SUBSET ({"COR_SEQ_001"} \cup {"COR_SEQ_002"} \cup {"COR_SEQ_003"})
    BY RulesetAssumption DEF Rules
  <2>3. QED
    BY <2>1, <2>2, FS_Subset
<1>3. IsFiniteSet(S)
  BY <1>1, <1>2, FS_Product
<1>4. f \in Surjection(S, T)
  BY DEF Surjection
<1>5. IsFiniteSet(T)
  BY <1>3, <1>4, FS_Surjection
<1>6. derivations \subseteq T
  <2>1. ASSUME NEW d \in derivations PROVE d \in T
    <3>1. /\ d.sequence \in 1..c /\ d.relationship.rule \in Ruleset
          /\ d = DerivedBy(DerivationsBefore(d.sequence), d.relationship.rule,
                           d.sequence)
      BY Layers DEF Graph
    <3> DEFINE p == << d.sequence, d.relationship.rule >>
    <3>2. p \in S /\ p[1] = d.sequence /\ p[2] = d.relationship.rule
      BY <3>1
    <3>3. f[p] = d
      BY <3>1, <3>2
    <3>4. QED
      BY <3>2, <3>3
  <2>2. QED
    BY <2>1
<1> HIDE DEF T
<1>7. QED
  BY <1>5, <1>6, FS_Subset

\* The compromises that a root supports, and the moves that these support.
FirstLayer(root, b) ==
    {d \in DerivationsOf({"COR_SEQ_002"}, b) : root \in d.supports}

SecondLayer(root, b) ==
    {d \in DerivationsOf({"COR_SEQ_003"}, b) :
        \E c \in FirstLayer(root, b) : c.relationship \in d.supports}

Joins(root, b) == FirstLayer(root, b) \cup SecondLayer(root, b)

RelationshipsOf(ds) == {d.relationship : d \in ds}

LEMMA LayerTypes ==
    ASSUME Ground, Graph, NEW d \in derivations
    PROVE  /\ d.relationship.rule \in {"COR_SEQ_001", "COR_SEQ_002", "COR_SEQ_003"}
           /\ d.relationship.rule = "COR_SEQ_001" =>
                 /\ d.relationship.type = "exploited"
                 /\ \A s \in d.supports : s.type = "has_vulnerability"
           /\ d.relationship.rule = "COR_SEQ_002" =>
                 /\ d.relationship.type = "compromised"
                 /\ \A s \in d.supports : s.type = "exploited"
           /\ d.relationship.rule = "COR_SEQ_003" =>
                 /\ d.relationship.type = "moved_laterally_to"
                 /\ \A s \in d.supports : s.type = "compromised"
           /\ d.supports # {}
<1>1. /\ d.relationship.rule \in Ruleset
      /\ d.relationship.type = Rules[d.relationship.rule].type
      /\ \A s \in d.supports : s.type = SupportType[d.relationship.rule]
      /\ d.supports # {}
  BY Layers DEF Graph
<1>2. QED
  BY <1>1, RuleNames DEF SupportType

LEMMA Rounds ==
    ASSUME Ground, Graph, NEW b, NEW root \in Roots(b)
    PROVE  LET first == RelationshipsOf(FirstLayer(root, b))
               all == RelationshipsOf(Joins(root, b))
           IN  /\ ReverseDerivations({root}, b) = FirstLayer(root, b)
               /\ ReverseDerivations({root} \cup first, b) = Joins(root, b)
               /\ ReverseDerivations({root} \cup all, b) = Joins(root, b)
<1> DEFINE first == RelationshipsOf(FirstLayer(root, b))
           second == RelationshipsOf(SecondLayer(root, b))
<1>1. root.type = "exploited"
  <2>1. PICK d \in DerivationsOf({"COR_SEQ_001"}, b) : d.relationship = root
    BY DEF Roots
  <2>2. d \in derivations /\ d.relationship.rule = "COR_SEQ_001"
    BY DEF DerivationsOf
  <2>3. QED
    BY <2>1, <2>2, LayerTypes
<1>2. \A id \in first : id.type = "compromised"
  BY LayerTypes DEF FirstLayer, DerivationsOf, RelationshipsOf
<1>3. \A id \in second : id.type = "moved_laterally_to"
  BY LayerTypes DEF SecondLayer, DerivationsOf, RelationshipsOf
<1>4. \A d \in derivations : d.relationship.rule = "COR_SEQ_002" =>
         \A s \in d.supports : s.type = "exploited"
  BY LayerTypes
<1>5. \A d \in derivations : d.relationship.rule = "COR_SEQ_003" =>
         \A s \in d.supports : s.type = "compromised"
  BY LayerTypes
<1>6. ASSUME NEW R, root \in R,
             \A id \in R : id = root \/ id \in first \/ id \in second
      PROVE  \A d \in ReverseDerivations(R, b) :
                \/ d \in FirstLayer(root, b)
                \/ (d \in DerivationsOf({"COR_SEQ_003"}, b)
                       /\ \E id \in R : id \in first /\ id \in d.supports)
  <2> SUFFICES ASSUME NEW d \in ReverseDerivations(R, b)
               PROVE  \/ d \in FirstLayer(root, b)
                      \/ (d \in DerivationsOf({"COR_SEQ_003"}, b)
                            /\ \E id \in R : id \in first /\ id \in d.supports)
    OBVIOUS
  <2>1. /\ d \in derivations /\ d.sequence <= b
        /\ d.relationship.rule \in {"COR_SEQ_002", "COR_SEQ_003"}
        /\ d.supports \cap R # {}
    BY DEF ReverseDerivations, DerivationsOf, JoiningRules
  <2>2. PICK id \in R : id \in d.supports
    BY <2>1
  <2>3. CASE d.relationship.rule = "COR_SEQ_002"
    <3>1. id.type = "exploited"
      BY <1>4, <2>1, <2>2, <2>3
    <3>2. id = root
      BY <1>2, <1>3, <1>6, <3>1
    <3>3. QED
      BY <2>1, <2>2, <2>3, <3>2 DEF FirstLayer, DerivationsOf
  <2>4. CASE d.relationship.rule = "COR_SEQ_003"
    <3>1. id.type = "compromised"
      BY <1>5, <2>1, <2>2, <2>4
    <3>2. id \in first
      BY <1>1, <1>3, <1>6, <3>1
    <3>3. QED
      BY <2>1, <2>2, <2>4, <3>2 DEF DerivationsOf
  <2>5. QED
    BY <2>1, <2>3, <2>4
<1>7. /\ \A d \in FirstLayer(root, b) :
            /\ d \in DerivationsOf(JoiningRules, b) /\ root \in d.supports
      /\ \A d \in SecondLayer(root, b) :
            /\ d \in DerivationsOf(JoiningRules, b)
            /\ \E id \in first : id \in d.supports
  BY DEF FirstLayer, SecondLayer, DerivationsOf, JoiningRules, RelationshipsOf
<1>8. \A d \in DerivationsOf({"COR_SEQ_003"}, b) :
         (\E id \in first : id \in d.supports) => d \in SecondLayer(root, b)
  BY DEF SecondLayer, RelationshipsOf
<1>9. RelationshipsOf(Joins(root, b)) = first \cup second
  BY DEF Joins, RelationshipsOf
<1> HIDE DEF first, second
<1>10. ReverseDerivations({root}, b) = FirstLayer(root, b)
  <2>1. root \notin first
    BY <1>1, <1>2
  <2>2. \A d \in ReverseDerivations({root}, b) : d \in FirstLayer(root, b)
    BY <1>6, <2>1
  <2>3. \A d \in FirstLayer(root, b) : d \in ReverseDerivations({root}, b)
    BY <1>7 DEF ReverseDerivations
  <2>4. QED
    BY <2>2, <2>3
<1>11. ASSUME NEW R, root \in R, first \subseteq R,
              \A id \in R : id = root \/ id \in first \/ id \in second
       PROVE  ReverseDerivations(R, b) = Joins(root, b)
  <2>1. \A d \in ReverseDerivations(R, b) : d \in Joins(root, b)
    BY <1>6, <1>8, <1>11 DEF Joins
  <2>2. \A d \in Joins(root, b) : d \in ReverseDerivations(R, b)
    BY <1>7, <1>11 DEF Joins, ReverseDerivations
  <2>3. QED
    BY <2>1, <2>2
<1>12. /\ ReverseDerivations({root} \cup first, b) = Joins(root, b)
       /\ ReverseDerivations({root} \cup (first \cup second), b) = Joins(root, b)
  BY <1>11
<1>13. QED
  BY <1>9, <1>10, <1>12 DEF first

LEMMA JoinedIs ==
    ASSUME Ground, Graph, NEW b, NEW root \in Roots(b)
    PROVE  JoinedDerivations(root, b) = Joins(root, b)
<1> DEFINE first == RelationshipsOf(FirstLayer(root, b))
           all == RelationshipsOf(Joins(root, b))
           IsQueue(f) == f = [k \in Nat |->
                           IF k = 0 THEN {root}
                           ELSE f[k - 1] \cup
                                {d.relationship : d \in ReverseDerivations(f[k - 1], b)}]
           queue == CHOOSE f : IsQueue(f)
           g == [k \in Nat |-> IF k = 0 THEN {root}
                               ELSE IF k = 1 THEN {root} \cup first
                               ELSE {root} \cup all]
<1>1. /\ ReverseDerivations({root}, b) = FirstLayer(root, b)
      /\ ReverseDerivations({root} \cup first, b) = Joins(root, b)
      /\ ReverseDerivations({root} \cup all, b) = Joins(root, b)
  BY Rounds
<1>2. first \subseteq all
  BY DEF Joins, RelationshipsOf
<1>3. ASSUME NEW S PROVE {d.relationship : d \in S} = RelationshipsOf(S)
  BY DEF RelationshipsOf
<1>4. IsQueue(g)
  <2>1. ASSUME NEW k \in Nat
        PROVE  g[k] = IF k = 0 THEN {root}
                      ELSE g[k - 1] \cup
                           {d.relationship : d \in ReverseDerivations(g[k - 1], b)}
    <3> HIDE DEF first, all
    <3>1. CASE k = 0
      BY <3>1
    <3>2. CASE k = 1
      <4>1. g[k] = {root} \cup first /\ k - 1 = 0 /\ g[0] = {root}
        BY <3>2
      <4> HIDE DEF g
      <4>2. g[k - 1] = {root}
        BY <4>1
      <4>3. {d.relationship : d \in ReverseDerivations(g[k - 1], b)} = first
        BY <1>1, <1>3, <4>2 DEF first
      <4>4. QED
        BY <3>2, <4>1, <4>2, <4>3
    <3>3. CASE k # 0 /\ k # 1
      <4>1. /\ g[k] = {root} \cup all /\ k - 1 \in Nat /\ k - 1 # 0
            /\ k - 1 = 1 => g[k - 1] = {root} \cup first
            /\ k - 1 # 1 => g[k - 1] = {root} \cup all
        BY <3>3
      <4> HIDE DEF g
      <4>2. {d.relationship : d \in ReverseDerivations(g[k - 1], b)} = all
        BY <1>1, <1>3, <4>1 DEF all
      <4>3. g[k - 1] \cup all = {root} \cup all
        BY <1>2, <4>1
      <4>4. QED
        BY <3>3, <4>1, <4>2, <4>3
    <3>4. QED
      BY <3>1, <3>2, <3>3
  <2>2. g = [k \in Nat |-> g[k]]
    OBVIOUS
  <2> HIDE DEF g
  <2>3. QED
    BY <2>1, <2>2
<1>5. IsQueue(queue)
  BY <1>4
<1> DEFINE S == {k \in Nat : queue[k] = g[k]}
<1> HIDE DEF queue, g
<1>6. /\ \A k \in Nat : queue[k] = IF k = 0 THEN {root}
                   ELSE queue[k - 1] \cup
                        {d.relationship : d \in ReverseDerivations(queue[k - 1], b)}
      /\ \A k \in Nat : g[k] = IF k = 0 THEN {root}
                   ELSE g[k - 1] \cup
                        {d.relationship : d \in ReverseDerivations(g[k - 1], b)}
  BY <1>4, <1>5
<1>7. 0 \in S
  BY <1>6
<1>8. ASSUME NEW k \in Nat, k \in S PROVE k + 1 \in S
  <2>1. k + 1 \in Nat /\ k + 1 # 0 /\ (k + 1) - 1 = k
    OBVIOUS
  <2>2. queue[k] = g[k]
    BY <1>8
  <2>3. /\ queue[k + 1] = queue[k] \cup
                 {d.relationship : d \in ReverseDerivations(queue[k], b)}
        /\ g[k + 1] = g[k] \cup
                 {d.relationship : d \in ReverseDerivations(g[k], b)}
    <3> DEFINE m == k + 1
    <3>1. m \in Nat /\ m # 0 /\ m - 1 = k
      BY <2>1
    <3> HIDE DEF m
    <3>2. /\ queue[m] = queue[m - 1] \cup
                 {d.relationship : d \in ReverseDerivations(queue[m - 1], b)}
          /\ g[m] = g[m - 1] \cup
                 {d.relationship : d \in ReverseDerivations(g[m - 1], b)}
      BY <1>6, <3>1
    <3>3. QED
      BY <3>1, <3>2 DEF m
  <2>4. queue[k + 1] = g[k + 1]
    BY <2>2, <2>3
  <2>5. QED
    BY <2>1, <2>4
<1> HIDE DEF S
<1>9. Nat \subseteq S
  BY <1>7, <1>8, Induction
<1>10. Cardinality(derivations) \in Nat /\ Cardinality(derivations) # 0
  <2>1. derivations # {}
    BY DEF Roots, DerivationsOf
  <2>2. QED
    BY <2>1, FiniteDerivations, FS_CardinalityType, FS_EmptySet
<1>11. Reached(root, b) = queue[Cardinality(derivations)]
  BY DEF Reached, queue
<1>12. Reached(root, b) = g[Cardinality(derivations)]
  BY <1>9, <1>10, <1>11 DEF S
<1>13. Reached(root, b) = {root} \cup first \/ Reached(root, b) = {root} \cup all
  BY <1>10, <1>12 DEF g
<1>14. QED
  BY <1>1, <1>13 DEF JoinedDerivations

LEMMA FollowsFromIs ==
    ASSUME Ground, Graph, NEW b, NEW root \in Roots(b)
    PROVE  FollowsFrom(root, b) = RelationshipsOf(Joins(root, b))
<1> DEFINE joining == DerivationsOf(JoiningRules, b)
           J == {d.relationship : d \in joining}
           Closed(S) == \A d \in joining : d.supports \cap (S \cup {root}) # {}
                                              => d.relationship \in S
           closed == {S \in SUBSET J : Closed(S)}
           all == RelationshipsOf(Joins(root, b))
<1>1. FollowsFrom(root, b) = {id \in UNION closed : \A S \in closed : id \in S}
  BY DEF FollowsFrom
<1>2. \A R : ReverseDerivations(R, b) = {d \in joining : d.supports \cap R # {}}
  BY DEF ReverseDerivations
<1>3. J \in closed
  OBVIOUS
<1>4. all \in closed
  <2>1. all \subseteq J
    BY DEF RelationshipsOf, Joins, FirstLayer, SecondLayer, DerivationsOf, JoiningRules
  <2>2. ASSUME NEW d \in joining, d.supports \cap (all \cup {root}) # {}
        PROVE  d.relationship \in all
    <3>1. d \in ReverseDerivations({root} \cup all, b)
      BY <1>2, <2>2
    <3>2. d \in Joins(root, b)
      BY <3>1, Rounds
    <3>3. QED
      BY <3>2 DEF RelationshipsOf
  <2>3. QED
    BY <2>1, <2>2
<1>5. ASSUME NEW S \in closed PROVE all \subseteq S
  <2>1. Closed(S)
    OBVIOUS
  <2>2. ASSUME NEW d \in FirstLayer(root, b) PROVE d.relationship \in S
    <3>1. d \in joining /\ root \in d.supports
      BY DEF FirstLayer, DerivationsOf, JoiningRules
    <3>2. QED
      BY <2>1, <3>1
  <2>3. ASSUME NEW d \in SecondLayer(root, b) PROVE d.relationship \in S
    <3>1. PICK c \in FirstLayer(root, b) : c.relationship \in d.supports
      BY DEF SecondLayer
    <3>2. d \in joining
      BY DEF SecondLayer, DerivationsOf, JoiningRules
    <3>3. c.relationship \in S
      BY <2>2
    <3>4. QED
      BY <2>1, <3>1, <3>2, <3>3
  <2>4. QED
    BY <2>2, <2>3 DEF RelationshipsOf, Joins
<1> HIDE DEF all, closed
<1>6. QED
  BY <1>1, <1>4, <1>5 DEF all

-----------------------------------------------------------------------------
(* What a step adds to the log, to the lineage and to the derivations lies *)
(* beyond everything scenes have read.                                     *)

Added ==
    /\ \A m \in DOMAIN log : m \in DOMAIN log' /\ log'[m] = log[m]
    /\ derivations \subseteq derivations'
    /\ \A d \in derivations' :
          \/ d \in derivations
          \/ (d.sequence \in Nat /\ d.sequence > checkpoint["correlation"])
    /\ lineage \subseteq lineage'
    /\ \A row \in lineage' :
          \/ row \in lineage
          \/ (row.sequence \in Nat /\ row.sequence > checkpoint["correlation"])

LEMMA PrefixKept == Pipeline /\ [Next]_vars => Added
<1> SUFFICES ASSUME Pipeline, [Next]_vars PROVE Added
  OBVIOUS
<1>1. /\ checkpoint["correlation"] \in Nat /\ checkpoint["relationship"] \in Nat
      /\ checkpoint["correlation"] <= checkpoint["relationship"]
  BY Counts DEF Pipeline
<1>2. CASE GraphElsewhere
  BY <1>2 DEF GraphElsewhere, graphTables, Added
<1>3. ASSUME NEW edges, NEW n \in Nat, n > checkpoint["correlation"],
             lineage' = LineageAfter(edges, n)
      PROVE  /\ lineage \subseteq lineage'
             /\ \A row \in lineage' :
                   \/ row \in lineage
                   \/ (row.sequence \in Nat /\ row.sequence > checkpoint["correlation"])
  BY <1>3 DEF LineageAfter
<1>4. CASE ProjectRelationship /\ UNCHANGED derivations
  <2> DEFINE n == NextItem("relationship")
  <2>1. lineage' = LineageAfter(Direct(log[n]), n) /\ log' = log
    BY <1>4 DEF ProjectRelationship, Processed
  <2>2. n \in Nat /\ n > checkpoint["correlation"]
    BY <1>1 DEF NextItem
  <2> HIDE DEF n
  <2>3. QED
    BY <1>3, <1>4, <2>1, <2>2 DEF Added
<1>5. CASE Correlate
  <2> DEFINE n == NextItem("correlation")
             candidates == Candidates(n)
             edges == {c.edge : c \in candidates}
  <2>1. /\ lineage' = LineageAfter(edges, n) /\ log' = log
        /\ derivations' = derivations \cup {Derivation(c, n) : c \in candidates}
    BY <1>5 DEF Correlate, Processed
  <2>2. n \in Nat /\ n > checkpoint["correlation"]
    BY <1>1 DEF NextItem
  <2> HIDE DEF n, candidates
  <2>3. \A c \in candidates : Derivation(c, n).sequence = n
    BY DEF Derivation
  <2>4. /\ derivations \subseteq derivations'
        /\ \A d \in derivations' :
              \/ d \in derivations
          \/ (d.sequence \in Nat /\ d.sequence > checkpoint["correlation"])
    BY <2>1, <2>2, <2>3
  <2> HIDE DEF edges
  <2>5. QED
    BY <1>3, <2>1, <2>2, <2>4 DEF Added
<1>6. Basics
  BY DEF Pipeline, Ground
<1>7. CASE RunRelationship
  <2>1. /\ ProjectRelationship \/ PoisonRelationship
        /\ UNCHANGED derivations
    BY <1>7 DEF RunRelationship
  <2>2. QED
    BY <1>2, <1>4, <1>6, <2>1, OthersKeepGraph
<1>8. CASE RunEntity \/ RunScene \/ UNCHANGED vars
  BY <1>2, <1>6, <1>8, OthersKeepGraph
<1>9. CASE \E o \in Payload : AppendObservation(o)
  BY <1>2, <1>6, <1>9, OthersKeepGraph
<1>10. QED
  BY <1>5, <1>7, <1>8, <1>9 DEF Next, RunCorrelation

-----------------------------------------------------------------------------
(* Spans of sets of positions.                                             *)

LEMMA SpanExists ==
    ASSUME Basics, NEW S \in SUBSET DOMAIN log, S # {}
    PROVE  \E span : Spans(span, S)
<1> DEFINE Below(N) == {m \in S : m <= N}
           T == {N \in Nat : Below(N) = {} \/ \E span : Spans(span, Below(N))}
<1>1. Len(log) \in Nat /\ DOMAIN log = 1..Len(log)
  BY DEF Basics
<1>2. 0 \in T
  <2>1. Below(0) = {}
    BY <1>1
  <2>2. QED
    BY <2>1
<1>3. ASSUME NEW N \in Nat, N \in T PROVE N + 1 \in T
  <2>1. CASE N + 1 \notin S
    <3>1. Below(N + 1) = Below(N)
      BY <1>1, <2>1
    <3>2. QED
      BY <1>3, <3>1
  <2>2. CASE N + 1 \in S
    <3>1. Below(N + 1) = Below(N) \cup {N + 1}
      BY <1>1, <2>2
    <3>2. Below(N) \in SUBSET DOMAIN log /\ N + 1 \in DOMAIN log
      BY <2>2
    <3>3. CASE Below(N) = {}
      <4>1. Below(N + 1) = {N + 1}
        BY <3>1, <3>3
      <4>2. Spans(SpanAt(N + 1), {N + 1})
        BY <3>2, NewSpan
      <4>3. QED
        BY <4>1, <4>2
    <3>4. CASE \E span : Spans(span, Below(N))
      <4>1. PICK span : Spans(span, Below(N))
        BY <3>4
      <4> HIDE DEF Below
      <4>2. Spans(Widened(span, N + 1), Below(N) \cup {N + 1})
        BY <3>2, <4>1, WiderSpan
      <4>3. QED
        BY <3>1, <4>2, SMTT(30)
    <3>5. QED
      BY <1>3, <3>3, <3>4
  <2>3. QED
    BY <2>1, <2>2
<1> HIDE DEF T
<1>4. Nat \subseteq T
  BY <1>2, <1>3, Induction
<1>5. Len(log) \in T
  BY <1>1, <1>4
<1>6. Below(Len(log)) = S
  BY <1>1
<1> HIDE DEF Below
<1>7. QED
  BY <1>5, <1>6 DEF T

LEMMA SpanOverIs ==
    ASSUME Basics, NEW S \in SUBSET DOMAIN log, S # {}
    PROVE  Spans(SpanOver(S), S)
<1>1. PICK span : Spans(span, S)
  BY SpanExists
<1>2. span = SpanOver(S)
  BY <1>1, SpanIsOver
<1>3. QED
  BY <1>1, <1>2

-----------------------------------------------------------------------------
(* Plans.                                                                  *)

MembersOf(root, b) ==
    ({root} \cup SupportedBy(root, b)) \cup RelationshipsOf(Joins(root, b))

PositionsOf(ids, b) == UNION {Lineage(id, b) : id \in ids}

HavingEnd(ids, e) == {id \in ids : e \in Ends(id)}

\* What the planner plans, without its search.
StateOf(root, b) == IF FirstLayer(root, b) = {} THEN "observed" ELSE "confirmed"

TransitionsOf(root, b) ==
    {Transition("potential", "observed", FirstTrigger(RootDerivations(root, b)))}
    \cup IF FirstLayer(root, b) = {} THEN {}
         ELSE {Transition("observed", "confirmed",
                          FirstTrigger(FirstLayer(root, b)))}

MemberSpans(root, b) ==
    [id \in MembersOf(root, b) |-> SpanOver(Lineage(id, b))]

EndSpans(root, b) ==
    [e \in UNION {Ends(id) : id \in MembersOf(root, b)} |->
        SpanOver(PositionsOf(HavingEnd(MembersOf(root, b), e), b))]

PlanOf(root, b) ==
    [state |-> StateOf(root, b),
     span |-> SpanOver(PositionsOf(MembersOf(root, b), b)),
     relationships |-> MemberSpans(root, b),
     entities |-> EndSpans(root, b),
     observations |-> PositionsOf(MembersOf(root, b), b),
     transitions |-> TransitionsOf(root, b)]

LEMMA PlanIs ==
    ASSUME Ground, Graph, NEW b, NEW root \in Roots(b)
    PROVE  Plan(root, b) = PlanOf(root, b) /\ Members(root, b) = MembersOf(root, b)
<1>1. JoinedDerivations(root, b) = Joins(root, b)
  BY JoinedIs
<1>2. Members(root, b) = MembersOf(root, b)
  BY <1>1 DEF Members, MembersOf, SupportedBy, RelationshipsOf
<1>3. CompromisesOf(root, b) = FirstLayer(root, b)
  <2>1. \A d \in FirstLayer(root, b) : d.relationship.rule = "COR_SEQ_002"
    BY DEF FirstLayer, DerivationsOf
  <2>2. \A d \in SecondLayer(root, b) : d.relationship.rule # "COR_SEQ_002"
    BY DEF SecondLayer, DerivationsOf
  <2>3. QED
    BY <1>1, <2>1, <2>2 DEF CompromisesOf, Joins
<1>4. QED
  BY <1>2, <1>3 DEF Plan, PlanOf, PositionsOf, HavingEnd, StateOf, TransitionsOf,
     MemberSpans, EndSpans

LEMMA LineageIs ==
    ASSUME Ground, Graph, NEW b \in Nat, b <= checkpoint["correlation"], NEW id
    PROVE  /\ Lineage(id, b) = {m \in 1..b : At(id, m)}
           /\ Lineage(id, b) = KnownAt(derivations, id, b + 1)
           /\ Lineage(id, b) \in SUBSET DOMAIN log
           /\ Lineage(id, b) \in SUBSET Positions(id)
           /\ \A m \in Lineage(id, b) : m \in 1..b
<1>1. /\ b + 1 \in Nat /\ b + 1 <= checkpoint["correlation"] + 1
      /\ (b + 1) - 1 = b
  BY Counts
<1>2. \A m : At(id, m) => m \in Nat /\ m >= 1 /\ m \in Positions(id)
  <2>1. ASSUME NEW m, At(id, m) PROVE m \in Nat /\ m >= 1 /\ m \in Positions(id)
    <3>1. m \in Nat /\ m \in 1..checkpoint["relationship"] /\ m \in Positions(id)
      BY <2>1, AtWithin DEF Graph
    <3>2. QED
      BY <3>1, Counts
  <2>2. QED
    BY <2>1
<1>3. ASSUME NEW m \in Lineage(id, b) PROVE m \in 1..b /\ At(id, m)
  <2>1. PICK row \in lineage :
           row.relationship = id /\ row.sequence <= b /\ m = row.sequence
    BY DEF Lineage
  <2>2. At(id, m)
    BY <2>1 DEF Graph, LineageExact
  <2>3. QED
    BY <1>2, <2>1, <2>2
<1>4. ASSUME NEW m \in 1..b, At(id, m) PROVE m \in Lineage(id, b)
  <2> DEFINE row == [relationship |-> id, sequence |-> m]
  <2>1. row \in lineage /\ m <= b
    BY <1>4 DEF Graph, LineageExact
  <2>2. row.relationship = id /\ row.sequence = m
    OBVIOUS
  <2> HIDE DEF row
  <2>3. QED
    BY <2>1, <2>2 DEF Lineage
<1>5. Lineage(id, b) = {m \in 1..b : At(id, m)}
  BY <1>3, <1>4
<1>6. KnownAt(derivations, id, b + 1) = {m \in 1..b : At(id, m)}
  BY <1>1, KnownIs DEF Graph
<1>7. Lineage(id, b) \in SUBSET Positions(id)
  BY <1>2, <1>3
<1>8. QED
  BY <1>3, <1>5, <1>6, <1>7 DEF Positions

\* The ends of what is known are entities, once these have been projected.
LEMMA EndsKnown ==
    ASSUME Pipeline, NEW id, NEW m, At(id, m), m <= checkpoint["entity"],
           m <= checkpoint["correlation"]
    PROVE  Ends(id) \subseteq DOMAIN entities
<1>0. Ground /\ Graph /\ TablesTrue
  BY DEF Pipeline
<1>1. ASSUME NEW k \in Nat, k >= 1, k <= checkpoint["entity"], NEW e \in EntityIds(log[k])
      PROVE  e \in DOMAIN entities
  <2>1. k \in Mentions(e)
    BY <1>0, <1>1, Counts DEF Mentions
  <2>2. QED
    BY <1>0, <2>1 DEF TablesTrue, EntitiesTrue
<1>2. ASSUME NEW k \in DOMAIN log
      PROVE  /\ log[k].subject.id \in EntityIds(log[k])
             /\ \A t \in log[k].object : t.id \in EntityIds(log[k])
  BY DEF EntityIds, References
<1>3. ASSUME NEW i, NEW k, At(i, k), k <= checkpoint["entity"]
      PROVE  /\ i.target \in DOMAIN entities
             /\ i.rule # "COR_SEQ_002" => i.source \in DOMAIN entities
             /\ k \in Nat /\ k \in DOMAIN log
  <2>1. k \in Nat /\ k \in DOMAIN log /\ k >= 1 /\ k \in Positions(i)
    <3>1. k \in Nat /\ k \in DOMAIN log /\ k \in 1..checkpoint["relationship"]
          /\ k \in Positions(i)
      BY <1>0, <1>3, AtWithin DEF Graph
    <3>2. QED
      BY <1>0, <3>1, Counts
  <2>2. EndsAt(i, relationships[i].sourceType, relationships[i].targetType, k)
    BY <1>0, <2>1 DEF Graph, RelationshipsTrue, RelationshipTrue
  <2>3. /\ \E t \in log[k].object : t.id = i.target
        /\ i.rule # "COR_SEQ_002" => i.source = log[k].subject.id
    BY <2>2 DEF EndsAt
  <2>4. i.target \in EntityIds(log[k])
    BY <1>2, <2>1, <2>3
  <2>5. i.rule # "COR_SEQ_002" => i.source \in EntityIds(log[k])
    BY <1>2, <2>1, <2>3
  <2>6. QED
    BY <1>1, <1>3, <2>1, <2>4, <2>5
<1>4. ASSUME id.rule = "COR_SEQ_002" PROVE id.source \in DOMAIN entities
  <2>1. m \in DOMAIN log /\ m \in Positions(id) /\ m \in Nat /\ log[m] \in Payload
    BY <1>0, <1>3, AtWithin, Times DEF Graph, Ground
  <2>2. Provenance(id)
    BY <1>0, <2>1 DEF Graph, RelationshipsTrue, RelationshipTrue
  <2>3. id.provenance = "deterministic"
    BY <1>4, <2>2 DEF Provenance
  <2>4. PICK d \in derivations : d.relationship = id /\ d.sequence = m
    BY <1>0, <2>3, AtKind DEF Graph
  <2> DEFINE before == DerivationsBefore(m)
             rule == "COR_SEQ_002"
  <2>5. /\ d = DerivedBy(before, rule, m) /\ rule \in Ruleset
        /\ SupportsAt(before, rule, m) # {}
        /\ d.supports = SupportsAt(before, rule, m)
        /\ \A s \in d.supports :
              /\ Supports(rule, log[m], s)
              /\ \E k \in 1..(m - 1) : At(s, k)
    BY <1>0, <1>4, <2>4, Layers DEF Graph
  <2> HIDE DEF before
  <2>6. id.source \in log[m].attack_source
    BY <2>1, <2>4, <2>5, DerivedFields
  <2>7. PICK s \in d.supports : Supports(rule, log[m], s)
    BY <2>5
  <2>8. s.type = "exploited" /\ s.source \in log[m].attack_source
    BY <2>7 DEF Supports
  <2>9. s.source = id.source
    BY <2>1, <2>6, <2>8, Schema
  <2>10. PICK k \in 1..(m - 1) : At(s, k)
    BY <2>5
  <2>11. k <= checkpoint["entity"]
    BY <1>0, <2>1, <2>10, Counts
  <2>12. s.rule # "COR_SEQ_002"
    <3>1. CASE \E c \in derivations : c.relationship = s /\ c.sequence = k
      <4>1. PICK c \in derivations : c.relationship = s
        BY <3>1
      <4>2. s.rule = "COR_SEQ_002" => s.type = "compromised"
        BY <1>0, <4>1, LayerTypes
      <4>3. QED
        BY <2>8, <4>2
    <3>2. CASE k \in 1..checkpoint["relationship"] /\ \E e \in Direct(log[k]) : e.id = s
      <4>1. k \in DOMAIN log
        BY <1>0, <2>10, AtWithin DEF Graph
      <4>2. log[k] \in Payload
        BY <1>0, <4>1, Times DEF Ground
      <4>3. s.rule = "none"
        BY <3>2, <4>2, DirectEdge
      <4>4. QED
        BY <4>3
    <3>3. QED
      BY <2>10, <3>1, <3>2 DEF At
  <2>13. QED
    BY <1>3, <2>9, <2>10, <2>11, <2>12
<1>5. QED
  BY <1>3, <1>4 DEF Ends

LEMMA RootsAre ==
    ASSUME Ground, Graph, NEW b \in Nat, NEW root \in Roots(b)
    PROVE  /\ RootDerivations(root, b) # {}
           /\ \A d \in RootDerivations(root, b) :
                 /\ d \in derivations /\ d.relationship = root
                 /\ d.relationship.rule = "COR_SEQ_001" /\ d.sequence <= b
           /\ root.rule = "COR_SEQ_001" /\ root.provenance = "deterministic"
<1>1. PICK d \in DerivationsOf({"COR_SEQ_001"}, b) : d.relationship = root
  BY DEF Roots
<1>2. d \in derivations /\ d.relationship.rule = "COR_SEQ_001"
  BY DEF DerivationsOf
<1>3. d.relationship.provenance = "deterministic"
  BY <1>2, Layers DEF Graph
<1>4. QED
  BY <1>1, <1>2, <1>3 DEF RootDerivations, DerivationsOf

\* Whatever the planner has found was known by the boundary.
LEMMA MembersKnown ==
    ASSUME Ground, Graph, NEW b \in Nat, b <= checkpoint["correlation"],
           NEW root \in Roots(b), NEW id \in MembersOf(root, b)
    PROVE  Lineage(id, b) # {} /\ id \in DOMAIN relationships
<1>1. ASSUME NEW d \in derivations, d.sequence <= b
      PROVE  /\ d.sequence \in 1..b /\ At(d.relationship, d.sequence)
             /\ \A s \in d.supports : \E m \in 1..b : At(s, m)
  <2>1. /\ d.sequence \in 1..checkpoint["correlation"]
        /\ At(d.relationship, d.sequence)
        /\ \A s \in d.supports : \E m \in 1..(d.sequence - 1) : At(s, m)
    BY Layers DEF Graph
  <2>2. d.sequence \in 1..b
    BY <1>1, <2>1, Counts
  <2>3. \A m \in 1..(d.sequence - 1) : m \in 1..b
    BY <2>2
  <2>4. QED
    BY <2>1, <2>2, <2>3
<1>2. \E m \in 1..b : At(id, m)
  <2>1. CASE id = root
    BY <1>1, <2>1, RootsAre
  <2>2. CASE id \in SupportedBy(root, b)
    BY <1>1, <2>2, RootsAre DEF SupportedBy
  <2>3. CASE id \in RelationshipsOf(Joins(root, b))
    <3>1. PICK d \in Joins(root, b) : d.relationship = id
      BY <2>3 DEF RelationshipsOf
    <3>2. d \in derivations /\ d.sequence <= b
      BY DEF Joins, FirstLayer, SecondLayer, DerivationsOf
    <3>3. QED
      BY <1>1, <3>1, <3>2
  <2>4. QED
    BY <2>1, <2>2, <2>3 DEF MembersOf
<1>3. PICK m \in 1..b : At(id, m)
  BY <1>2
<1>4. m \in Lineage(id, b)
  BY <1>3, LineageIs
<1>5. m \in Positions(id)
  BY <1>3, AtWithin DEF Graph
<1>6. QED
  BY <1>4, <1>5 DEF Graph, RelationshipsTrue

LEMMA FirstTriggerIs ==
    ASSUME Ground, Graph, NEW ds, ds \subseteq derivations, ds # {}
    PROVE  /\ \E d \in ds : d.sequence = FirstTrigger(ds)
           /\ \A d \in ds : FirstTrigger(ds) <= d.sequence
           /\ FirstTrigger(ds) \in Nat
<1> DEFINE T == {d.sequence : d \in ds}
<1>1. \A d \in derivations : d.sequence \in Nat
  BY Counts DEF Graph, DerivationsWithin
<1>2. T \in SUBSET Nat /\ T # {}
  BY <1>1
<1>3. Min(T) \in T /\ \A m \in T : Min(T) <= m
  BY <1>2, MinOf
<1>4. FirstTrigger(ds) = Min(T)
  BY DEF FirstTrigger
<1>5. FirstTrigger(ds) \in Nat
  BY <1>2, <1>3, <1>4
<1>6. QED
  BY <1>3, <1>4, <1>5

\* The first trigger is not changed by later ones.
LEMMA FirstTriggerKept ==
    ASSUME Ground, Graph, NEW ds, NEW es, ds \subseteq es, ds # {},
           es \subseteq derivations,
           \A e \in es : e \in ds \/ \A d \in ds : d.sequence <= e.sequence
    PROVE  FirstTrigger(es) = FirstTrigger(ds)
<1>1. /\ \E d \in ds : d.sequence = FirstTrigger(ds)
      /\ \A d \in ds : FirstTrigger(ds) <= d.sequence
      /\ FirstTrigger(ds) \in Nat
  BY FirstTriggerIs
<1>2. PICK d \in ds : d.sequence = FirstTrigger(ds)
  BY <1>1
<1>3. \A e \in es : FirstTrigger(ds) <= e.sequence
  BY <1>1, <1>2
<1>4. es # {}
  OBVIOUS
<1>5. /\ \E e \in es : e.sequence = FirstTrigger(es)
      /\ \A e \in es : FirstTrigger(es) <= e.sequence
      /\ FirstTrigger(es) \in Nat
  BY <1>4, FirstTriggerIs
<1>6. FirstTrigger(es) <= FirstTrigger(ds)
  BY <1>2, <1>5
<1>7. FirstTrigger(ds) <= FirstTrigger(es)
  BY <1>3, <1>5
<1>8. QED
  BY <1>1, <1>5, <1>6, <1>7

\* A scene is observed before it is confirmed.
LEMMA TransitionsInOrder ==
    ASSUME Ground, Graph, NEW b \in Nat, b <= checkpoint["correlation"],
           NEW root \in Roots(b)
    PROVE  LET observed == FirstTrigger(RootDerivations(root, b))
               confirmed == FirstTrigger(FirstLayer(root, b))
           IN  /\ observed \in DOMAIN log
               /\ FirstLayer(root, b) # {} =>
                     confirmed \in DOMAIN log /\ observed < confirmed
<1> DEFINE observed == FirstTrigger(RootDerivations(root, b))
           confirmed == FirstTrigger(FirstLayer(root, b))
<1>1. /\ RootDerivations(root, b) # {} /\ RootDerivations(root, b) \subseteq derivations
      /\ root.provenance = "deterministic" /\ root.rule = "COR_SEQ_001"
  BY RootsAre
<1>2. /\ \E d \in RootDerivations(root, b) : d.sequence = observed
      /\ \A d \in RootDerivations(root, b) : observed <= d.sequence
      /\ observed \in Nat
  BY <1>1, FirstTriggerIs
<1>3. \A d \in derivations : d.sequence \in DOMAIN log /\ d.sequence \in Nat
  BY Counts DEF Graph, DerivationsWithin
<1>4. observed \in DOMAIN log
  BY <1>1, <1>2, <1>3
<1>5. ASSUME FirstLayer(root, b) # {}
      PROVE  confirmed \in DOMAIN log /\ observed < confirmed
  <2>1. FirstLayer(root, b) \subseteq derivations
    BY DEF FirstLayer, DerivationsOf
  <2>2. PICK c \in FirstLayer(root, b) : c.sequence = confirmed
    BY <1>5, <2>1, FirstTriggerIs
  <2>3. c \in derivations /\ root \in c.supports /\ c.sequence <= b
    BY DEF FirstLayer, DerivationsOf
  <2>4. PICK m \in 1..(c.sequence - 1) : At(root, m)
    BY <2>3, Layers DEF Graph
  <2>5. PICK d \in derivations : d.relationship = root /\ d.sequence = m
    BY <1>1, <2>4, AtKind DEF Graph
  <2>6. m \in Nat /\ c.sequence \in Nat /\ m < c.sequence /\ m <= b
    BY <1>3, <2>3, <2>4
  <2>7. d \in RootDerivations(root, b)
    BY <1>1, <2>5, <2>6 DEF RootDerivations, DerivationsOf
  <2>8. observed <= m
    BY <1>2, <2>5, <2>7
  <2>9. QED
    BY <1>2, <1>3, <2>2, <2>3, <2>6, <2>8
<1>6. QED
  BY <1>4, <1>5

-----------------------------------------------------------------------------
(* Plans do not change when the log, the lineage and the derivations grow  *)
(* beyond their boundary.                                                  *)

LEMMA PlanKept ==
    ASSUME Pipeline, Added, NEW b \in Nat, b <= checkpoint["correlation"]
    PROVE  /\ Roots(b)' = Roots(b)
           /\ \A root \in Roots(b) : PlanOf(root, b)' = PlanOf(root, b)
<1>0. Ground /\ Graph /\ checkpoint["correlation"] \in Nat
  BY Counts DEF Pipeline
<1>1. ASSUME NEW rules
      PROVE  DerivationsOf(rules, b)' = DerivationsOf(rules, b)
  <2>1. \A d \in derivations : d.sequence \in Nat
    BY <1>0, Counts DEF Graph, DerivationsWithin
  <2>2. ASSUME NEW d \in derivations', d.sequence <= b PROVE d \in derivations
    <3>1. ASSUME d.sequence \in Nat, d.sequence > checkpoint["correlation"]
          PROVE  FALSE
      BY <1>0, <2>2, <3>1
    <3>2. QED
      BY <3>1 DEF Added
  <2>3. QED
    BY <2>2 DEF DerivationsOf, Added
<1>2. Roots(b)' = Roots(b)
  BY <1>1 DEF Roots
<1>3. ASSUME NEW id PROVE Lineage(id, b)' = Lineage(id, b)
  <2>1. ASSUME NEW row \in lineage', row.sequence <= b PROVE row \in lineage
    <3>1. ASSUME row.sequence \in Nat, row.sequence > checkpoint["correlation"]
          PROVE  FALSE
      BY <1>0, <2>1, <3>1
    <3>2. QED
      BY <3>1 DEF Added
  <2>2. {r \in lineage' : r.relationship = id /\ r.sequence <= b}
          = {r \in lineage : r.relationship = id /\ r.sequence <= b}
    BY <2>1 DEF Added
  <2>3. QED
    BY <2>2 DEF Lineage
<1>4. \A id : \A m \in Lineage(id, b) : log'[m] = log[m]
  BY <1>0, LineageIs DEF Added
<1>5. ASSUME NEW root \in Roots(b)
      PROVE  /\ RootDerivations(root, b)' = RootDerivations(root, b)
             /\ FirstLayer(root, b)' = FirstLayer(root, b)
             /\ MembersOf(root, b)' = MembersOf(root, b)
  <2>1. /\ RootDerivations(root, b)' = RootDerivations(root, b)
        /\ FirstLayer(root, b)' = FirstLayer(root, b)
    BY <1>1 DEF RootDerivations, FirstLayer
  <2>2. SecondLayer(root, b)' = SecondLayer(root, b)
    BY <1>1, <2>1 DEF SecondLayer
  <2>3. QED
    BY <2>1, <2>2 DEF MembersOf, SupportedBy, RelationshipsOf, Joins
<1>6. ASSUME NEW ids
      PROVE  /\ PositionsOf(ids, b)' = PositionsOf(ids, b)
             /\ SpanOver(PositionsOf(ids, b))' = SpanOver(PositionsOf(ids, b))
  <2> DEFINE S == PositionsOf(ids, b)
  <2>1. S' = S
    BY <1>3 DEF PositionsOf
  <2>2. \A m \in S : log'[m] = log[m]
    BY <1>4 DEF PositionsOf
  <2>3. \A T : (\A m \in T : log'[m] = log[m]) => {log'[m].time : m \in T} = {log[m].time : m \in T}
    OBVIOUS
  <2> HIDE DEF S
  <2>4. {log'[m].time : m \in S} = {log[m].time : m \in S}
    BY <2>2, <2>3
  <2>5. SpanOver(S)' = SpanOver(S)
    BY <2>1, <2>4 DEF SpanOver
  <2>6. QED
    BY <2>1, <2>5 DEF S
<1>7. ASSUME NEW id PROVE SpanOver(Lineage(id, b))' = SpanOver(Lineage(id, b))
  <2>1. {log'[m].time : m \in Lineage(id, b)} = {log[m].time : m \in Lineage(id, b)}
    BY <1>4
  <2>2. QED
    BY <1>3, <2>1 DEF SpanOver
<1>8. ASSUME NEW root \in Roots(b) PROVE PlanOf(root, b)' = PlanOf(root, b)
  <2>1. MembersOf(root, b)' = MembersOf(root, b)
    BY <1>5
  <2>2. SpanOver(PositionsOf(MembersOf(root, b), b))'
           = SpanOver(PositionsOf(MembersOf(root, b), b))
    BY <1>5, <1>6 DEF SpanOver, PositionsOf
  <2>3. PositionsOf(MembersOf(root, b), b)' = PositionsOf(MembersOf(root, b), b)
    BY <1>5, <1>6 DEF PositionsOf
  <2>4. MemberSpans(root, b)' = MemberSpans(root, b)
    BY <1>5, <1>7 DEF MemberSpans
  <2>5. EndSpans(root, b)' = EndSpans(root, b)
    <3>1. ASSUME NEW e
          PROVE  SpanOver(PositionsOf(HavingEnd(MembersOf(root, b), e), b))'
                   = SpanOver(PositionsOf(HavingEnd(MembersOf(root, b), e), b))
      <4>1. HavingEnd(MembersOf(root, b), e)' = HavingEnd(MembersOf(root, b), e)
        BY <1>5 DEF HavingEnd
      <4>2. QED
        BY <1>6, <4>1 DEF PositionsOf, SpanOver
    <3>2. QED
      BY <1>5, <3>1 DEF EndSpans
  <2>6. FirstTrigger(RootDerivations(root, b))' = FirstTrigger(RootDerivations(root, b))
    BY <1>5 DEF FirstTrigger
  <2>7. FirstTrigger(FirstLayer(root, b))' = FirstTrigger(FirstLayer(root, b))
    BY <1>5 DEF FirstTrigger
  <2>8. FirstLayer(root, b)' = FirstLayer(root, b)
    BY <1>5
  <2>9. QED
    BY <2>1, <2>2, <2>3, <2>4, <2>5, <2>6, <2>7, <2>8
    DEF PlanOf, StateOf, TransitionsOf
<1>9. QED
  BY <1>2, <1>8

-----------------------------------------------------------------------------
(* Stored scenes are plans of the scene checkpoint.                        *)

ScenesTrue ==
    /\ DOMAIN scenes = Roots(checkpoint["scene"])
    /\ \A root \in Roots(checkpoint["scene"]) :
          scenes[root] = PlanOf(root, checkpoint["scene"])

LEMMA PlanFields ==
    ASSUME NEW root, NEW b, NEW plan, plan = PlanOf(root, b)
    PROVE  /\ plan = [state |-> plan.state, span |-> plan.span,
                      relationships |-> plan.relationships,
                      entities |-> plan.entities,
                      observations |-> plan.observations,
                      transitions |-> plan.transitions]
           /\ plan.state = StateOf(root, b)
           /\ plan.span = SpanOver(PositionsOf(MembersOf(root, b), b))
           /\ plan.relationships = MemberSpans(root, b)
           /\ plan.entities = EndSpans(root, b)
           /\ plan.observations = PositionsOf(MembersOf(root, b), b)
           /\ plan.transitions = TransitionsOf(root, b)
BY DEF PlanOf

\* A plan replaces the plan of the position before.
LEMMA MergedIsPlan ==
    ASSUME Ground, Graph, NEW b \in Nat, NEW c \in Nat, c <= b,
           NEW root \in Roots(c),
           NEW stored, stored = PlanOf(root, c), NEW plan, plan = PlanOf(root, b)
    PROVE  Merged(stored, plan) = plan
<1> DEFINE early == FirstLayer(root, c)
           late == FirstLayer(root, b)
<1>0. \A d \in derivations : d.sequence \in Nat
  BY Counts DEF Graph, DerivationsWithin
<1>1. /\ early \subseteq late /\ late \subseteq derivations
      /\ \A d \in late : d \in early \/ d.sequence > c
      /\ \A d \in early : d.sequence <= c
  BY <1>0 DEF FirstLayer, DerivationsOf
<1>2. /\ RootDerivations(root, c) \subseteq RootDerivations(root, b)
      /\ RootDerivations(root, b) \subseteq derivations
      /\ \A d \in RootDerivations(root, b) :
            d \in RootDerivations(root, c) \/ d.sequence > c
      /\ \A d \in RootDerivations(root, c) : d.sequence <= c
      /\ RootDerivations(root, c) # {}
  <2>1. RootDerivations(root, c) # {}
    BY RootsAre
  <2>2. QED
    BY <1>0, <2>1 DEF RootDerivations, DerivationsOf
<1>3. FirstTrigger(RootDerivations(root, b)) = FirstTrigger(RootDerivations(root, c))
  <2>1. \A e \in RootDerivations(root, b) : e \in RootDerivations(root, c) \/
           \A d \in RootDerivations(root, c) : d.sequence <= e.sequence
    BY <1>0, <1>2
  <2>2. QED
    BY <1>2, <2>1, FirstTriggerKept
<1>4. early # {} => late # {} /\ FirstTrigger(late) = FirstTrigger(early)
  <2>1. \A e \in late : e \in early \/ \A d \in early : d.sequence <= e.sequence
    BY <1>0, <1>1
  <2> HIDE DEF early, late
  <2>2. QED
    BY <1>1, <2>1, FirstTriggerKept
<1>5. /\ plan.state = IF late = {} THEN "observed" ELSE "confirmed"
      /\ stored.state = IF early = {} THEN "observed" ELSE "confirmed"
      /\ plan.transitions =
            {Transition("potential", "observed",
                        FirstTrigger(RootDerivations(root, b)))}
            \cup IF late = {} THEN {}
                 ELSE {Transition("observed", "confirmed", FirstTrigger(late))}
      /\ stored.transitions =
            {Transition("potential", "observed",
                        FirstTrigger(RootDerivations(root, c)))}
            \cup IF early = {} THEN {}
                 ELSE {Transition("observed", "confirmed", FirstTrigger(early))}
  <2>1. plan.state = StateOf(root, b) /\ plan.transitions = TransitionsOf(root, b)
    BY PlanFields
  <2>2. stored.state = StateOf(root, c) /\ stored.transitions = TransitionsOf(root, c)
    BY PlanFields
  <2>3. QED
    BY <2>1, <2>2 DEF StateOf, TransitionsOf
<1> HIDE DEF early, late
<1>6. Advanced(stored.state, plan.state) = plan.state
  <2>1. /\ stored.state \in {"observed", "confirmed"}
        /\ plan.state \in {"observed", "confirmed"}
        /\ stored.state = "confirmed" => plan.state = "confirmed"
    BY <1>4, <1>5
  <2>2. StateRank["observed"] = 1 /\ StateRank["confirmed"] = 2
    BY DEF StateRank
  <2>3. CASE stored.state = "observed" /\ plan.state = "observed"
    BY <2>2, <2>3 DEF Advanced
  <2>4. CASE stored.state = "observed" /\ plan.state = "confirmed"
    BY <2>2, <2>4 DEF Advanced
  <2>5. CASE stored.state = "confirmed" /\ plan.state = "confirmed"
    BY <2>2, <2>5 DEF Advanced
  <2>6. QED
    BY <2>1, <2>3, <2>4, <2>5
<1>7. stored.transitions \cup plan.transitions = plan.transitions
  BY <1>3, <1>4, <1>5
<1>8. plan = [state |-> plan.state, span |-> plan.span,
              relationships |-> plan.relationships,
              entities |-> plan.entities,
              observations |-> plan.observations,
              transitions |-> plan.transitions]
  BY PlanFields
<1>9. Merged(stored, plan) =
         [plan EXCEPT !.state = Advanced(stored.state, plan.state),
                      !.transitions = stored.transitions \cup plan.transitions]
  BY DEF Merged
<1>10. Merged(stored, plan) = [plan EXCEPT !.state = plan.state,
                                           !.transitions = plan.transitions]
  BY <1>6, <1>7, <1>9
<1>11. QED
  BY <1>8, <1>10

LEMMA ScenesStep ==
    Pipeline /\ ScenesTrue /\ [Next]_vars => ScenesTrue'
<1> SUFFICES ASSUME Pipeline, ScenesTrue, [Next]_vars PROVE ScenesTrue'
  OBVIOUS
<1> DEFINE b == checkpoint["scene"]
<1>1. Ground /\ Graph /\ Added
  BY PrefixKept DEF Pipeline
<1>2. b \in Nat /\ b <= checkpoint["correlation"]
  BY <1>1, Counts
<1>3. ASSUME scenes' = scenes, checkpoint'["scene"] = checkpoint["scene"]
      PROVE  ScenesTrue'
  <2>1. ASSUME NEW c, c = b
        PROVE  /\ Roots(c)' = Roots(c)
               /\ \A root \in Roots(c) : PlanOf(root, c)' = PlanOf(root, c)
    BY <1>1, <1>2, <2>1, PlanKept
  <2>2. QED
    BY <1>3, <2>1 DEF ScenesTrue
<1>4. CASE RunScene
  <2> DEFINE n == NextItem("scene")
             roots == Roots(n)
             known == DOMAIN scenes
             plans == [root \in roots |-> Plan(root, n)]
  <2>1. /\ Ready("scene") /\ DependenciesReady(n) /\ Processed("scene")
        /\ scenes' = [root \in known \cup roots |->
                        IF root \notin roots THEN scenes[root]
                        ELSE IF root \notin known THEN plans[root]
                        ELSE Merged(scenes[root], plans[root])]
        /\ UNCHANGED correlationTables
    BY <1>4 DEF RunScene, PlanScenes
  <2>2. /\ n = b + 1 /\ n \in Nat /\ checkpoint'["scene"] = n
        /\ n <= checkpoint["correlation"] /\ b <= n /\ log' = log
    <3>1. n = b + 1
      BY DEF NextItem
    <3>2. checkpoint'["scene"] = n /\ log' = log
      BY <1>1, <2>1, <3>1 DEF Processed, Ground, Basics, Projector
    <3>3. n <= checkpoint["correlation"]
      BY <1>1, <1>2, <2>1, <3>1, Counts DEF DependenciesReady
    <3>4. QED
      BY <1>2, <3>1, <3>2, <3>3
  <2>3. ASSUME NEW c, c = n
        PROVE  /\ Roots(c)' = Roots(c)
               /\ \A root \in Roots(c) : PlanOf(root, c)' = PlanOf(root, c)
    BY <1>1, <2>2, <2>3, PlanKept
  <2>4. known = Roots(b) /\ \A root \in known : scenes[root] = PlanOf(root, b)
    BY DEF ScenesTrue
  <2> HIDE DEF n, b
  <2>5. known \subseteq roots
    <3>1. \A d \in derivations : d.sequence \in Nat
      BY <1>1, Counts DEF Graph, DerivationsWithin
    <3>2. QED
      BY <1>2, <2>2, <2>4, <3>1 DEF Roots, DerivationsOf
  <2>6. ASSUME NEW root \in roots PROVE scenes'[root] = PlanOf(root, n)
    <3>1. plans[root] = PlanOf(root, n)
      BY <1>1, PlanIs
    <3>2. CASE root \notin known
      BY <2>1, <3>1, <3>2
    <3>3. CASE root \in known
      <4>1. scenes'[root] = Merged(scenes[root], plans[root])
        BY <2>1, <3>3
      <4>2. scenes[root] = PlanOf(root, b) /\ root \in Roots(b)
        BY <2>4, <3>3
      <4> HIDE DEF plans
      <4>3. Merged(scenes[root], plans[root]) = plans[root]
        BY <1>1, <1>2, <2>2, <3>1, <4>2, MergedIsPlan
      <4>4. QED
        BY <3>1, <4>1, <4>3
    <3>4. QED
      BY <3>2, <3>3
  <2>7. DOMAIN scenes' = roots
    BY <2>1, <2>5
  <2>8. QED
    BY <2>2, <2>3, <2>6, <2>7 DEF ScenesTrue
<1>5. ASSUME NEW p \in {"entity", "relationship", "correlation"}, Processed(p)
      PROVE  checkpoint'["scene"] = checkpoint["scene"]
  BY <1>1, <1>5 DEF Processed, Ground, Basics, Projector
<1>6. CASE RunEntity
  BY <1>3, <1>5, <1>6 DEF RunEntity, ProjectEntities, PoisonEntity, Poisoned
<1>7. CASE RunRelationship
  BY <1>3, <1>5, <1>7 DEF RunRelationship, ProjectRelationship, PoisonRelationship,
     Poisoned
<1>8. CASE RunCorrelation
  BY <1>3, <1>5, <1>8 DEF RunCorrelation, Correlate
<1>9. CASE \E o \in Payload : AppendObservation(o)
  BY <1>3, <1>9 DEF AppendObservation, Ingest
<1>10. CASE UNCHANGED vars
  BY <1>3, <1>10 DEF vars, base
<1>11. QED
  BY <1>4, <1>6, <1>7, <1>8, <1>9, <1>10 DEF Next

\* The inductive invariant of the pipeline.
Sound == Pipeline /\ ScenesTrue /\ Columns

LEMMA InitialSound == Init => Sound
<1> SUFFICES ASSUME Init PROVE Sound
  OBVIOUS
<1>1. scenes = << >> /\ derivations = {}
  BY DEF Init, SceneInit, CorrelationInit
<1>2. \A b : Roots(b) = {}
  BY <1>1 DEF Roots, DerivationsOf
<1>3. DOMAIN << >> = {}
  OBVIOUS
<1>4. QED
  BY <1>1, <1>2, <1>3, InitialPipeline, InitialColumns DEF Sound, ScenesTrue

LEMMA SoundStep == Sound /\ [Next]_vars => Sound'
BY PipelineStep, ScenesStep, ColumnsStep DEF Sound, Pipeline, Ground

LEMMA AlwaysSound == Spec => []Sound
BY InitialSound, SoundStep, PTL DEF Spec

\* Of the members of a scene only compromises that follow from the root are
\* made by COR_SEQ_002.
LEMMA ConfirmingMembers ==
    ASSUME Ground, Graph, NEW b \in Nat, b <= checkpoint["correlation"],
           NEW root \in Roots(b)
    PROVE  FirstLayer(root, b) # {} <=>
              \E id \in MembersOf(root, b) : id.rule = "COR_SEQ_002"
<1>1. ASSUME NEW d \in FirstLayer(root, b)
      PROVE  d.relationship \in MembersOf(root, b) /\ d.relationship.rule = "COR_SEQ_002"
  BY DEF FirstLayer, DerivationsOf, MembersOf, RelationshipsOf, Joins
<1>2. ASSUME NEW id \in MembersOf(root, b), id.rule = "COR_SEQ_002"
      PROVE  FirstLayer(root, b) # {}
  <2>1. id # root
    BY <1>2, RootsAre
  <2>2. id \notin SupportedBy(root, b)
    <3>1. ASSUME id \in SupportedBy(root, b) PROVE FALSE
      <4>1. PICK d \in RootDerivations(root, b) : id \in d.supports
        BY <3>1 DEF SupportedBy
      <4>2. d \in derivations /\ d.relationship.rule = "COR_SEQ_001"
        BY RootsAre
      <4>3. id.type = "has_vulnerability" /\ \E m \in 1..(d.sequence - 1) : At(id, m)
        BY <4>1, <4>2, Layers, LayerTypes DEF Graph
      <4>4. PICK m : At(id, m)
        BY <4>3
      <4>5. id.provenance = "observed"
        BY <4>3, <4>4, AtKind DEF Graph
      <4>6. m \in Positions(id)
        BY <4>4, AtWithin DEF Graph
      <4>7. Provenance(id)
        BY <4>6 DEF Graph, RelationshipsTrue, RelationshipTrue
      <4>8. id.rule = "none"
        BY <4>5, <4>7 DEF Provenance
      <4>9. QED
        BY <1>2, <4>8
    <3>2. QED
      BY <3>1
  <2>3. PICK d \in Joins(root, b) : d.relationship = id
    BY <2>1, <2>2 DEF MembersOf, RelationshipsOf
  <2>4. d \in FirstLayer(root, b)
    BY <1>2, <2>3 DEF Joins, SecondLayer, DerivationsOf
  <2>5. QED
    BY <2>4
<1>3. QED
  BY <1>1, <1>2

(***************************************************************************)
(* Every stored scene, merged item by item, is the scene of its root as of *)
(* the checkpoint: the least set of relationships that supports the root or*)
(* follows from it, with their ends, observations and spans, and the states*)
(* it went through in order (AttackSceneProjectionHandler._persist_plan    *)
(* over AttackSceneMembershipPlanner.plan_scene).                          *)
(***************************************************************************)
THEOREM ScenesAreTheClosure == Spec => []ScenesAreClosure
<1>1. Sound => ScenesAreClosure
  <2> SUFFICES ASSUME Sound PROVE ScenesAreClosure
    OBVIOUS
  <2> DEFINE b == checkpoint["scene"]
  <2>1. Ground /\ Graph /\ ScenesTrue
    BY DEF Sound, Pipeline
  <2>2. b \in Nat /\ b <= checkpoint["correlation"]
    BY <2>1, Counts
  <2>3. DOMAIN scenes = Roots(b)
    BY <2>1 DEF ScenesTrue
  <2>4. ASSUME NEW root \in DOMAIN scenes
        PROVE  LET scene == scenes[root]
                   members == {root} \cup SupportedBy(root, b)
                                     \cup FollowsFrom(root, b)
               IN  /\ DOMAIN scene.relationships = members
                   /\ DOMAIN scene.entities = UNION {Ends(id) : id \in members}
                   /\ scene.observations =
                         UNION {KnownAt(derivations, id, b + 1) : id \in members}
                   /\ scene.span = SpanOver(scene.observations)
                   /\ \A id \in members :
                         scene.relationships[id] =
                            SpanOver(KnownAt(derivations, id, b + 1))
                   /\ {t.to : t \in scene.transitions} =
                         IF scene.state = "confirmed"
                         THEN {"observed", "confirmed"} ELSE {"observed"}
                   /\ (scene.state = "confirmed") <=>
                         \E id \in members : id.rule = "COR_SEQ_002"
                   /\ \A s, t \in scene.transitions :
                         StateRank[s.to] < StateRank[t.to]
                             => s.sequence < t.sequence
    <3> DEFINE scene == scenes[root]
               members == {root} \cup SupportedBy(root, b) \cup FollowsFrom(root, b)
    <3>1. root \in Roots(b) /\ scene = PlanOf(root, b)
      BY <2>1, <2>3 DEF ScenesTrue
    <3>2. members = MembersOf(root, b)
      BY <2>1, <3>1, FollowsFromIs DEF MembersOf
    <3>3. \A id : Lineage(id, b) = KnownAt(derivations, id, b + 1)
      BY <2>1, <2>2, LineageIs
    <3>4. /\ scene.state = StateOf(root, b)
          /\ scene.span = SpanOver(PositionsOf(members, b))
          /\ scene.relationships = MemberSpans(root, b)
          /\ scene.entities = EndSpans(root, b)
          /\ scene.observations = PositionsOf(members, b)
          /\ scene.transitions = TransitionsOf(root, b)
      BY <3>1, <3>2, PlanFields
    <3>5. FirstLayer(root, b) # {} <=> \E id \in members : id.rule = "COR_SEQ_002"
      BY <2>1, <2>2, <3>1, <3>2, ConfirmingMembers
    <3> DEFINE observed == FirstTrigger(RootDerivations(root, b))
               confirmed == FirstTrigger(FirstLayer(root, b))
    <3>6. FirstLayer(root, b) # {} => observed < confirmed
      BY <2>1, <2>2, <3>1, TransitionsInOrder
    <3> HIDE DEF scene, members, b, observed, confirmed
    <3>7. DOMAIN scene.relationships = members
      BY <3>2, <3>4 DEF MemberSpans
    <3>8. DOMAIN scene.entities = UNION {Ends(id) : id \in members}
      BY <3>2, <3>4 DEF EndSpans
    <3>9. scene.observations = UNION {KnownAt(derivations, id, b + 1) : id \in members}
      BY <3>3, <3>4 DEF PositionsOf
    <3>10. \A id \in members : scene.relationships[id] =
                                  SpanOver(KnownAt(derivations, id, b + 1))
      BY <3>2, <3>3, <3>4 DEF MemberSpans
    <3>11. /\ scene.state = "confirmed" <=> FirstLayer(root, b) # {}
           /\ {t.to : t \in scene.transitions} =
                 IF scene.state = "confirmed"
                 THEN {"observed", "confirmed"} ELSE {"observed"}
           /\ \A s, t \in scene.transitions :
                 StateRank[s.to] < StateRank[t.to] => s.sequence < t.sequence
      <4> DEFINE first == Transition("potential", "observed", observed)
                 second == Transition("observed", "confirmed", confirmed)
      <4>1. /\ first.to = "observed" /\ first.sequence = observed
            /\ second.to = "confirmed" /\ second.sequence = confirmed
            /\ StateRank["observed"] = 1 /\ StateRank["confirmed"] = 2
        BY DEF Transition, StateRank
      <4>2. CASE FirstLayer(root, b) = {}
        <5>1. scene.state = "observed" /\ scene.transitions = {first}
          BY <3>4, <4>2 DEF StateOf, TransitionsOf, observed
        <5> HIDE DEF first, second
        <5>2. QED
          BY <4>1, <4>2, <5>1
      <4>3. CASE FirstLayer(root, b) # {}
        <5>1. scene.state = "confirmed" /\ scene.transitions = {first, second}
          BY <3>4, <4>3 DEF StateOf, TransitionsOf, observed, confirmed
        <5> HIDE DEF first, second
        <5>2. {t.to : t \in scene.transitions} = {"observed", "confirmed"}
          BY <4>1, <5>1
        <5>3. \A s, t \in scene.transitions :
                 StateRank[s.to] < StateRank[t.to] => s.sequence < t.sequence
          BY <3>6, <4>1, <4>3, <5>1
        <5>4. QED
          BY <4>3, <5>1, <5>2, <5>3
      <4>4. QED
        BY <4>2, <4>3
    <3>12. scene.span = SpanOver(scene.observations)
      BY <3>4
    <3>13. QED
      BY <3>5, <3>7, <3>8, <3>9, <3>10, <3>11, <3>12 DEF scene, members
  <2>5. QED
    BY <2>3, <2>4 DEF ScenesAreClosure
<1>2. QED
  BY <1>1, AlwaysSound, PTL

LEMMA SceneColumns ==
    ASSUME Sound PROVE SceneTypeOK
<1> DEFINE b == checkpoint["scene"]
<1>1. Ground /\ Graph /\ ScenesTrue /\ Pipeline /\ Columns /\ Basics
  BY DEF Sound, Pipeline, Ground
<1>2. b \in Nat /\ b <= checkpoint["correlation"] /\ b <= checkpoint["entity"]
  BY <1>1, Counts
<1>3. ASSUME NEW S \in SUBSET DOMAIN log, S # {} PROVE Ordered(SpanOver(S))
  BY <1>1, <1>3, SpanOverIs, SpanOrdered
<1>4. ASSUME NEW root \in DOMAIN scenes
      PROVE  LET scene == scenes[root]
             IN  /\ AttackSceneRecord(scene)
                 /\ \A e \in DOMAIN scene.entities :
                       AttackSceneEntityRecord(e, scene.entities[e])
                 /\ \A id \in DOMAIN scene.relationships :
                       AttackSceneRelationshipRecord(id, scene.relationships[id])
                 /\ \A n \in scene.observations : AttackSceneObservationRecord(n)
                 /\ \A t \in scene.transitions :
                       AttackSceneStateTransitionRecord(t, scene.transitions \ {t})
  <2> DEFINE scene == scenes[root]
             members == MembersOf(root, b)
             observed == FirstTrigger(RootDerivations(root, b))
             confirmed == FirstTrigger(FirstLayer(root, b))
  <2>1. root \in Roots(b) /\ scene = PlanOf(root, b)
    BY <1>1 DEF ScenesTrue
  <2>2. /\ scene.state = StateOf(root, b)
        /\ scene.span = SpanOver(PositionsOf(members, b))
        /\ scene.relationships = MemberSpans(root, b)
        /\ scene.entities = EndSpans(root, b)
        /\ scene.observations = PositionsOf(members, b)
        /\ scene.transitions = TransitionsOf(root, b)
    BY <2>1, PlanFields
  <2>3. ASSUME NEW id
        PROVE  /\ Lineage(id, b) \in SUBSET DOMAIN log
               /\ \A m \in Lineage(id, b) : At(id, m) /\ m <= b /\ m \in Nat
    <3>1. /\ Lineage(id, b) \in SUBSET DOMAIN log
          /\ Lineage(id, b) = {m \in 1..b : At(id, m)}
      BY <1>1, <1>2, LineageIs
    <3>2. QED
      BY <1>2, <3>1
  <2>4. ASSUME NEW id \in members
        PROVE  Lineage(id, b) # {} /\ id \in DOMAIN relationships
    BY <1>1, <1>2, <2>1, MembersKnown
  <2>5. ASSUME NEW id \in members PROVE Ends(id) \subseteq DOMAIN entities
    <3>1. PICK m \in Lineage(id, b) : TRUE
      BY <2>4
    <3>2. At(id, m) /\ m <= checkpoint["entity"] /\ m <= checkpoint["correlation"]
      BY <1>1, <1>2, <2>3, <3>1, Counts
    <3>3. QED
      BY <1>1, <3>2, EndsKnown
  <2>6. root \in members
    BY DEF MembersOf
  <2>7. ASSUME NEW ids \in SUBSET members, ids # {}
        PROVE  PositionsOf(ids, b) \in SUBSET DOMAIN log /\ PositionsOf(ids, b) # {}
    <3>1. PICK id \in ids : TRUE
      BY <2>7
    <3>2. PICK m \in Lineage(id, b) : TRUE
      BY <2>4
    <3>3. m \in PositionsOf(ids, b)
      BY DEF PositionsOf
    <3>4. PositionsOf(ids, b) \subseteq DOMAIN log
      BY <2>3 DEF PositionsOf
    <3>5. QED
      BY <3>3, <3>4
  <2>8. /\ observed \in DOMAIN log
        /\ FirstLayer(root, b) # {} => confirmed \in DOMAIN log /\ observed < confirmed
    BY <1>1, <1>2, <2>1, TransitionsInOrder
  <2> HIDE DEF members, scene, b, observed, confirmed
  <2>9. AttackSceneRecord(scene)
    <3>1. Ordered(scene.span)
      BY <1>3, <2>2, <2>6, <2>7
    <3>2. scene.state \in IncidentState
      BY <2>2 DEF StateOf, IncidentState
    <3>3. QED
      BY <3>1, <3>2 DEF AttackSceneRecord
  <2>10. ASSUME NEW e \in DOMAIN scene.entities
         PROVE  AttackSceneEntityRecord(e, scene.entities[e])
    <3>1. PICK id \in members : e \in Ends(id)
      BY <2>2 DEF EndSpans, members
    <3>2. HavingEnd(members, e) \in SUBSET members /\ HavingEnd(members, e) # {}
      BY <3>1 DEF HavingEnd
    <3>3. scene.entities[e] = SpanOver(PositionsOf(HavingEnd(members, e), b))
      BY <2>2 DEF EndSpans, members
    <3>4. QED
      BY <1>3, <2>5, <2>7, <3>1, <3>2, <3>3 DEF AttackSceneEntityRecord
  <2>11. ASSUME NEW id \in DOMAIN scene.relationships
         PROVE  AttackSceneRelationshipRecord(id, scene.relationships[id])
    <3>1. id \in members /\ scene.relationships[id] = SpanOver(Lineage(id, b))
      BY <2>2 DEF MemberSpans, members
    <3>2. QED
      BY <1>3, <2>3, <2>4, <3>1 DEF AttackSceneRelationshipRecord
  <2>12. ASSUME NEW n \in scene.observations PROVE AttackSceneObservationRecord(n)
    BY <2>2, <2>6, <2>7 DEF AttackSceneObservationRecord
  <2>13. ASSUME NEW t \in scene.transitions
         PROVE  AttackSceneStateTransitionRecord(t, scene.transitions \ {t})
    <3> DEFINE first == Transition("potential", "observed", observed)
               second == Transition("observed", "confirmed", confirmed)
    <3>1. /\ first.from = "potential" /\ first.to = "observed"
          /\ first.sequence = observed
          /\ second.from = "observed" /\ second.to = "confirmed"
          /\ second.sequence = confirmed
      BY DEF Transition
    <3>2. CASE FirstLayer(root, b) = {}
      <4>1. scene.transitions = {first}
        BY <2>2, <3>2 DEF TransitionsOf, observed
      <4> HIDE DEF first, second
      <4>2. t = first /\ scene.transitions \ {t} = {}
        BY <4>1
      <4>3. QED
        BY <2>8, <3>1, <4>2 DEF AttackSceneStateTransitionRecord, IncidentState
    <3>3. CASE FirstLayer(root, b) # {}
      <4>1. scene.transitions = {first, second}
        BY <2>2, <3>3 DEF TransitionsOf, observed, confirmed
      <4>2. observed \in DOMAIN log /\ confirmed \in DOMAIN log /\ observed # confirmed
        <5>1. observed \in Nat /\ confirmed \in Nat
          BY <1>1, <2>8, <3>3, Times
        <5>2. QED
          BY <2>8, <3>3, <5>1
      <4> HIDE DEF first, second
      <4>3. QED
        BY <3>1, <4>1, <4>2 DEF AttackSceneStateTransitionRecord, IncidentState
    <3>4. QED
      BY <3>2, <3>3
  <2>14. QED
    BY <2>9, <2>10, <2>11, <2>12, <2>13 DEF scene
<1>5. QED
  BY <1>4 DEF SceneTypeOK

(***************************************************************************)
(* No row a projector writes is refused by a check, a unique key or a      *)
(* foreign key of its table (models.py), whatever is ingested.             *)
(***************************************************************************)
THEOREM RowsAreTaken == Spec => []TypeOK
<1>1. Sound => TypeOK
  <2> SUFFICES ASSUME Sound PROVE TypeOK
    OBVIOUS
  <2>1. Ground /\ Graph /\ TablesTrue /\ Columns /\ Basics
    BY DEF Sound, Pipeline, Ground
  <2>2. log \in Seq(Payload) /\ Len(log) <= MaxLog /\ failed \subseteq {"entity", "relationship"}
    BY <2>1 DEF Basics, Columns
  <2>3. checkpoint \in [Projector -> 0..MaxLog]
    <3>1. \A p \in Projector : checkpoint[p] \in 0..MaxLog
      BY <2>1, <2>2, Counts, ProjectionAssumption
    <3>2. QED
      BY <2>1, <3>1 DEF Basics
  <2>4. EntityTypeOK
    BY <2>1, EntityColumns
  <2>5. GraphTypeOK /\ CorrelationTypeOK
    BY <2>1, GraphColumns, CorrelationColumns
  <2>6. SceneTypeOK
    BY SceneColumns
  <2>7. QED
    BY <2>2, <2>3, <2>4, <2>5, <2>6 DEF TypeOK
<1>2. QED
  BY <1>1, AlwaysSound, PTL

-----------------------------------------------------------------------------
(* What a reader beside the pipeline can rely on: rows stay, and what they *)
(* refer to stays with them.                                               *)

ObservationsOf(id) ==
    {row.sequence : row \in {r \in entityObservations : r.entity = id}}

LineageOf(id) == {row.sequence : row \in {r \in lineage : r.relationship = id}}

Grown ==
    /\ Added
    /\ \A id : ObservationsOf(id) \subseteq ObservationsOf(id)'
    /\ \A id : LineageOf(id) \subseteq LineageOf(id)'
    /\ \A id \in DOMAIN entities :
          id \in DOMAIN entities' /\ entities'[id].type = entities[id].type
    /\ \A id \in DOMAIN relationships : id \in DOMAIN relationships'
    /\ \A root \in DOMAIN scenes :
          /\ root \in DOMAIN scenes'
          /\ scenes[root].observations \subseteq scenes'[root].observations
          /\ scenes[root].transitions \subseteq scenes'[root].transitions

LEMMA EntitiesGrow ==
    ASSUME Sound, [Next]_vars
    PROVE  /\ entityObservations \subseteq entityObservations'
           /\ \A id \in DOMAIN entities :
                 id \in DOMAIN entities' /\ entities'[id].type = entities[id].type
<1>1. CASE ProjectEntities
  <2>1. entityObservations \subseteq entityObservations'
    BY <1>1 DEF ProjectEntities
  <2>2. QED
    BY <1>1, <2>1, TypeKept DEF Sound, Pipeline, Ground
<1>2. CASE UNCHANGED entityTables
  BY <1>2 DEF entityTables
<1>3. \/ ProjectEntities
      \/ UNCHANGED entityTables
  BY DEF Next, AppendObservation, RunEntity, PoisonEntity, RunRelationship,
     RunCorrelation, RunScene, vars
<1>4. QED
  BY <1>1, <1>2, <1>3

LEMMA ScenesGrow ==
    ASSUME Sound, [Next]_vars, NEW root \in DOMAIN scenes
    PROVE  /\ root \in DOMAIN scenes'
           /\ scenes[root].observations \subseteq scenes'[root].observations
           /\ scenes[root].transitions \subseteq scenes'[root].transitions
<1>1. CASE PlanScenes
  <2> DEFINE n == NextItem("scene")
             roots == Roots(n)
             known == DOMAIN scenes
             plans == [r \in roots |-> Plan(r, n)]
  <2>1. /\ \A r \in roots \cap known : ~Unexpected(scenes[r], plans[r])
        /\ scenes' = [r \in known \cup roots |->
                        IF r \notin roots THEN scenes[r]
                        ELSE IF r \notin known THEN plans[r]
                        ELSE Merged(scenes[r], plans[r])]
    BY <1>1 DEF PlanScenes
  <2>2. CASE root \notin roots
    BY <2>1, <2>2
  <2>3. CASE root \in roots
    <3> DEFINE plan == Plan(root, n)
               stored == scenes[root]
    <3>1. plans[root] = plan
      BY <2>3
    <3>2. /\ root \in DOMAIN scenes' /\ scenes'[root] = Merged(stored, plan)
          /\ ~Unexpected(stored, plan)
      BY <2>1, <2>3, <3>1
    <3>3. stored.observations \subseteq plan.observations
      BY <3>2 DEF Unexpected
    <3>4. plan = PlanOf(root, n)
      BY <2>3, PlanIs DEF Sound, Pipeline
    <3>5. plan = [state |-> plan.state, span |-> plan.span,
                  relationships |-> plan.relationships,
                  entities |-> plan.entities,
                  observations |-> plan.observations,
                  transitions |-> plan.transitions]
      BY <3>4, PlanFields
    <3> HIDE DEF plan
    <3>6. Merged(stored, plan) =
             [state |-> Advanced(stored.state, plan.state), span |-> plan.span,
              relationships |-> plan.relationships,
              entities |-> plan.entities,
              observations |-> plan.observations,
              transitions |-> stored.transitions \cup plan.transitions]
      <4> DEFINE state == Advanced(stored.state, plan.state)
                 transitions == stored.transitions \cup plan.transitions
      <4>1. Merged(stored, plan) =
               [plan EXCEPT !.state = state, !.transitions = transitions]
        BY DEF Merged
      <4> HIDE DEF state, transitions, stored
      <4>2. QED
        BY <3>5, <4>1 DEF state, transitions
    <3>7. /\ Merged(stored, plan).observations = plan.observations
          /\ Merged(stored, plan).transitions = stored.transitions \cup plan.transitions
      BY <3>6
    <3>8. QED
      BY <3>2, <3>3, <3>7
  <2>4. QED
    BY <2>2, <2>3
<1>2. CASE UNCHANGED scenes
  BY <1>2
<1>3. \/ PlanScenes
      \/ UNCHANGED scenes
  BY DEF Next, AppendObservation, RunEntity, RunRelationship, RunCorrelation,
     RunScene, vars
<1>4. QED
  BY <1>1, <1>2, <1>3

LEMMA RelationshipsGrow ==
    ASSUME Sound, [Next]_vars, NEW id \in DOMAIN relationships
    PROVE  id \in DOMAIN relationships'
<1>1. \/ \E edges, n : relationships' = RelationshipsAfter(edges, n)
      \/ UNCHANGED relationships
  BY DEF Next, AppendObservation, RunEntity, RunRelationship, RunCorrelation,
     ProjectRelationship, PoisonRelationship, Correlate, RunScene, vars,
     correlationTables, graphTables
<1>2. QED
  BY <1>1 DEF RelationshipsAfter

LEMMA Grows == Sound /\ [Next]_vars => Grown
<1> SUFFICES ASSUME Sound, [Next]_vars PROVE Grown
  OBVIOUS
<1>1. Added
  BY PrefixKept DEF Sound
<1>2. entityObservations \subseteq entityObservations' /\ lineage \subseteq lineage'
  BY <1>1, EntitiesGrow DEF Added
<1>3. /\ \A id : ObservationsOf(id) \subseteq ObservationsOf(id)'
      /\ \A id : LineageOf(id) \subseteq LineageOf(id)'
  BY <1>2 DEF ObservationsOf, LineageOf
<1>4. QED
  BY <1>1, <1>3, EntitiesGrow, RelationshipsGrow, ScenesGrow DEF Grown

-----------------------------------------------------------------------------
(* What a row refers to is there when it is read.                          *)

LEMMA EntityRefers ==
    ASSUME Sound, NEW id \in DOMAIN entities
    PROVE  /\ EndsOf(entities[id].span) \subseteq ObservationsOf(id)
           /\ entities[id].claimed[2] \in ObservationsOf(id)
<1>1. TablesTrue
  BY DEF Sound, Pipeline
<1>2. Shows(entities[id], id) /\ Spans(entities[id].span, Mentions(id))
  BY <1>1 DEF TablesTrue, EntitiesTrue, RowTrue
<1>3. Mentions(id) \subseteq ObservationsOf(id)
  BY <1>1 DEF TablesTrue, LineageTrue, ObservationsOf
<1>4. entities[id].claimed[2] \in Mentions(id)
  BY <1>2 DEF Shows
<1>5. QED
  BY <1>2, <1>3, <1>4 DEF Spans, EndsOf

LEMMA RelationshipRefers ==
    ASSUME Sound, NEW id \in DOMAIN relationships
    PROVE  EndsOf(relationships[id].span) \subseteq LineageOf(id)
<1>1. Graph
  BY DEF Sound, Pipeline
<1>2. Spans(relationships[id].span, Positions(id))
  BY <1>1 DEF Graph, RelationshipsTrue, RelationshipTrue
<1>3. ASSUME NEW m \in Positions(id) PROVE m \in LineageOf(id)
  <2> DEFINE row == [relationship |-> id, sequence |-> m]
  <2>1. row \in lineage
    BY <1>1 DEF Positions, Graph, LineageExact
  <2>2. row.relationship = id /\ row.sequence = m
    OBVIOUS
  <2> HIDE DEF row
  <2>3. QED
    BY <2>1, <2>2 DEF LineageOf
<1>4. QED
  BY <1>2, <1>3 DEF Spans, EndsOf

LEMMA SceneRefers ==
    ASSUME Sound, NEW root \in DOMAIN scenes
    PROVE  /\ EndsOf(scenes[root].span) \subseteq scenes[root].observations
           /\ scenes[root].state \in {t.to : t \in scenes[root].transitions}
           /\ \A id \in DOMAIN scenes[root].relationships :
                 EndsOf(scenes[root].relationships[id])
                    \subseteq scenes[root].observations
<1> DEFINE b == checkpoint["scene"]
           scene == scenes[root]
           members == MembersOf(root, b)
<1>1. Ground /\ Graph /\ ScenesTrue /\ Basics
  BY DEF Sound, Pipeline, Ground
<1>2. b \in Nat /\ b <= checkpoint["correlation"]
  BY <1>1, Counts
<1>3. root \in Roots(b) /\ scene = PlanOf(root, b)
  BY <1>1 DEF ScenesTrue
<1>4. /\ scene.state = StateOf(root, b)
      /\ scene.span = SpanOver(PositionsOf(members, b))
      /\ scene.relationships = MemberSpans(root, b)
      /\ scene.observations = PositionsOf(members, b)
      /\ scene.transitions = TransitionsOf(root, b)
  BY <1>3, PlanFields
<1>5. ASSUME NEW S \in SUBSET DOMAIN log, S # {} PROVE EndsOf(SpanOver(S)) \subseteq S
  <2>1. Spans(SpanOver(S), S)
    BY <1>1, <1>5, SpanOverIs
  <2>2. QED
    BY <2>1 DEF Spans, EndsOf
<1>6. ASSUME NEW id \in members
      PROVE  /\ Lineage(id, b) \in SUBSET DOMAIN log /\ Lineage(id, b) # {}
             /\ Lineage(id, b) \subseteq PositionsOf(members, b)
  <2>1. Lineage(id, b) \in SUBSET DOMAIN log
    BY <1>1, <1>2, LineageIs
  <2>2. Lineage(id, b) # {}
    BY <1>1, <1>2, <1>3, MembersKnown
  <2> HIDE DEF members
  <2>3. QED
    BY <2>1, <2>2 DEF PositionsOf
<1>7. root \in members
  BY DEF MembersOf
<1>8. PositionsOf(members, b) \in SUBSET DOMAIN log /\ PositionsOf(members, b) # {}
  BY <1>6, <1>7 DEF PositionsOf
<1>9. scene.state \in {t.to : t \in scene.transitions}
  <2> DEFINE first == Transition("potential", "observed",
                                 FirstTrigger(RootDerivations(root, b)))
             second == Transition("observed", "confirmed",
                                  FirstTrigger(FirstLayer(root, b)))
  <2>1. first.to = "observed" /\ second.to = "confirmed"
    BY DEF Transition
  <2>2. CASE FirstLayer(root, b) = {}
    BY <1>4, <2>1, <2>2 DEF StateOf, TransitionsOf
  <2>3. CASE FirstLayer(root, b) # {}
    BY <1>4, <2>1, <2>3 DEF StateOf, TransitionsOf
  <2>4. QED
    BY <2>2, <2>3
<1> HIDE DEF b, scene, members
<1>10. EndsOf(scene.span) \subseteq scene.observations
  BY <1>4, <1>5, <1>8
<1>11. ASSUME NEW id \in DOMAIN scene.relationships
       PROVE  EndsOf(scene.relationships[id]) \subseteq scene.observations
  <2>1. id \in members /\ scene.relationships[id] = SpanOver(Lineage(id, b))
    BY <1>4 DEF MemberSpans, members
  <2>2. QED
    BY <1>4, <1>5, <1>6, <2>1
<1>12. QED
  BY <1>9, <1>10, <1>11 DEF scene

\* A relationship is derived once at a position.
LEMMA OneDerivation ==
    ASSUME Sound, NEW d \in derivations, NEW e \in derivations,
           d.relationship = e.relationship, d.sequence = e.sequence
    PROVE  d = e
BY Layers DEF Sound, Pipeline, Graph

-----------------------------------------------------------------------------
(* Lineage replies.                                                        *)

QueryStep == QueriesNext \/ UNCHANGED queryVars

\* A reader changes nothing of the pipeline, and takes no step with it.
LEMMA ReadersOnlyRead ==
    ASSUME QueryStep
    PROVE  /\ [Next]_vars
           /\ reader' = reader \/ UNCHANGED vars
BY DEF QueryStep, QueriesNext, queryVars, StartListing, ChangeQuery, NextPage,
   StartLineage, NextStatement

LEMMA SoundBesideReaders == QueriesSpec => []Sound
<1>1. QueriesInit => Sound
  BY InitialSound DEF QueriesInit
<1>2. Sound /\ [QueriesNext]_queryVars => Sound'
  BY ReadersOnlyRead, SoundStep DEF QueryStep
<1>3. QED
  BY <1>1, <1>2, PTL DEF QueriesSpec

\* The first k statements of a reply.
Upto(kind, k) == {Statements[kind][i] : i \in 1..k}

LEMMA StatementLists ==
    /\ DOMAIN Statements = {"entity", "relationship", "scene"}
    /\ Statements["entity"] = EntityStatements
    /\ Statements["relationship"] = RelationshipStatements
    /\ Statements["scene"] = SceneStatements
    /\ Len(EntityStatements) = 4
    /\ Len(RelationshipStatements) = 6
    /\ Len(SceneStatements) = 5
BY DEF Statements, EntityStatements, RelationshipStatements, SceneStatements

LEMMA StatementsDiffer ==
    ASSUME NEW kind \in DOMAIN Statements,
           NEW i \in 1..Len(Statements[kind]), NEW j \in 1..Len(Statements[kind]),
           Statements[kind][i] = Statements[kind][j]
    PROVE  i = j
<1>1. CASE kind = "entity"
  <2>1. i \in {1, 2, 3, 4} /\ j \in {1, 2, 3, 4}
    BY <1>1, StatementLists
  <2>2. QED
    BY <1>1, <2>1, StatementLists DEF EntityStatements
<1>2. CASE kind = "relationship"
  <2>1. i \in {1, 2, 3, 4, 5, 6} /\ j \in {1, 2, 3, 4, 5, 6}
    BY <1>2, StatementLists
  <2>2. QED
    BY <1>2, <2>1, StatementLists DEF RelationshipStatements
<1>3. CASE kind = "scene"
  <2>1. i \in {1, 2, 3, 4, 5} /\ j \in {1, 2, 3, 4, 5}
    BY <1>3, StatementLists
  <2>2. QED
    BY <1>3, <2>1, StatementLists DEF SceneStatements
<1>4. QED
  BY <1>1, <1>2, <1>3, StatementLists

LEMMA CountUpto ==
    ASSUME NEW kind \in DOMAIN Statements, NEW k \in 0..Len(Statements[kind])
    PROVE  IsFiniteSet(Upto(kind, k)) /\ Cardinality(Upto(kind, k)) = k
<1> DEFINE S == {n \in Nat : n <= Len(Statements[kind]) =>
                    IsFiniteSet(Upto(kind, n)) /\ Cardinality(Upto(kind, n)) = n}
<1>0. Len(Statements[kind]) \in Nat
  BY StatementLists
<1>1. 0 \in S
  <2>1. Upto(kind, 0) = {}
    BY DEF Upto
  <2>2. QED
    BY <2>1, FS_EmptySet
<1>2. ASSUME NEW n \in Nat, n \in S PROVE n + 1 \in S
  <2> SUFFICES ASSUME n + 1 <= Len(Statements[kind])
               PROVE  IsFiniteSet(Upto(kind, n + 1)) /\ Cardinality(Upto(kind, n + 1)) = n + 1
    OBVIOUS
  <2>1. IsFiniteSet(Upto(kind, n)) /\ Cardinality(Upto(kind, n)) = n
    BY <1>0, <1>2
  <2>2. Upto(kind, n + 1) = Upto(kind, n) \cup {Statements[kind][n + 1]}
    <3>1. 1..(n + 1) = 1..n \cup {n + 1}
      OBVIOUS
    <3>2. QED
      BY <3>1 DEF Upto
  <2>3. Statements[kind][n + 1] \notin Upto(kind, n)
    <3>1. \A i \in 1..n : Statements[kind][i] # Statements[kind][n + 1]
      BY <1>0, StatementsDiffer
    <3>2. QED
      BY <3>1 DEF Upto
  <2> DEFINE U == Upto(kind, n)
             s == Statements[kind][n + 1]
  <2> HIDE DEF S, U, s
  <2>4. IsFiniteSet(U) /\ Cardinality(U) = n /\ s \notin U
    BY <2>1, <2>3 DEF U, s
  <2>5. IsFiniteSet(U \cup {s}) /\ Cardinality(U \cup {s}) = n + 1
    BY <2>4, FS_AddElement
  <2>6. QED
    BY <2>2, <2>5 DEF U, s
<1> HIDE DEF S
<1>3. Nat \subseteq S
  BY <1>1, <1>2, Induction
<1>4. QED
  BY <1>0, <1>3 DEF S

-----------------------------------------------------------------------------

EntityReply(reply, id) ==
    LET named == EndsOf(reply.row.span) \cup {reply.row.claimed[2]}
    IN  /\ named \subseteq ObservationsOf(id)
        /\ "observations" \in DOMAIN reply => named \subseteq reply.observations

RelationshipReply(reply, id) ==
    /\ EndsOf(reply.row.span) \subseteq LineageOf(id)
    /\ "observations" \in DOMAIN reply =>
          EndsOf(reply.row.span) \subseteq reply.observations
    /\ "derivations" \in DOMAIN reply =>
          \A n \in reply.derivations : \E d \in DerivationsNow(id) : d.sequence = n
    /\ "supports" \in DOMAIN reply =>
          \A d \in DerivationsNow(id) : d.sequence \in reply.derivations =>
             {d.sequence} \X d.supports \subseteq reply.supports
    /\ "derivationEvidence" \in DOMAIN reply =>
          \A d \in DerivationsNow(id) : d.sequence \in reply.derivations =>
             {d.sequence} \X (d.triggerEvidence \cup d.supportEvidence)
                \subseteq reply.derivationEvidence

\* The ends of the relationships of a scene.
MemberEnds(spans) == UNION {EndsOf(spans[r]) : r \in DOMAIN spans}

SceneReply(reply, id) ==
    /\ EndsOf(reply.row.span) \subseteq scenes[id].observations
    /\ reply.row.state \in {t.to : t \in scenes[id].transitions}
    /\ "relationships" \in DOMAIN reply =>
          MemberEnds(reply.relationships) \subseteq scenes[id].observations
    /\ "observations" \in DOMAIN reply =>
          EndsOf(reply.row.span) \cup MemberEnds(reply.relationships)
             \subseteq reply.observations
    /\ "transitions" \in DOMAIN reply =>
          reply.row.state \in {t.to : t \in reply.transitions}

\* The statements are executed in their order.
StatementsRead(kind, reply) ==
    \E k \in 1..Len(Statements[kind]) : DOMAIN reply = Upto(kind, k)

ReplyTrue ==
    reader.kind \in DOMAIN Statements =>
        /\ reader = [kind |-> reader.kind, id |-> reader.id,
                     reply |-> reader.reply]
        /\ reader.id \in Rows(reader.kind)
        /\ StatementsRead(reader.kind, reader.reply)
        /\ reader.kind = "entity" => EntityReply(reader.reply, reader.id)
        /\ reader.kind = "relationship" =>
              RelationshipReply(reader.reply, reader.id)
        /\ reader.kind = "scene" => SceneReply(reader.reply, reader.id)

\* A relationship is derived once at a position.
DerivedOnce ==
    \A d, e \in derivations :
       d.relationship = e.relationship /\ d.sequence = e.sequence => d = e

LEMMA SoundDerivesOnce == Sound => DerivedOnce
BY OneDerivation DEF DerivedOnce

LEMMA SoundDerivesOnceNext == Sound' => DerivedOnce'
BY SoundDerivesOnce, PTL

LEMMA SupportsAfterDerivations ==
    ASSUME NEW reply, StatementsRead("relationship", reply)
    PROVE  /\ "supports" \in DOMAIN reply => "derivations" \in DOMAIN reply
           /\ "derivationEvidence" \in DOMAIN reply => "derivations" \in DOMAIN reply
<1>1. PICK k \in 1..6 : DOMAIN reply = Upto("relationship", k)
  BY StatementLists DEF StatementsRead
<1>2. k \in {1, 2, 3, 4, 5, 6}
  OBVIOUS
<1>3. \A n \in 1..6 : n <= k => RelationshipStatements[n] \in DOMAIN reply
  BY <1>1, StatementLists DEF Upto
<1>4. k <= 3 => /\ "supports" \notin DOMAIN reply
                /\ "derivationEvidence" \notin DOMAIN reply
  <2>1. \A n \in 1..3 : RelationshipStatements[n] \in {"row", "observations", "evidence"}
    <3>1. 1..3 = {1, 2, 3}
      OBVIOUS
    <3>2. QED
      BY <3>1 DEF RelationshipStatements
  <2>2. k <= 3 => DOMAIN reply \subseteq {"row", "observations", "evidence"}
    <3>1. k <= 3 => \A n \in 1..k : n \in 1..3
      OBVIOUS
    <3>2. QED
      BY <1>1, <2>1, <3>1, StatementLists DEF Upto
  <2>3. QED
    BY <2>2
<1>5. RelationshipStatements[4] = "derivations"
  BY DEF RelationshipStatements
<1>6. QED
  BY <1>3, <1>4, <1>5

\* What has been read stays true as the pipeline goes on.
LEMMA RepliesStayTrue ==
    ASSUME Sound, ReplyTrue, Grown, [Next]_vars, reader' = reader
    PROVE  ReplyTrue'
<1> SUFFICES ASSUME reader.kind \in DOMAIN Statements PROVE ReplyTrue'
  BY DEF ReplyTrue
<1>1. PICK kind, id, reply :
         /\ kind = reader.kind /\ id = reader.id /\ reply = reader.reply
  OBVIOUS
<1>2. /\ reader = [kind |-> kind, id |-> id, reply |-> reply]
      /\ id \in Rows(kind) /\ StatementsRead(kind, reply)
      /\ kind = "entity" => EntityReply(reply, id)
      /\ kind = "relationship" => RelationshipReply(reply, id)
      /\ kind = "scene" => SceneReply(reply, id)
  BY <1>1 DEF ReplyTrue
<1>3. kind \in {"entity", "relationship", "scene"}
  BY <1>1, StatementLists
<1>4. id \in Rows(kind)'
  BY <1>2, <1>3 DEF Rows, Grown
<1>5. ASSUME kind = "entity" PROVE EntityReply(reply, id)'
  BY <1>2, <1>5 DEF EntityReply, Grown
<1>6. ASSUME kind = "relationship" PROVE RelationshipReply(reply, id)'
  <2>1. RelationshipReply(reply, id) /\ LineageOf(id) \subseteq LineageOf(id)'
    BY <1>2, <1>6 DEF Grown
  <2>2. DerivationsNow(id) \subseteq DerivationsNow(id)'
    BY DEF Grown, Added, DerivationsNow
  <2>3. DerivedOnce'
    BY SoundStep, SoundDerivesOnceNext
  <2>4. \A d, e \in DerivationsNow(id)' : d.sequence = e.sequence => d = e
    BY <2>3 DEF DerivationsNow, DerivedOnce
  <2>5. "derivations" \in DOMAIN reply =>
           \A d \in DerivationsNow(id)' :
              d.sequence \in reply.derivations => d \in DerivationsNow(id)
    BY <2>1, <2>2, <2>4 DEF RelationshipReply
  <2>6. /\ "supports" \in DOMAIN reply => "derivations" \in DOMAIN reply
        /\ "derivationEvidence" \in DOMAIN reply => "derivations" \in DOMAIN reply
    BY <1>2, <1>6, SupportsAfterDerivations
  <2>7. QED
    BY <2>1, <2>2, <2>5, <2>6 DEF RelationshipReply
<1>7. ASSUME kind = "scene" PROVE SceneReply(reply, id)'
  <2>1. SceneReply(reply, id) /\ id \in DOMAIN scenes
    BY <1>2, <1>7 DEF Rows
  <2>2. /\ scenes[id].observations \subseteq scenes'[id].observations
        /\ scenes[id].transitions \subseteq scenes'[id].transitions
    BY <2>1 DEF Grown
  <2>3. QED
    BY <2>1, <2>2 DEF SceneReply
<1>8. QED
  BY <1>1, <1>2, <1>3, <1>4, <1>5, <1>6, <1>7 DEF ReplyTrue

LEMMA Statement1 ==
    /\ "row" \in Upto("entity", 1) /\ Upto("entity", 1) = {"row"}
    /\ Upto("relationship", 1) = {"row"}
    /\ Upto("scene", 1) = {"row"}
BY StatementLists DEF Upto, EntityStatements, RelationshipStatements, SceneStatements

LEMMA ReadsRow ==
    ASSUME NEW kind \in DOMAIN Statements, NEW reply, StatementsRead(kind, reply)
    PROVE  "row" \in DOMAIN reply
<1>1. PICK k \in 1..Len(Statements[kind]) : DOMAIN reply = Upto(kind, k)
  BY DEF StatementsRead
<1>2. 1 \in 1..k
  BY <1>1, StatementLists
<1>3. Statements[kind][1] = "row"
  BY StatementLists DEF EntityStatements, RelationshipStatements, SceneStatements
<1>4. QED
  BY <1>1, <1>2, <1>3 DEF Upto

LEMMA OneToStart ==
    ASSUME NEW kind \in DOMAIN Statements
    PROVE  1 \in 1..Len(Statements[kind]) /\ Upto(kind, 1) = {"row"}
<1>1. kind \in {"entity", "relationship", "scene"}
  BY StatementLists
<1>2. CASE kind = "entity"
  BY <1>2, StatementLists, Statement1
<1>3. CASE kind = "relationship"
  BY <1>3, StatementLists, Statement1
<1>4. CASE kind = "scene"
  BY <1>4, StatementLists, Statement1
<1>5. QED
  BY <1>1, <1>2, <1>3, <1>4

\* The reply a first statement makes.
LEMMA FirstReply ==
    ASSUME Sound, NEW kind \in DOMAIN Statements, NEW id \in Rows(kind),
           NEW reply, reply = [s \in {"row"} |-> Part(kind, id, s)]
    PROVE  /\ StatementsRead(kind, reply)
           /\ kind = "entity" => EntityReply(reply, id)
           /\ kind = "relationship" => RelationshipReply(reply, id)
           /\ kind = "scene" => SceneReply(reply, id)
<1>1. DOMAIN reply = {"row"} /\ reply.row = Part(kind, id, "row")
  OBVIOUS
<1>2. StatementsRead(kind, reply)
  <2>1. 1 \in 1..Len(Statements[kind]) /\ Upto(kind, 1) = {"row"}
    BY OneToStart
  <2>2. QED
    BY <1>1, <2>1 DEF StatementsRead
<1>3. ASSUME kind = "entity" PROVE EntityReply(reply, id)
  <2>1. id \in DOMAIN entities
    BY <1>3 DEF Rows
  <2>2. reply.row = entities[id]
    BY <1>1, <1>3 DEF Part, EntityPart
  <2>3. QED
    BY <1>1, <2>1, <2>2, EntityRefers DEF EntityReply
<1>4. ASSUME kind = "relationship" PROVE RelationshipReply(reply, id)
  <2>1. id \in DOMAIN relationships
    BY <1>4 DEF Rows
  <2>2. reply.row = relationships[id]
    BY <1>1, <1>4 DEF Part, RelationshipPart
  <2>3. QED
    BY <1>1, <2>1, <2>2, RelationshipRefers DEF RelationshipReply
<1>5. ASSUME kind = "scene" PROVE SceneReply(reply, id)
  <2>1. id \in DOMAIN scenes
    BY <1>5 DEF Rows
  <2>2. reply.row = [state |-> scenes[id].state, span |-> scenes[id].span]
    BY <1>1, <1>5 DEF Part, ScenePart
  <2>3. reply.row.state = scenes[id].state /\ reply.row.span = scenes[id].span
    BY <2>2
  <2>4. QED
    BY <1>1, <2>1, <2>3, SceneRefers DEF SceneReply
<1>6. QED
  BY <1>2, <1>3, <1>4, <1>5

\* The statement after the first k.
LEMMA NextInOrder ==
    ASSUME NEW kind \in DOMAIN Statements, NEW reply, StatementsRead(kind, reply),
           Cardinality(DOMAIN reply) # Len(Statements[kind]),
           NEW next,
           DOMAIN next = DOMAIN reply \cup
                           {Statements[kind][Cardinality(DOMAIN reply) + 1]}
    PROVE  StatementsRead(kind, next)
<1>1. PICK k \in 1..Len(Statements[kind]) : DOMAIN reply = Upto(kind, k)
  BY DEF StatementsRead
<1>2. Cardinality(DOMAIN reply) = k
  BY <1>1, CountUpto, StatementLists
<1>3. k + 1 \in 1..Len(Statements[kind]) /\ 1..(k + 1) = 1..k \cup {k + 1}
  BY <1>2, StatementLists
<1>4. DOMAIN next = Upto(kind, k + 1)
  BY <1>1, <1>2, <1>3 DEF Upto
<1>5. QED
  BY <1>3, <1>4 DEF StatementsRead

\* A complete reply has read everything.
LEMMA AllRead ==
    ASSUME NEW kind \in DOMAIN Statements, NEW reply, StatementsRead(kind, reply),
           Cardinality(DOMAIN reply) = Len(Statements[kind]),
           NEW i \in 1..Len(Statements[kind])
    PROVE  Statements[kind][i] \in DOMAIN reply
<1>1. PICK k \in 1..Len(Statements[kind]) : DOMAIN reply = Upto(kind, k)
  BY DEF StatementsRead
<1>2. k = Len(Statements[kind])
  BY <1>1, CountUpto, StatementLists
<1>3. QED
  BY <1>1, <1>2 DEF Upto

\* What a later statement adds to a reply.
LEMMA EntityReplyGoesOn ==
    ASSUME NEW id, NEW reply, EntityReply(reply, id), "row" \in DOMAIN reply,
           NEW statement,
           NEW next,
           next = [s \in DOMAIN reply \cup {statement} |->
                     IF s \in DOMAIN reply THEN reply[s]
                     ELSE Part("entity", id, s)]
    PROVE  EntityReply(next, id)
<1>1. DOMAIN next = DOMAIN reply \cup {statement} /\ next.row = reply.row
  OBVIOUS
<1>2. CASE "observations" \in DOMAIN reply
  <2>1. next.observations = reply.observations
    BY <1>2
  <2>2. QED
    BY <1>1, <1>2, <2>1 DEF EntityReply
<1>3. CASE "observations" \notin DOMAIN reply
  <2>1. "observations" \in DOMAIN next => next.observations = ObservationsOf(id)
    BY <1>3 DEF Part, EntityPart, ObservationsOf
  <2>2. QED
    BY <1>1, <2>1 DEF EntityReply
<1>4. QED
  BY <1>2, <1>3

LEMMA RelationshipReplyGoesOn ==
    ASSUME NEW id, NEW reply, RelationshipReply(reply, id),
           "row" \in DOMAIN reply, StatementsRead("relationship", reply),
           NEW statement, NEW next, StatementsRead("relationship", next),
           next = [s \in DOMAIN reply \cup {statement} |->
                     IF s \in DOMAIN reply THEN reply[s]
                     ELSE Part("relationship", id, s)]
    PROVE  RelationshipReply(next, id)
<1>1. DOMAIN next = DOMAIN reply \cup {statement} /\ next.row = reply.row
  OBVIOUS
<1>2. \A s \in DOMAIN next :
         next[s] = IF s \in DOMAIN reply THEN reply[s]
                   ELSE RelationshipPart(id, s)
  BY DEF Part
<1>3. "observations" \in DOMAIN next =>
          EndsOf(next.row.span) \subseteq next.observations
  <2>1. RelationshipPart(id, "observations") = LineageOf(id)
    BY DEF RelationshipPart, LineageOf
  <2>2. QED
    BY <1>1, <1>2, <2>1 DEF RelationshipReply
<1>4. "derivations" \in DOMAIN next =>
          \A n \in next.derivations : \E d \in DerivationsNow(id) : d.sequence = n
  <2>1. RelationshipPart(id, "derivations") = {d.sequence : d \in DerivationsNow(id)}
    BY DEF RelationshipPart
  <2>2. QED
    BY <1>2, <2>1 DEF RelationshipReply
<1>5. /\ "supports" \in DOMAIN reply => next.derivations = reply.derivations
      /\ "derivationEvidence" \in DOMAIN reply => next.derivations = reply.derivations
  BY <1>1, <1>2, SupportsAfterDerivations
<1>6. "supports" \in DOMAIN next =>
          \A d \in DerivationsNow(id) : d.sequence \in next.derivations =>
             {d.sequence} \X d.supports \subseteq next.supports
  <2>1. CASE "supports" \in DOMAIN reply
    BY <1>2, <1>5, <2>1 DEF RelationshipReply
  <2>2. CASE "supports" \notin DOMAIN reply
    <3>1. RelationshipPart(id, "supports") =
             UNION {{d.sequence} \X d.supports : d \in DerivationsNow(id)}
      BY DEF RelationshipPart
    <3>2. QED
      BY <1>2, <2>2, <3>1
  <2>3. QED
    BY <2>1, <2>2
<1>7. "derivationEvidence" \in DOMAIN next =>
          \A d \in DerivationsNow(id) : d.sequence \in next.derivations =>
             {d.sequence} \X (d.triggerEvidence \cup d.supportEvidence)
                \subseteq next.derivationEvidence
  <2>1. CASE "derivationEvidence" \in DOMAIN reply
    BY <1>2, <1>5, <2>1 DEF RelationshipReply
  <2>2. CASE "derivationEvidence" \notin DOMAIN reply
    <3>1. RelationshipPart(id, "derivationEvidence") =
             UNION {{d.sequence} \X (d.triggerEvidence \cup d.supportEvidence) :
                      d \in DerivationsNow(id)}
      BY DEF RelationshipPart
    <3> DEFINE pairs(d) ==
                 {d.sequence} \X (d.triggerEvidence \cup d.supportEvidence)
    <3>2. RelationshipPart(id, "derivationEvidence")
             = UNION {pairs(d) : d \in DerivationsNow(id)}
      BY <3>1
    <3> HIDE DEF pairs
    <3>3. \A d \in DerivationsNow(id) :
             pairs(d) \subseteq RelationshipPart(id, "derivationEvidence")
      BY <3>2
    <3>4. "derivationEvidence" \in DOMAIN next =>
             \A d \in DerivationsNow(id) :
                d.sequence \in next.derivations =>
                   pairs(d) \subseteq next.derivationEvidence
      BY <1>2, <2>2, <3>3
    <3>5. QED
      BY <3>4 DEF pairs
  <2>3. QED
    BY <2>1, <2>2
<1>8. EndsOf(next.row.span) \subseteq LineageOf(id)
  BY <1>1 DEF RelationshipReply
<1>9. QED
  BY <1>3, <1>4, <1>6, <1>7, <1>8 DEF RelationshipReply

\* The relationships of a scene are read before its observations.
LEMMA ObservationsAfterRelationships ==
    ASSUME NEW reply, StatementsRead("scene", reply),
           "observations" \in DOMAIN reply
    PROVE  "relationships" \in DOMAIN reply
<1>1. PICK k \in 1..5 : DOMAIN reply = Upto("scene", k)
  BY StatementLists DEF StatementsRead
<1>2. CASE k <= 3
  <2>1. \A n \in 1..3 : SceneStatements[n] # "observations"
    <3>1. 1..3 = {1, 2, 3}
      OBVIOUS
    <3>2. QED
      BY <3>1 DEF SceneStatements
  <2>2. \A n \in 1..k : n \in 1..3
    BY <1>2
  <2>3. QED
    BY <1>1, <2>1, <2>2, StatementLists DEF Upto
<1>3. CASE ~(k <= 3)
  <2>1. 3 \in 1..k /\ SceneStatements[3] = "relationships"
    BY <1>3 DEF SceneStatements
  <2>2. QED
    BY <1>1, <2>1, StatementLists DEF Upto
<1>4. QED
  BY <1>2, <1>3

LEMMA SceneReplyGoesOn ==
    ASSUME Sound, NEW id \in DOMAIN scenes, NEW reply, SceneReply(reply, id),
           "row" \in DOMAIN reply, StatementsRead("scene", reply),
           NEW statement, NEW next, StatementsRead("scene", next),
           next = [s \in DOMAIN reply \cup {statement} |->
                     IF s \in DOMAIN reply THEN reply[s]
                     ELSE Part("scene", id, s)]
    PROVE  SceneReply(next, id)
<1>1. DOMAIN next = DOMAIN reply \cup {statement} /\ next.row = reply.row
  OBVIOUS
<1>2. \A s \in DOMAIN next :
         next[s] = IF s \in DOMAIN reply THEN reply[s] ELSE ScenePart(id, s)
  BY DEF Part
<1>3. /\ ScenePart(id, "relationships") = scenes[id].relationships
      /\ ScenePart(id, "observations") = scenes[id].observations
      /\ ScenePart(id, "transitions") = scenes[id].transitions
  BY DEF ScenePart
<1>4. "relationships" \in DOMAIN next =>
          MemberEnds(next.relationships) \subseteq scenes[id].observations
  <2>1. MemberEnds(scenes[id].relationships) \subseteq scenes[id].observations
    BY SceneRefers DEF MemberEnds
  <2>2. QED
    BY <1>2, <1>3, <2>1 DEF SceneReply
<1>5. "observations" \in DOMAIN next =>
          EndsOf(next.row.span) \cup MemberEnds(next.relationships)
             \subseteq next.observations
  <2>1. CASE "observations" \in DOMAIN reply
    <3>1. "relationships" \in DOMAIN reply
      BY <2>1, ObservationsAfterRelationships
    <3>2. QED
      BY <1>1, <1>2, <2>1, <3>1 DEF SceneReply
  <2>2. CASE "observations" \notin DOMAIN reply
    <3>1. "observations" \in DOMAIN next => "relationships" \in DOMAIN next
      BY ObservationsAfterRelationships
    <3>2. "observations" \in DOMAIN next => next.observations = scenes[id].observations
      BY <1>2, <1>3, <2>2
    <3>3. QED
      BY <1>1, <1>4, <3>1, <3>2 DEF SceneReply
  <2>3. QED
    BY <2>1, <2>2
<1>6. "transitions" \in DOMAIN next =>
          next.row.state \in {t.to : t \in next.transitions}
  BY <1>1, <1>2, <1>3 DEF SceneReply
<1>7. EndsOf(next.row.span) \subseteq scenes[id].observations
      /\ next.row.state \in {t.to : t \in scenes[id].transitions}
  BY <1>1 DEF SceneReply
<1>8. QED
  BY <1>4, <1>5, <1>6, <1>7 DEF SceneReply

ListKind == {"observations", "entities"}

\* A listing of pages.
Listing(query, cursor, got, atStart, refused, done) ==
    [kind |-> "list", query |-> query, cursor |-> cursor, got |-> got,
     atStart |-> atStart, refused |-> refused, done |-> done]

ListShape ==
    reader.kind = "list" =>
       reader = Listing(reader.query, reader.cursor, reader.got,
                        reader.atStart, reader.refused, reader.done)

LEMMA ListFields ==
    ASSUME NEW query, NEW cursor, NEW got, NEW atStart, NEW refused, NEW done,
           reader' = Listing(query, cursor, got, atStart, refused, done)
    PROVE  /\ reader'.kind = "list" /\ reader'.query = query
           /\ reader'.cursor = cursor /\ reader'.got = got
           /\ reader'.atStart = atStart /\ reader'.refused = refused
           /\ reader'.done = done
           /\ ListShape'
<1>1. /\ reader'.kind = "list" /\ reader'.query = query
      /\ reader'.cursor = cursor /\ reader'.got = got
      /\ reader'.atStart = atStart /\ reader'.refused = refused
      /\ reader'.done = done
  BY DEF Listing
<1>2. QED
  BY <1>1 DEF ListShape

LEMMA PageStep ==
    ASSUME ListShape, NextPage
    PROVE  LET page == Page(reader.query, reader.cursor)
           IN  reader' = Listing(reader.query, NextCursor(reader.query, page),
                                 reader.got \o page.items, reader.atStart,
                                 reader.refused, ~page.hasMore)
<1>1. PICK q, c, g, a, r, d :
         /\ q = reader.query /\ c = reader.cursor /\ g = reader.got
         /\ a = reader.atStart /\ r = reader.refused /\ d = reader.done
  OBVIOUS
<1>2. reader = Listing(q, c, g, a, r, d)
  BY <1>1 DEF ListShape, NextPage
<1>3. PICK page : page = Page(q, c)
  OBVIOUS
<1>4. PICK cursor, got, done :
         /\ cursor = NextCursor(q, page) /\ got = g \o page.items
         /\ done = ~page.hasMore
  OBVIOUS
<1>5. reader' = [reader EXCEPT !.got = got, !.cursor = cursor, !.done = done]
  BY <1>1, <1>3, <1>4 DEF NextPage
<1>6. reader' = Listing(q, cursor, got, a, r, done)
  BY <1>2, <1>5 DEF Listing
<1>7. QED
  BY <1>1, <1>3, <1>4, <1>6

LEMMA ChangeStep ==
    ASSUME ListShape, NEW query, ChangeQuery(query)
    PROVE  reader' = Listing(reader.query, reader.cursor, reader.got,
                             reader.atStart, TRUE, reader.done)
<1>1. PICK q, c, g, a, r, d :
         /\ q = reader.query /\ c = reader.cursor /\ g = reader.got
         /\ a = reader.atStart /\ r = reader.refused /\ d = reader.done
  OBVIOUS
<1>2. reader = Listing(q, c, g, a, r, d)
  BY <1>1 DEF ListShape, ChangeQuery
<1>3. reader' = [reader EXCEPT !.refused = TRUE]
  BY DEF ChangeQuery
<1>4. reader' = Listing(q, c, g, a, TRUE, d)
  BY <1>2, <1>3 DEF Listing
<1>5. QED
  BY <1>1, <1>4

LEMMA StartStep ==
    ASSUME NEW query, StartListing(query)
    PROVE  reader' = Listing(query, {}, << >>, Matching(query), FALSE, FALSE)
BY DEF StartListing, Listing

\* What a step of a reader may be.
LEMMA ReaderSteps ==
    ASSUME QueryStep
    PROVE  \/ reader' = reader
           \/ \E query : query.kind \in ListKind /\ StartListing(query)
           \/ \E query : ChangeQuery(query)
           \/ NextPage
           \/ \E kind \in DOMAIN Statements : \E id \in Rows(kind) :
                 StartLineage(kind, id)
           \/ NextStatement
<1>1. /\ \A source, from : Query(source, from).kind \in ListKind
      /\ \A type : QueryEntities(type).kind \in ListKind
  BY DEF Query, QueryEntities, ListKind
<1>2. QED
  BY <1>1 DEF QueryStep, QueriesNext, queryVars

LEMMA ListShapeStep == ListShape /\ QueryStep => ListShape'
<1> SUFFICES ASSUME ListShape, QueryStep PROVE ListShape'
  OBVIOUS
<1>1. CASE reader' = reader
  BY <1>1 DEF ListShape
<1>2. ASSUME NEW query, StartListing(query) PROVE ListShape'
  BY <1>2, StartStep, ListFields
<1>3. ASSUME NEW query, ChangeQuery(query) PROVE ListShape'
  BY <1>3, ChangeStep, ListFields
<1>4. CASE NextPage
  BY <1>4, PageStep, ListFields
<1>5. ASSUME NEW kind \in DOMAIN Statements, NEW id \in Rows(kind),
             StartLineage(kind, id)
      PROVE  ListShape'
  <2>1. kind # "list"
    BY StatementLists
  <2>2. QED
    BY <1>5, <2>1 DEF StartLineage, ListShape
<1>6. CASE NextStatement
  <2>1. reader.kind \in DOMAIN Statements /\ reader.kind # "list"
    BY <1>6, StatementLists DEF NextStatement
  <2>2. PICK reply : reader' = [reader EXCEPT !.reply = reply]
    BY <1>6 DEF NextStatement
  <2>3. QED
    BY <2>1, <2>2 DEF ListShape
<1>7. QED
  BY <1>1, <1>2, <1>3, <1>4, <1>5, <1>6, ReaderSteps

LEMMA ReplyStep ==
    ASSUME Sound, ListShape, ReplyTrue, QueryStep PROVE ReplyTrue'
<1>0. [Next]_vars /\ Grown /\ "list" \notin DOMAIN Statements
  BY ReadersOnlyRead, Grows, StatementLists
<1>1. CASE reader' = reader
  BY <1>0, <1>1, RepliesStayTrue
<1>2. ASSUME NEW query, StartListing(query) PROVE ReplyTrue'
  <2>1. reader'.kind = "list"
    BY <1>2, StartStep, ListFields
  <2>2. QED
    BY <1>0, <2>1 DEF ReplyTrue
<1>3. ASSUME NEW query, ChangeQuery(query) PROVE ReplyTrue'
  <2>1. reader'.kind = "list"
    BY <1>3, ChangeStep, ListFields
  <2>2. QED
    BY <1>0, <2>1 DEF ReplyTrue
<1>4. CASE NextPage
  <2>1. reader'.kind = "list"
    BY <1>4, PageStep, ListFields
  <2>2. QED
    BY <1>0, <2>1 DEF ReplyTrue
<1>5. ASSUME NEW kind \in DOMAIN Statements, NEW id \in Rows(kind),
             StartLineage(kind, id)
      PROVE  ReplyTrue'
  <2>1. PICK reply : reply = [s \in {"row"} |-> Part(kind, id, s)]
    OBVIOUS
  <2>2. reader' = [kind |-> kind, id |-> id, reply |-> reply] /\ UNCHANGED vars
    BY <1>5, <2>1 DEF StartLineage
  <2>3. /\ StatementsRead(kind, reply)
        /\ kind = "entity" => EntityReply(reply, id)
        /\ kind = "relationship" => RelationshipReply(reply, id)
        /\ kind = "scene" => SceneReply(reply, id)
    BY <2>1, FirstReply
  <2>4. /\ Rows(kind)' = Rows(kind)
        /\ EntityReply(reply, id)' <=> EntityReply(reply, id)
        /\ RelationshipReply(reply, id)' <=> RelationshipReply(reply, id)
        /\ SceneReply(reply, id)' <=> SceneReply(reply, id)
    BY <2>2 DEF vars, base, entityTables, correlationTables, graphTables, Rows,
       EntityReply, RelationshipReply, SceneReply, ObservationsOf, LineageOf,
       DerivationsNow
  <2>5. reader'.kind = kind /\ reader'.id = id /\ reader'.reply = reply
    BY <2>2
  <2>6. QED
    BY <2>2, <2>3, <2>4, <2>5 DEF ReplyTrue
<1>6. CASE NextStatement
  <2>1. PICK kind, id, reply :
           /\ kind = reader.kind /\ id = reader.id /\ reply = reader.reply
    OBVIOUS
  <2>2. /\ kind \in DOMAIN Statements
        /\ Cardinality(DOMAIN reply) # Len(Statements[kind])
        /\ UNCHANGED vars
    BY <1>6, <2>1 DEF NextStatement, Complete
  <2>3. /\ reader = [kind |-> kind, id |-> id, reply |-> reply]
        /\ id \in Rows(kind) /\ StatementsRead(kind, reply)
        /\ kind = "entity" => EntityReply(reply, id)
        /\ kind = "relationship" => RelationshipReply(reply, id)
        /\ kind = "scene" => SceneReply(reply, id)
    BY <2>1, <2>2 DEF ReplyTrue
  <2>4. PICK statement : statement = Statements[kind][Cardinality(DOMAIN reply) + 1]
    OBVIOUS
  <2>5. PICK next : next = [s \in DOMAIN reply \cup {statement} |->
                              IF s \in DOMAIN reply THEN reply[s]
                              ELSE Part(kind, id, s)]
    OBVIOUS
  <2>6. reader' = [reader EXCEPT !.reply = next]
    BY <1>6, <2>1, <2>4, <2>5 DEF NextStatement
  <2>7. reader' = [kind |-> kind, id |-> id, reply |-> next]
    BY <2>3, <2>6
  <2>8. "row" \in DOMAIN reply
    BY <2>2, <2>3, ReadsRow
  <2>9. StatementsRead(kind, next)
    <3>1. DOMAIN next = DOMAIN reply \cup {statement}
      BY <2>5
    <3>2. QED
      BY <2>2, <2>3, <2>4, <3>1, NextInOrder
  <2>10. kind = "entity" => EntityReply(next, id)
    BY <2>3, <2>5, <2>8, EntityReplyGoesOn
  <2>11. kind = "relationship" => RelationshipReply(next, id)
    BY <2>3, <2>5, <2>8, <2>9, RelationshipReplyGoesOn
  <2>12. kind = "scene" => SceneReply(next, id)
    <3>1. kind = "scene" => id \in DOMAIN scenes
      BY <2>3 DEF Rows
    <3>2. QED
      BY <2>3, <2>5, <2>8, <2>9, <3>1, SceneReplyGoesOn
  <2>13. /\ Rows(kind)' = Rows(kind)
         /\ EntityReply(next, id)' <=> EntityReply(next, id)
         /\ RelationshipReply(next, id)' <=> RelationshipReply(next, id)
         /\ SceneReply(next, id)' <=> SceneReply(next, id)
    BY <2>2 DEF vars, base, entityTables, correlationTables, graphTables, Rows,
       EntityReply, RelationshipReply, SceneReply, ObservationsOf, LineageOf,
       DerivationsNow
  <2>14. reader'.kind = kind /\ reader'.id = id /\ reader'.reply = next
    BY <2>7
  <2>15. QED
    BY <2>3, <2>7, <2>9, <2>10, <2>11, <2>12, <2>13, <2>14 DEF ReplyTrue
<1>7. QED
  BY <1>1, <1>2, <1>3, <1>4, <1>5, <1>6, ReaderSteps

LEMMA ReplyIsComplete ==
    ASSUME ReplyTrue, Complete PROVE LineageReplyComplete
<1>1. PICK kind, id, reply :
         /\ kind = reader.kind /\ id = reader.id /\ reply = reader.reply
  OBVIOUS
<1>2. /\ kind \in DOMAIN Statements
      /\ Cardinality(DOMAIN reply) = Len(Statements[kind])
  BY <1>1 DEF Complete
<1>3. /\ StatementsRead(kind, reply)
      /\ kind = "entity" => EntityReply(reply, id)
      /\ kind = "relationship" => RelationshipReply(reply, id)
      /\ kind = "scene" => SceneReply(reply, id)
  BY <1>1, <1>2 DEF ReplyTrue
<1>4. \A i \in 1..Len(Statements[kind]) : Statements[kind][i] \in DOMAIN reply
  BY <1>2, <1>3, AllRead
<1>5. CASE kind = "entity"
  <2>1. 2 \in 1..Len(Statements[kind]) /\ Statements[kind][2] = "observations"
    BY <1>5, StatementLists DEF EntityStatements
  <2>2. "observations" \in DOMAIN reply
    BY <1>4, <2>1
  <2>3. QED
    BY <1>1, <1>3, <1>5, <2>2 DEF EntityReply, LineageReplyComplete
<1>6. CASE kind = "relationship"
  <2>1. /\ \A i \in {2, 5, 6} : i \in 1..Len(Statements[kind])
        /\ Statements[kind][2] = "observations"
        /\ Statements[kind][5] = "supports"
        /\ Statements[kind][6] = "derivationEvidence"
    BY <1>6, StatementLists DEF RelationshipStatements
  <2>2. {"observations", "supports", "derivationEvidence"} \subseteq DOMAIN reply
    BY <1>4, <2>1
  <2>3. QED
    BY <1>1, <1>3, <1>6, <2>2 DEF RelationshipReply, LineageReplyComplete
<1>7. CASE kind = "scene"
  <2>1. /\ \A i \in {3, 4, 5} : i \in 1..Len(Statements[kind])
        /\ Statements[kind][4] = "observations"
        /\ Statements[kind][5] = "transitions"
    BY <1>7, StatementLists DEF SceneStatements
  <2>2. {"observations", "transitions"} \subseteq DOMAIN reply
    BY <1>4, <2>1
  <2>3. QED
    BY <1>1, <1>3, <1>7, <2>2 DEF SceneReply, MemberEnds, LineageReplyComplete
<1>8. kind \in {"entity", "relationship", "scene"}
  BY <1>2, StatementLists
<1>9. QED
  BY <1>5, <1>6, <1>7, <1>8

LEMMA InitialReader == QueriesInit => ListShape /\ ReplyTrue
<1> SUFFICES ASSUME QueriesInit PROVE ListShape /\ ReplyTrue
  OBVIOUS
<1>1. reader.kind = "idle"
  BY DEF QueriesInit, Idle
<1>2. "idle" \notin DOMAIN Statements
  BY StatementLists
<1>3. QED
  BY <1>1, <1>2 DEF ListShape, ReplyTrue

LEMMA RepliesTrue == QueriesSpec => [](ListShape /\ ReplyTrue)
<1>1. Sound /\ ListShape /\ ReplyTrue /\ [QueriesNext]_queryVars
         => ListShape' /\ ReplyTrue'
  BY ListShapeStep, ReplyStep DEF QueryStep
<1>2. QED
  BY <1>1, InitialReader, SoundBesideReaders, PTL DEF QueriesSpec

(***************************************************************************)
(* A lineage reply, composed of statements between which the projectors    *)
(* commit, lacks nothing that an earlier part of it refers to, for every   *)
(* log and every interleaving (get_lineage of the three repositories).     *)
(***************************************************************************)
THEOREM LineageRepliesAreComplete == QueriesSpec => []LineageReplyComplete
<1>1. ReplyTrue => LineageReplyComplete
  <2>1. Complete => (ReplyTrue => LineageReplyComplete)
    BY ReplyIsComplete
  <2>2. QED
    BY <2>1 DEF LineageReplyComplete
<1>2. QED
  BY <1>1, RepliesTrue, PTL

-----------------------------------------------------------------------------
(* Keys of rows and their order.                                           *)

KeysOf(kind) == IF kind = "observations" THEN Nat \X Nat ELSE {0} \X Nat

LEMMA KeyParts ==
    ASSUME NEW kind, NEW k \in KeysOf(kind)
    PROVE  /\ k[1] \in Nat /\ k[2] \in Nat /\ k = << k[1], k[2] >>
           /\ kind # "observations" => k[1] = 0
BY DEF KeysOf

LEMMA StrictOrder ==
    ASSUME NEW kind, NEW a \in KeysOf(kind), NEW b \in KeysOf(kind)
    PROVE  /\ ~Precedes(kind, a, a)
           /\ a = b \/ Precedes(kind, a, b) \/ Precedes(kind, b, a)
           /\ Beyond(kind, a, b) <=> Precedes(kind, b, a)
<1>1. /\ a[1] \in Nat /\ a[2] \in Nat /\ a = << a[1], a[2] >>
      /\ b[1] \in Nat /\ b[2] \in Nat /\ b = << b[1], b[2] >>
      /\ kind # "observations" => a[1] = 0 /\ b[1] = 0
  BY KeyParts
<1>2. a[1] = b[1] /\ a[2] = b[2] => a = b
  BY <1>1
<1>3. CASE kind = "observations"
  BY <1>1, <1>2, <1>3 DEF Precedes, Beyond
<1>4. CASE kind # "observations"
  BY <1>1, <1>2, <1>4 DEF Precedes, Beyond
<1>5. QED
  BY <1>3, <1>4

LEMMA OrderTransitive ==
    ASSUME NEW kind, NEW a \in KeysOf(kind), NEW b \in KeysOf(kind),
           NEW c \in KeysOf(kind), Precedes(kind, a, b), Precedes(kind, b, c)
    PROVE  Precedes(kind, a, c)
<1>1. /\ a[1] \in Nat /\ a[2] \in Nat /\ b[1] \in Nat /\ b[2] \in Nat
      /\ c[1] \in Nat /\ c[2] \in Nat
  BY KeyParts
<1>2. QED
  BY <1>1 DEF Precedes

Increasing(kind, s) ==
    \A i, j \in DOMAIN s : i < j => Precedes(kind, s[i], s[j])

Read(s) == {s[i] : i \in DOMAIN s}

\* A finite nonempty set of keys has a last one.
LEMMA LastKey ==
    ASSUME NEW kind, NEW K \in SUBSET KeysOf(kind), IsFiniteSet(K), K # {}
    PROVE  \E m \in K : \A k \in K \ {m} : Precedes(kind, k, m)
<1> DEFINE HasLast(L) == \E m \in L : \A k \in L \ {m} : Precedes(kind, k, m)
           S == {n \in Nat : \A L \in SUBSET KeysOf(kind) :
                    IsFiniteSet(L) /\ Cardinality(L) = n + 1 => HasLast(L)}
<1>1. 0 \in S
  <2> SUFFICES ASSUME NEW L \in SUBSET KeysOf(kind), IsFiniteSet(L), Cardinality(L) = 0 + 1
               PROVE  HasLast(L)
    OBVIOUS
  <2>0. Cardinality(L) = 1
    OBVIOUS
  <2>1. PICK x : L = {x}
    BY <2>0, FS_Singleton
  <2>2. QED
    BY <2>1
<1>2. ASSUME NEW n \in Nat, n \in S PROVE n + 1 \in S
  <2> SUFFICES ASSUME NEW L \in SUBSET KeysOf(kind), IsFiniteSet(L),
                      Cardinality(L) = (n + 1) + 1
               PROVE  HasLast(L)
    OBVIOUS
  <2>1. PICK x \in L : TRUE
    BY FS_EmptySet
  <2>2. IsFiniteSet(L \ {x}) /\ Cardinality(L \ {x}) = n + 1
    BY <2>1, FS_RemoveElement
  <2>3. HasLast(L \ {x})
    BY <1>2, <2>2
  <2>4. PICK y \in L \ {x} : \A k \in (L \ {x}) \ {y} : Precedes(kind, k, y)
    BY <2>3
  <2>5. CASE Precedes(kind, x, y)
    BY <2>4, <2>5
  <2>6. CASE Precedes(kind, y, x)
    <3>1. ASSUME NEW k \in L \ {x} PROVE Precedes(kind, k, x)
      BY <2>1, <2>4, <2>6, <3>1, OrderTransitive
    <3>2. QED
      BY <2>1, <3>1
  <2>7. QED
    BY <2>1, <2>4, <2>5, <2>6, StrictOrder
<1> HIDE DEF S
<1>3. Nat \subseteq S
  BY <1>1, <1>2, Induction
<1>4. Cardinality(K) - 1 \in Nat /\ Cardinality(K) = (Cardinality(K) - 1) + 1
  <2>1. Cardinality(K) \in Nat
    BY FS_CardinalityType
  <2>2. Cardinality(K) # 0
    BY FS_EmptySet
  <2>3. QED
    BY <2>1, <2>2
<1>5. HasLast(K)
  BY <1>3, <1>4 DEF S
<1>6. QED
  BY <1>5

LEMMA OrderExists ==
    ASSUME NEW kind, NEW K \in SUBSET KeysOf(kind), IsFiniteSet(K)
    PROVE  \E s \in [1..Cardinality(K) -> K] : Increasing(kind, s)
<1> DEFINE Listed(L, n) == \E s \in [1..n -> L] : Increasing(kind, s)
           S == {n \in Nat : \A L \in SUBSET KeysOf(kind) :
                    IsFiniteSet(L) /\ Cardinality(L) = n => Listed(L, n)}
<1>1. 0 \in S
  <2>1. ASSUME NEW L \in SUBSET KeysOf(kind) PROVE Listed(L, 0)
    <3> DEFINE s == [i \in 1..0 |-> i]
    <3>1. s \in [1..0 -> L] /\ Increasing(kind, s)
      BY DEF Increasing
    <3>2. QED
      BY <3>1
  <2>2. QED
    BY <2>1
<1>2. ASSUME NEW n \in Nat, n \in S PROVE n + 1 \in S
  <2> SUFFICES ASSUME NEW L \in SUBSET KeysOf(kind), IsFiniteSet(L), Cardinality(L) = n + 1
               PROVE  Listed(L, n + 1)
    OBVIOUS
  <2>1. L # {}
    BY FS_EmptySet
  <2> HIDE DEF S
  <2>2. PICK m \in L : \A k \in L \ {m} : Precedes(kind, k, m)
    BY <2>1, LastKey
  <2>3. IsFiniteSet(L \ {m}) /\ Cardinality(L \ {m}) = n
    <3>1. IsFiniteSet(L \ {m}) /\ Cardinality(L \ {m}) = Cardinality(L) - 1
      BY <2>2, FS_RemoveElement
    <3>2. (n + 1) - 1 = n
      OBVIOUS
    <3>3. QED
      BY <3>1, <3>2
  <2>4. PICK s \in [1..n -> L \ {m}] : Increasing(kind, s)
    BY <1>2, <2>3 DEF S
  <2> DEFINE t == [i \in 1..(n + 1) |-> IF i <= n THEN s[i] ELSE m]
  <2>5. t \in [1..(n + 1) -> L]
    <3>1. \A i \in 1..(n + 1) : i <= n => i \in 1..n
      OBVIOUS
    <3>2. QED
      BY <2>4, <3>1
  <2>6. ASSUME NEW i \in 1..(n + 1), NEW j \in 1..(n + 1), i < j
        PROVE  Precedes(kind, t[i], t[j])
    <3>1. i \in 1..n /\ t[i] = s[i]
      BY <2>6
    <3>2. CASE j <= n
      <4>1. j \in 1..n /\ t[j] = s[j]
        BY <3>2
      <4>2. QED
        BY <2>4, <2>6, <3>1, <4>1 DEF Increasing
    <3>3. CASE ~(j <= n)
      <4>1. t[j] = m /\ s[i] \in L \ {m}
        BY <2>4, <3>1, <3>3
      <4>2. QED
        BY <2>2, <3>1, <4>1
    <3>4. QED
      BY <3>2, <3>3
  <2> HIDE DEF t
  <2>7. Increasing(kind, t)
    BY <2>5, <2>6 DEF Increasing
  <2>8. QED
    BY <2>5, <2>7
<1> HIDE DEF S
<1>3. Nat \subseteq S
  BY <1>1, <1>2, Induction
<1>4. Cardinality(K) \in Nat
  BY FS_CardinalityType
<1>5. Listed(K, Cardinality(K))
  BY <1>3, <1>4 DEF S
<1>6. QED
  BY <1>5

\* The rows of a query in their order: all of them, and each once.
LEMMA InOrderIs ==
    ASSUME NEW kind, NEW K \in SUBSET KeysOf(kind), IsFiniteSet(K)
    PROVE  /\ InOrder(kind, K) \in [1..Cardinality(K) -> K]
           /\ Increasing(kind, InOrder(kind, K))
           /\ Read(InOrder(kind, K)) = K
<1> DEFINE s == InOrder(kind, K)
           n == Cardinality(K)
<1>1. \E t \in [1..n -> K] : \A i, j \in DOMAIN t : i < j => Precedes(kind, t[i], t[j])
  BY OrderExists DEF Increasing
<1>2. s \in [1..n -> K] /\ \A i, j \in DOMAIN s : i < j => Precedes(kind, s[i], s[j])
  BY <1>1 DEF InOrder
<1> HIDE DEF s
<1>3. n \in Nat /\ IsFiniteSet(1..n) /\ Cardinality(1..n) = n
  BY FS_CardinalityType, FS_Interval
<1> HIDE DEF n
<1>4. ASSUME NEW i \in 1..n, NEW j \in 1..n, s[i] = s[j] PROVE i = j
  <2>1. ~Precedes(kind, s[i], s[i])
    BY <1>2, StrictOrder
  <2>2. i < j \/ j < i \/ i = j
    BY <1>3
  <2>3. QED
    BY <1>2, <1>4, <2>1, <2>2
<1>5. s \in Injection(1..n, K)
  BY <1>2, <1>4 DEF Injection, IsInjective
<1>6. s \in Surjection(1..n, K)
  BY <1>3, <1>5, FS_Injection DEF n
<1>7. Read(s) = K
  BY <1>2, <1>6 DEF Surjection, Read
<1>8. QED
  BY <1>2, <1>7 DEF s, n, Increasing

LEMMA RankIs ==
    ASSUME NEW order, DOMAIN order \subseteq Nat, NEW id,
           \E i \in DOMAIN order : order[i] = id
    PROVE  Rank(order, id) \in Nat
BY DEF Rank

LEMMA FiniteReferences ==
    ASSUME NEW o \in Payload PROVE IsFiniteSet(EntityIds(o))
<1> DEFINE ids == {t.id : t \in o.object}
<1>1. \A s, t \in o.object : s = t
  BY Schema
<1>2. ids = {} \/ \E x : ids = {x}
  <2>1. CASE o.object = {}
    BY <2>1
  <2>2. CASE o.object # {}
    <3>1. PICK t \in o.object : TRUE
      BY <2>2
    <3>2. ids = {t.id}
      BY <1>1, <3>1
    <3>3. QED
      BY <3>2
  <2>3. QED
    BY <2>1, <2>2
<1> HIDE DEF ids
<1>3. IsFiniteSet(ids)
  BY <1>2, FS_EmptySet, FS_Singleton
<1>4. EntityIds(o) = ids \cup {o.subject.id}
  BY DEF EntityIds, References, ids
<1>5. IsFiniteSet(ids \cup {o.subject.id})
  BY <1>3, FS_AddElement
<1>6. QED
  BY <1>4, <1>5

\* What the first n observations mention.
Mentioned(n) == UNION {EntityIds(log[m]) : m \in 1..n}

LEMMA FinitelyMentioned ==
    ASSUME Basics PROVE IsFiniteSet(Mentioned(Len(log)))
<1> DEFINE S == {n \in Nat : n <= Len(log) => IsFiniteSet(Mentioned(n))}
<1>0. Len(log) \in Nat /\ \A m \in 1..Len(log) : log[m] \in Payload
  BY DEF Basics
<1>1. 0 \in S
  <2>1. Mentioned(0) = {}
    BY DEF Mentioned
  <2>2. QED
    BY <2>1, FS_EmptySet
<1>2. ASSUME NEW n \in Nat, n \in S PROVE n + 1 \in S
  <2> SUFFICES ASSUME n + 1 <= Len(log) PROVE IsFiniteSet(Mentioned(n + 1))
    OBVIOUS
  <2>1. IsFiniteSet(Mentioned(n))
    BY <1>0, <1>2
  <2>2. Mentioned(n + 1) = Mentioned(n) \cup EntityIds(log[n + 1])
    <3>1. 1..(n + 1) = 1..n \cup {n + 1}
      OBVIOUS
    <3>2. QED
      BY <3>1 DEF Mentioned
  <2>3. IsFiniteSet(EntityIds(log[n + 1]))
    BY <1>0, FiniteReferences
  <2> HIDE DEF S
  <2>4. PICK old, new : old = Mentioned(n) /\ new = EntityIds(log[n + 1])
    OBVIOUS
  <2>5. IsFiniteSet(old \cup new)
    BY <2>1, <2>3, <2>4, FS_Union
  <2>6. QED
    BY <2>2, <2>4, <2>5
<1> HIDE DEF S
<1>3. Nat \subseteq S
  BY <1>1, <1>2, Induction
<1>4. QED
  BY <1>0, <1>3 DEF S

LEMMA FiniteEntities ==
    ASSUME Ground, TablesTrue
    PROVE  /\ IsFiniteSet(DOMAIN entities)
           /\ \A id \in DOMAIN entities :
                 \E m \in DOMAIN log : id \in EntityIds(log[m])
<1>0. Basics
  BY DEF Ground
<1>1. ASSUME NEW id \in DOMAIN entities
      PROVE  \E m \in DOMAIN log : id \in EntityIds(log[m])
  <2>1. PICK m \in Mentions(id) : TRUE
    BY DEF TablesTrue, EntitiesTrue
  <2>2. m \in DOMAIN log /\ id \in EntityIds(log[m])
    BY <1>0 DEF Basics, Mentions, Projector
  <2>3. QED
    BY <2>2
<1>2. DOMAIN entities \subseteq Mentioned(Len(log))
  BY <1>0, <1>1 DEF Mentioned, Basics
<1>3. IsFiniteSet(Mentioned(Len(log)))
  BY <1>0, FinitelyMentioned
<1>4. QED
  BY <1>1, <1>2, <1>3, FS_Subset

\* The range of a function on a finite set.
LEMMA FiniteRange ==
    ASSUME NEW S, IsFiniteSet(S), NEW f, DOMAIN f = S
    PROVE  IsFiniteSet({f[x] : x \in S})
<1> DEFINE R == {f[x] : x \in S}
           g == [x \in S |-> f[x]]
<1>1. g \in [S -> R]
  OBVIOUS
<1>2. \A y \in R : \E x \in S : g[x] = y
  OBVIOUS
<1> HIDE DEF R, g
<1>3. g \in Surjection(S, R)
  BY <1>1, <1>2 DEF Surjection
<1>4. IsFiniteSet(R)
  BY <1>3, FS_Surjection
<1>5. QED
  BY <1>4 DEF R

LEMMA MatchingObservations ==
    ASSUME NEW query, query.kind = "observations"
    PROVE  Matching(query) =
              {ObservationKey(log[n]) :
                 n \in {n \in DOMAIN log :
                          /\ SourceOf[log[n].obs] = query.source
                          /\ log[n].time >= query.from}}
BY DEF Matching

LEMMA MatchingEntities ==
    ASSUME NEW query, query.kind = "entities"
    PROVE  Matching(query) =
              {<< 0, Rank(EntityOrder, id) >> :
                 id \in {id \in DOMAIN entities : entities[id].type = query.type}}
BY DEF Matching

\* The rows of a query are finitely many and have keys.
LEMMA MatchingIs ==
    ASSUME Sound, NEW query, query.kind \in ListKind
    PROVE  /\ Matching(query) \in SUBSET KeysOf(query.kind)
           /\ IsFiniteSet(Matching(query))
<1>0. Basics /\ Ground /\ TablesTrue
  BY DEF Sound, Pipeline, Ground
<1>1. CASE query.kind = "observations"
  <2> DEFINE f == [n \in DOMAIN log |-> ObservationKey(log[n])]
             R == {f[n] : n \in DOMAIN log}
  <2>1. ASSUME NEW n \in DOMAIN log PROVE ObservationKey(log[n]) \in Nat \X Nat
    <3>1. log[n] \in Payload /\ log[n].time \in Nat
      BY <1>0, Times
    <3>2. Rank(ObservationOrder, log[n].obs) \in Nat
      BY <3>1, QueriesAssumption, RankIs
    <3>3. QED
      BY <3>1, <3>2 DEF ObservationKey
  <2>2. IsFiniteSet(DOMAIN log)
    <3>1. DOMAIN log = 1..Len(log) /\ Len(log) \in Nat
      BY <1>0 DEF Basics
    <3>2. QED
      BY <3>1, FS_Interval
  <2>3. DOMAIN f = DOMAIN log
    OBVIOUS
  <2>4. Matching(query) \subseteq R
    BY <1>1, MatchingObservations
  <2>5. R \subseteq Nat \X Nat
    BY <2>1
  <2> HIDE DEF f
  <2>6. IsFiniteSet(R)
    BY <2>2, <2>3, FiniteRange
  <2>7. IsFiniteSet(Matching(query))
    BY <2>4, <2>6, FS_Subset
  <2>8. KeysOf(query.kind) = Nat \X Nat
    BY <1>1 DEF KeysOf
  <2>9. QED
    BY <2>4, <2>5, <2>7, <2>8
<1>2. CASE query.kind = "entities"
  <2> DEFINE f == [id \in DOMAIN entities |-> << 0, Rank(EntityOrder, id) >>]
             R == {f[id] : id \in DOMAIN entities}
  <2>1. ASSUME NEW id \in DOMAIN entities
        PROVE  << 0, Rank(EntityOrder, id) >> \in {0} \X Nat
    <3>1. PICK m \in DOMAIN log : id \in EntityIds(log[m])
      BY <1>0, FiniteEntities
    <3>2. log[m] \in Payload
      BY <1>0, Times
    <3>3. Rank(EntityOrder, id) \in Nat
      BY <3>1, <3>2, QueriesAssumption, RankIs
    <3>4. QED
      BY <3>3
  <2>2. IsFiniteSet(DOMAIN entities)
    BY <1>0, FiniteEntities
  <2>3. DOMAIN f = DOMAIN entities
    OBVIOUS
  <2>4. Matching(query) \subseteq R
    BY <1>2, MatchingEntities
  <2>5. R \subseteq {0} \X Nat
    BY <2>1
  <2> HIDE DEF f
  <2>6. IsFiniteSet(R)
    BY <2>2, <2>3, FiniteRange
  <2>7. IsFiniteSet(Matching(query))
    BY <2>4, <2>6, FS_Subset
  <2>8. KeysOf(query.kind) = {0} \X Nat
    BY <1>2 DEF KeysOf
  <2>9. QED
    BY <2>4, <2>5, <2>7, <2>8
<1>3. QED
  BY <1>1, <1>2 DEF ListKind

\* A row that matches goes on matching.
LEMMA MatchingGrows ==
    ASSUME Grown, NEW query, query.kind \in ListKind
    PROVE  Matching(query) \subseteq Matching(query)'
<1>1. CASE query.kind = "observations"
  BY <1>1 DEF Matching, ObservationKey, Grown, Added
<1>2. CASE query.kind = "entities"
  BY <1>2 DEF Matching, Grown
<1>3. QED
  BY <1>1, <1>2 DEF ListKind

-----------------------------------------------------------------------------
(* Pages.                                                                  *)

\* What a listing has returned of the rows that match, and what is left.
Progress(kind, matching, cursor, got, atStart, done) ==
    /\ got \in Seq(KeysOf(kind))
    /\ Increasing(kind, got)
    /\ Read(got) \subseteq matching
    /\ atStart \subseteq matching
    /\ done => atStart \subseteq Read(got)
    /\ ~done =>
          \/ cursor = {} /\ got = << >>
          \/ /\ got # << >>
             /\ \E c : /\ cursor = {c}
                       /\ c.anchor = got[Len(got)]
                       /\ \A k \in atStart :
                             k \in Read(got) \/ Beyond(kind, k, c.anchor)

LEMMA PageIs ==
    ASSUME NEW query, NEW cursor, IsFiniteSet(Matching(query)),
           Matching(query) \in SUBSET KeysOf(query.kind)
    PROVE  LET page == Page(query, cursor)
               remaining == {k \in Matching(query) :
                              \A c \in cursor : Beyond(query.kind, k, c.anchor)}
           IN  /\ page.items \in Seq(remaining)
               /\ Increasing(query.kind, page.items)
               /\ ~page.hasMore => Read(page.items) = remaining
               /\ page.hasMore =>
                     /\ page.items # << >>
                     /\ \A k \in remaining :
                           \/ k \in Read(page.items)
                           \/ Beyond(query.kind, k, page.items[Len(page.items)])
<1> DEFINE kind == query.kind
           remaining == {k \in Matching(query) :
                           \A c \in cursor : Beyond(kind, k, c.anchor)}
           rows == InOrder(kind, remaining)
           n == Cardinality(remaining)
           p == Least(PageSize, n)
           items == SubSeq(rows, 1, p)
<1>1. remaining \in SUBSET KeysOf(kind) /\ IsFiniteSet(remaining)
  BY FS_Subset
<1>2. rows \in [1..n -> remaining] /\ Increasing(kind, rows) /\ Read(rows) = remaining
  BY <1>1, InOrderIs
<1>3. n \in Nat
  BY <1>1, FS_CardinalityType
<1>4. PageSize \in Nat \ {0}
  BY QueriesAssumption
<1>5. Page(query, cursor) = [items |-> SubSeq(rows, 1, Least(PageSize, Len(rows))),
                             hasMore |-> Len(rows) > PageSize]
  BY DEF Page
<1> HIDE DEF remaining, rows, n, kind
<1>6. rows \in Seq(remaining) /\ Len(rows) = n
  BY <1>2, <1>3
<1>7. Page(query, cursor).items = items /\ Page(query, cursor).hasMore = (n > PageSize)
  <2>1. Page(query, cursor) = [items |-> items, hasMore |-> n > PageSize]
    BY <1>5, <1>6
  <2> HIDE DEF items
  <2>2. QED
    BY <2>1
<1>8. p \in Nat /\ p <= n /\ p <= PageSize /\ (n > PageSize => p = PageSize)
      /\ (~(n > PageSize) => p = n)
  BY <1>3, <1>4 DEF Least
<1> HIDE DEF p
<1>9. /\ items \in Seq(remaining) /\ Len(items) = p
      /\ \A i \in 1..p : items[i] = rows[i]
  BY <1>3, <1>6, <1>8
<1> HIDE DEF items
<1>10. Increasing(kind, items)
  <2>1. \A i \in DOMAIN items : i \in 1..n /\ i \in 1..p
    BY <1>3, <1>8, <1>9
  <2>2. DOMAIN rows = 1..n
    BY <1>2
  <2>3. QED
    BY <1>2, <1>9, <2>1, <2>2 DEF Increasing
<1>11. ~(n > PageSize) => Read(items) = remaining
  <2> SUFFICES ASSUME ~(n > PageSize) PROVE Read(items) = remaining
    OBVIOUS
  <2>1. DOMAIN items = 1..n /\ DOMAIN rows = 1..n /\ \A i \in 1..n : items[i] = rows[i]
    BY <1>2, <1>8, <1>9
  <2>2. QED
    BY <1>2, <2>1 DEF Read
<1>12. ASSUME n > PageSize
       PROVE  /\ items # << >>
              /\ \A k \in remaining :
                    k \in Read(items) \/ Beyond(kind, k, items[Len(items)])
  <2>1. p = PageSize /\ p \in 1..p /\ p \in 1..n /\ Len(items) = p
    BY <1>3, <1>4, <1>8, <1>9, <1>12
  <2>2. items # << >> /\ items[Len(items)] = rows[p] /\ rows[p] \in remaining
    BY <1>2, <1>9, <2>1
  <2>3. ASSUME NEW k \in remaining, k \notin Read(items)
        PROVE  Beyond(kind, k, rows[p])
    <3>1. PICK j \in 1..n : k = rows[j]
      BY <1>2 DEF Read
    <3>2. ~(j <= p)
      <4>1. ASSUME j <= p PROVE FALSE
        <5>1. j \in 1..p /\ j \in DOMAIN items
          BY <1>9, <3>1, <4>1
        <5>2. QED
          BY <1>9, <2>3, <3>1, <5>1 DEF Read
      <4>2. QED
        BY <4>1
    <3>3. p < j
      BY <1>8, <3>1, <3>2
    <3>4. Precedes(kind, rows[p], k)
      BY <1>2, <2>1, <3>1, <3>3 DEF Increasing
    <3>5. k \in KeysOf(kind) /\ rows[p] \in KeysOf(kind)
      BY <1>1, <2>2
    <3>6. QED
      BY <3>4, <3>5, StrictOrder
  <2>4. QED
    BY <2>2, <2>3
<1>13. QED
  BY <1>7, <1>9, <1>10, <1>11, <1>12 DEF remaining, kind

\* One sequence after the other, when the last of the one precedes the other.
LEMMA IncreasingOn ==
    ASSUME NEW kind, NEW s \in Seq(KeysOf(kind)), NEW t \in Seq(KeysOf(kind)),
           Increasing(kind, s), Increasing(kind, t),
           s # << >> => \A k \in Read(t) : Precedes(kind, s[Len(s)], k)
    PROVE  /\ s \o t \in Seq(KeysOf(kind))
           /\ Increasing(kind, s \o t)
           /\ Read(s \o t) = Read(s) \cup Read(t)
<1> DEFINE u == s \o t
           m == Len(s)
           n == Len(t)
<1>1. /\ u \in Seq(KeysOf(kind)) /\ DOMAIN u = 1..(m + n)
      /\ m \in Nat /\ n \in Nat /\ DOMAIN s = 1..m /\ DOMAIN t = 1..n
      /\ \A i \in 1..m : u[i] = s[i]
      /\ \A i \in 1..n : u[m + i] = t[i]
  <2>1. u \in Seq(KeysOf(kind)) /\ Len(u) = m + n
    OBVIOUS
  <2>2. m \in Nat /\ n \in Nat /\ DOMAIN s = 1..m /\ DOMAIN t = 1..n
    OBVIOUS
  <2>3. \A i \in 1..m : u[i] = s[i]
    OBVIOUS
  <2>4. \A i \in 1..n : u[m + i] = t[i]
    BY <2>2
  <2>5. QED
    BY <2>1, <2>2, <2>3, <2>4
<1> HIDE DEF u
<1>2. \A i \in 1..(m + n) : i \in 1..m \/ (i - m \in 1..n /\ m + (i - m) = i)
  BY <1>1
<1>3. ASSUME NEW i \in 1..(m + n), NEW j \in 1..(m + n), i < j
      PROVE  Precedes(kind, u[i], u[j])
  <2>1. CASE j \in 1..m
    <3>1. i \in 1..m
      BY <1>1, <1>3, <2>1
    <3>2. QED
      BY <1>1, <1>3, <2>1, <3>1 DEF Increasing
  <2>2. CASE i \notin 1..m
    <3>1. i - m \in 1..n /\ j - m \in 1..n /\ i - m < j - m
          /\ m + (i - m) = i /\ m + (j - m) = j
      BY <1>1, <1>2, <1>3, <2>2
    <3>2. u[i] = t[i - m] /\ u[j] = t[j - m]
      BY <1>1, <3>1
    <3>3. QED
      BY <1>1, <3>1, <3>2 DEF Increasing
  <2>3. CASE i \in 1..m /\ j \notin 1..m
    <3>1. j - m \in 1..n /\ m + (j - m) = j
      BY <1>2, <2>3
    <3>2. u[i] = s[i] /\ u[j] = t[j - m] /\ t[j - m] \in Read(t)
      BY <1>1, <2>3, <3>1 DEF Read
    <3>3. s # << >> /\ m \in 1..m
      BY <1>1, <2>3
    <3>4. Precedes(kind, s[m], u[j])
      BY <3>2, <3>3
    <3>5. i = m \/ Precedes(kind, s[i], s[m])
      <4>1. m \in Nat /\ i \in 1..m
        BY <1>1, <2>3
      <4>2. i = m \/ i < m
        BY <4>1
      <4>3. QED
        BY <1>1, <2>3, <3>3, <4>2 DEF Increasing
    <3>6. /\ s[i] \in KeysOf(kind) /\ s[m] \in KeysOf(kind)
          /\ u[j] \in KeysOf(kind)
      BY <1>1, <2>3, <3>1, <3>2, <3>3
    <3>7. QED
      BY <3>2, <3>4, <3>5, <3>6, OrderTransitive
  <2>4. QED
    BY <2>1, <2>2, <2>3
<1>4. Increasing(kind, u)
  BY <1>1, <1>3 DEF Increasing
<1>5. Read(u) = Read(s) \cup Read(t)
  <2>1. \A i \in 1..m : i \in 1..(m + n)
    BY <1>1
  <2>2. \A i \in 1..n : m + i \in 1..(m + n)
    BY <1>1
  <2>3. Read(s) \cup Read(t) \subseteq Read(u)
    BY <1>1, <2>1, <2>2 DEF Read
  <2>4. Read(u) \subseteq Read(s) \cup Read(t)
    <3>1. ASSUME NEW i \in 1..(m + n) PROVE u[i] \in Read(s) \cup Read(t)
      <4>1. CASE i \in 1..m
        BY <1>1, <4>1 DEF Read
      <4>2. CASE i - m \in 1..n /\ m + (i - m) = i
        <5>1. u[i] = t[i - m]
          BY <1>1, <4>2
        <5>2. QED
          BY <1>1, <4>2, <5>1 DEF Read
      <4>3. QED
        BY <1>2, <4>1, <4>2
    <3>2. QED
      BY <1>1, <3>1 DEF Read
  <2>5. QED
    BY <2>3, <2>4
<1>6. QED
  BY <1>1, <1>4, <1>5 DEF u

\* A page goes on where the last one ended.
LEMMA PageProgress ==
    ASSUME NEW query, NEW cursor, NEW got, NEW atStart,
           IsFiniteSet(Matching(query)),
           Matching(query) \in SUBSET KeysOf(query.kind),
           Progress(query.kind, Matching(query), cursor, got, atStart, FALSE)
    PROVE  LET page == Page(query, cursor)
           IN  Progress(query.kind, Matching(query), NextCursor(query, page),
                        got \o page.items, atStart, ~page.hasMore)
<1> DEFINE kind == query.kind
           page == Page(query, cursor)
           items == page.items
           more == page.hasMore
           remaining == {k \in Matching(query) :
                           \A c \in cursor : Beyond(kind, k, c.anchor)}
           next == NextCursor(query, page)
<1>1. /\ items \in Seq(remaining) /\ Increasing(kind, items)
      /\ ~more => Read(items) = remaining
      /\ more => /\ items # << >>
                 /\ \A k \in remaining :
                       k \in Read(items) \/ Beyond(kind, k, items[Len(items)])
  BY PageIs
<1>2. more => next = {[anchor |-> items[Len(items)], fingerprint |-> query]}
  BY DEF NextCursor
<1>3. remaining \subseteq Matching(query) /\ remaining \subseteq KeysOf(kind)
  OBVIOUS
<1>4. /\ got \in Seq(KeysOf(kind)) /\ Increasing(kind, got)
      /\ Read(got) \subseteq Matching(query) /\ atStart \subseteq Matching(query)
      /\ \/ cursor = {} /\ got = << >>
         \/ /\ got # << >>
            /\ \E c : /\ cursor = {c}
                      /\ c.anchor = got[Len(got)]
                      /\ \A k \in atStart : k \in Read(got) \/ Beyond(kind, k, c.anchor)
  BY DEF Progress
<1>5. \A k \in atStart : k \in Read(got) \/ k \in remaining
  BY <1>4
<1>6. got # << >> => /\ got[Len(got)] \in KeysOf(kind)
                     /\ \A k \in remaining : Beyond(kind, k, got[Len(got)])
  <2>1. got # << >> => got[Len(got)] \in KeysOf(kind)
    BY <1>4
  <2>2. QED
    BY <1>4, <2>1
<1> HIDE DEF page, remaining, next, kind
<1> HIDE DEF items, more
<1>7. Read(items) \subseteq remaining
  BY <1>1 DEF Read
<1>8. got # << >> => \A k \in Read(items) : Precedes(kind, got[Len(got)], k)
  BY <1>3, <1>6, <1>7, StrictOrder
<1>9. items \in Seq(KeysOf(kind))
  BY <1>1, <1>3
<1>10. /\ got \o items \in Seq(KeysOf(kind))
       /\ Increasing(kind, got \o items)
       /\ Read(got \o items) = Read(got) \cup Read(items)
  BY <1>1, <1>4, <1>8, <1>9, IncreasingOn
<1>11. Read(got \o items) \subseteq Matching(query)
  BY <1>3, <1>4, <1>7, <1>10
<1>12. ~more => atStart \subseteq Read(got \o items)
  BY <1>1, <1>5, <1>10
<1>13. ASSUME more
       PROVE  /\ got \o items # << >>
              /\ \E c : /\ next = {c}
                        /\ c.anchor = (got \o items)[Len(got \o items)]
                        /\ \A k \in atStart : k \in Read(got \o items)
                                              \/ Beyond(kind, k, c.anchor)
  <2> DEFINE c == [anchor |-> items[Len(items)], fingerprint |-> query]
  <2>1. next = {c} /\ c.anchor = items[Len(items)]
    BY <1>2, <1>13
  <2> HIDE DEF c
  <2>2. /\ Len(items) \in Nat /\ Len(items) # 0 /\ Len(got) \in Nat
        /\ Len(got \o items) = Len(got) + Len(items)
    BY <1>1, <1>4, <1>9, <1>13
  <2>3. got \o items # << >>
    BY <2>2
  <2>4. (got \o items)[Len(got \o items)] = items[Len(items)]
    BY <1>4, <1>9, <2>2
  <2>5. \A k \in atStart : k \in Read(got \o items) \/ Beyond(kind, k, c.anchor)
    BY <1>1, <1>5, <1>10, <1>13, <2>1
  <2>6. QED
    BY <2>1, <2>3, <2>4, <2>5
<1>14. Progress(kind, Matching(query), next, got \o items, atStart, ~more)
  BY <1>4, <1>10, <1>11, <1>12, <1>13 DEF Progress
<1>15. QED
  BY <1>14 DEF kind, next, items, more, page

ListTrue ==
    reader.kind = "list" =>
        /\ reader.query.kind \in ListKind
        /\ reader.done \in BOOLEAN
        /\ Progress(reader.query.kind, Matching(reader.query), reader.cursor,
                    reader.got, reader.atStart, reader.done)

\* Rows are only added to what matches.
LEMMA ProgressStays ==
    ASSUME NEW kind, NEW matching, NEW more, matching \subseteq more,
           NEW cursor, NEW got, NEW atStart, NEW done,
           Progress(kind, matching, cursor, got, atStart, done)
    PROVE  Progress(kind, more, cursor, got, atStart, done)
BY DEF Progress

LEMMA ListStays ==
    ASSUME ListTrue, Grown, reader' = reader PROVE ListTrue'
<1> SUFFICES ASSUME reader.kind = "list" PROVE ListTrue'
  BY DEF ListTrue
<1>1. PICK q, c, g, a, d :
         /\ q = reader.query /\ c = reader.cursor /\ g = reader.got
         /\ a = reader.atStart /\ d = reader.done
  OBVIOUS
<1>2. q.kind \in ListKind /\ d \in BOOLEAN
      /\ Progress(q.kind, Matching(q), c, g, a, d)
  BY <1>1 DEF ListTrue
<1>3. Matching(q) \subseteq Matching(q)'
  BY <1>2, MatchingGrows
<1>4. PICK more : more = Matching(q)'
  OBVIOUS
<1>5. Progress(q.kind, more, c, g, a, d)
  BY <1>2, <1>3, <1>4, ProgressStays
<1>6. /\ reader'.query = q /\ reader'.cursor = c /\ reader'.got = g
      /\ reader'.atStart = a /\ reader'.done = d
  BY <1>1
<1>7. Matching(reader.query)' = more
  BY <1>4, <1>6 DEF Matching
<1>8. QED
  BY <1>2, <1>5, <1>6, <1>7 DEF ListTrue, Progress

LEMMA ListStep ==
    ASSUME Sound, ListShape, ListTrue, QueryStep PROVE ListTrue'
<1>0. [Next]_vars /\ Grown
  BY ReadersOnlyRead, Grows
<1>1. CASE reader' = reader
  BY <1>0, <1>1, ListStays
<1>2. ASSUME NEW query, query.kind \in ListKind, StartListing(query)
      PROVE  ListTrue'
  <2>1. /\ reader' = Listing(query, {}, << >>, Matching(query), FALSE, FALSE)
        /\ UNCHANGED vars
    BY <1>2, StartStep DEF StartListing
  <2>2. /\ reader'.query = query /\ reader'.cursor = {} /\ reader'.got = << >>
        /\ reader'.atStart = Matching(query) /\ reader'.done = FALSE
    BY <2>1, ListFields
  <2>3. Matching(query)' = Matching(query)
    BY <2>1 DEF vars, base, entityTables, Matching, ObservationKey
  <2>4. PICK matching : matching = Matching(query)
    OBVIOUS
  <2>5. Progress(query.kind, matching, {}, << >>, matching, FALSE)
    <3>1. << >> \in Seq(KeysOf(query.kind)) /\ DOMAIN << >> = {}
      OBVIOUS
    <3>2. QED
      BY <3>1 DEF Progress, Increasing, Read
  <2>6. Matching(reader.query)' = matching
    BY <2>2, <2>3, <2>4 DEF Matching
  <2>7. QED
    BY <1>2, <2>2, <2>4, <2>5, <2>6 DEF ListTrue, Progress
<1>3. ASSUME NEW query, ChangeQuery(query) PROVE ListTrue'
  <2>1. UNCHANGED vars /\ reader.kind = "list"
    BY <1>3 DEF ChangeQuery
  <2>2. reader' = Listing(reader.query, reader.cursor, reader.got,
                          reader.atStart, TRUE, reader.done)
    BY <1>3, ChangeStep
  <2>3. /\ reader'.query = reader.query /\ reader'.cursor = reader.cursor
        /\ reader'.got = reader.got /\ reader'.atStart = reader.atStart
        /\ reader'.done = reader.done
    BY <2>2, ListFields, ZenonT(60)
  <2>4. Matching(reader.query)' = Matching(reader.query)
    BY <2>1, <2>3 DEF vars, base, entityTables, Matching, ObservationKey
  <2>5. QED
    BY <2>1, <2>3, <2>4 DEF ListTrue, Progress
<1>4. CASE NextPage
  <2>1. UNCHANGED vars /\ reader.kind = "list" /\ ~reader.done
    BY <1>4 DEF NextPage
  <2>2. PICK q, c, g, a, r :
           /\ q = reader.query /\ c = reader.cursor /\ g = reader.got
           /\ a = reader.atStart /\ r = reader.refused
    OBVIOUS
  <2>3. q.kind \in ListKind /\ Progress(q.kind, Matching(q), c, g, a, FALSE)
    <3>1. reader.done = FALSE
      BY <2>1 DEF ListTrue
    <3>2. QED
      BY <2>1, <2>2, <3>1 DEF ListTrue
  <2>4. Matching(q) \in SUBSET KeysOf(q.kind) /\ IsFiniteSet(Matching(q))
    BY <2>3, MatchingIs
  <2>5. PICK page, matching : page = Page(q, c) /\ matching = Matching(q)
    OBVIOUS
  <2>6. Progress(q.kind, matching, NextCursor(q, page), g \o page.items, a,
                 ~page.hasMore)
    BY <2>3, <2>4, <2>5, PageProgress
  <2>7. reader' = Listing(q, NextCursor(q, page), g \o page.items, a, r,
                          ~page.hasMore)
    BY <1>4, <2>2, <2>5, PageStep
  <2>8. /\ reader'.query = q /\ reader'.cursor = NextCursor(q, page)
        /\ reader'.got = g \o page.items /\ reader'.atStart = a
        /\ reader'.done = ~page.hasMore
    BY <2>7, ListFields, ZenonT(60)
  <2>9. Matching(reader.query)' = matching
    <3>1. Matching(q)' = Matching(q)
      BY <2>1 DEF vars, base, entityTables, Matching, ObservationKey
    <3>2. QED
      BY <2>5, <2>8, <3>1 DEF Matching
  <2>10. PICK cursor, got, done :
            /\ cursor = NextCursor(q, page) /\ got = g \o page.items
            /\ done = ~page.hasMore
    OBVIOUS
  <2>11. done \in BOOLEAN
    BY <2>10
  <2>12. QED
    BY <2>3, <2>6, <2>8, <2>9, <2>10, <2>11 DEF ListTrue, Progress
<1>5. ASSUME NEW kind \in DOMAIN Statements, NEW id \in Rows(kind),
             StartLineage(kind, id)
      PROVE  ListTrue'
  <2>1. kind # "list"
    BY StatementLists
  <2>2. reader'.kind = kind
    BY <1>5 DEF StartLineage
  <2>3. QED
    BY <2>1, <2>2 DEF ListTrue
<1>6. CASE NextStatement
  <2>1. reader.kind \in DOMAIN Statements /\ reader.kind # "list"
    BY <1>6, StatementLists DEF NextStatement
  <2>2. PICK reply : reader' = [reader EXCEPT !.reply = reply]
    BY <1>6 DEF NextStatement
  <2>3. reader'.kind # "list"
    BY <2>1, <2>2
  <2>4. QED
    BY <2>3 DEF ListTrue
<1>7. QED
  BY <1>1, <1>2, <1>3, <1>4, <1>5, <1>6, ReaderSteps

LEMMA ListingsTrue == QueriesSpec => [](ListShape /\ ListTrue)
<1>1. QueriesInit => ListShape /\ ListTrue
  <2> SUFFICES ASSUME QueriesInit PROVE ListShape /\ ListTrue
    OBVIOUS
  <2>1. reader.kind # "list"
    BY DEF QueriesInit, Idle
  <2>2. QED
    BY <2>1 DEF ListShape, ListTrue
<1>2. Sound /\ ListShape /\ ListTrue /\ [QueriesNext]_queryVars
         => ListShape' /\ ListTrue'
  BY ListShapeStep, ListStep DEF QueryStep
<1>3. QED
  BY <1>1, <1>2, SoundBesideReaders, PTL DEF QueriesSpec

(***************************************************************************)
(* Paging to the end returns every row that matched when it began, in one  *)
(* strict order and so none twice, for every size of the pages and however *)
(* many rows are inserted meanwhile (list_page and list_entities).         *)
(***************************************************************************)
THEOREM PagesAreExact == QueriesSpec => []PagesExact
<1>1. ListTrue => PagesExact
  BY DEF ListTrue, Progress, Increasing, Read, PagesExact
<1>2. QED
  BY <1>1, ListingsTrue, PTL

-----------------------------------------------------------------------------
(* Replay.                                                                 *)

Replays(f, N) ==
    f = [n \in 0..N |-> IF n = 0 THEN EmptyScene ELSE Apply(f[n - 1], log[n])]

LEMMA ReplayExists ==
    ASSUME NEW N \in Nat PROVE \E f : Replays(f, N)
<1> DEFINE S == {n \in Nat : \E f : Replays(f, n)}
<1>1. 0 \in S
  <2> DEFINE f == [n \in 0..0 |-> EmptyScene]
  <2>1. \A n \in 0..0 : n = 0
    OBVIOUS
  <2>2. Replays(f, 0)
    BY <2>1 DEF Replays
  <2>3. QED
    BY <2>2
<1>2. ASSUME NEW M \in Nat, M \in S PROVE M + 1 \in S
  <2>1. PICK f : Replays(f, M)
    BY <1>2
  <2> DEFINE last == Apply(f[M], log[M + 1])
             g == [n \in 0..(M + 1) |-> IF n = M + 1 THEN last ELSE f[n]]
  <2>2. ASSUME NEW n \in 0..(M + 1)
        PROVE  g[n] = IF n = 0 THEN EmptyScene ELSE Apply(g[n - 1], log[n])
    <3>1. f = [k \in 0..M |-> IF k = 0 THEN EmptyScene ELSE Apply(f[k - 1], log[k])]
      BY <2>1 DEF Replays
    <3>2. CASE n = 0
      BY <3>1, <3>2
    <3>3. CASE n = M + 1
      <4>1. g[n] = last /\ n - 1 = M /\ n # 0 /\ M \in 0..(M + 1) /\ M # M + 1
        BY <3>3
      <4>2. g[n - 1] = f[M]
        BY <4>1
      <4>3. QED
        BY <3>3, <4>1, <4>2
    <3>4. CASE n # 0 /\ n # M + 1
      <4>1. n \in 0..M /\ n - 1 \in 0..(M + 1) /\ n - 1 # M + 1
        BY <3>4
      <4>2. g[n] = f[n] /\ g[n - 1] = f[n - 1]
        BY <3>4, <4>1
      <4>3. f[n] = Apply(f[n - 1], log[n])
        BY <3>1, <3>4, <4>1
      <4> HIDE DEF g
      <4>4. QED
        BY <3>4, <4>2, <4>3
    <3>5. QED
      BY <3>2, <3>3, <3>4
  <2>3. g = [n \in 0..(M + 1) |-> g[n]]
    OBVIOUS
  <2> HIDE DEF g
  <2>4. Replays(g, M + 1)
    BY <2>2, <2>3 DEF Replays
  <2>5. QED
    BY <2>4
<1> HIDE DEF S
<1>3. Nat \subseteq S
  BY <1>1, <1>2, Induction
<1>4. QED
  BY <1>3 DEF S

LEMMA ReplayIs ==
    ASSUME Len(log) \in Nat
    PROVE  /\ Replay[0] = EmptyScene
           /\ \A n \in 1..Len(log) : Replay[n] = Apply(Replay[n - 1], log[n])
<1> DEFINE f == CHOOSE f : f = [n \in 0..Len(log) |->
                     IF n = 0 THEN EmptyScene ELSE Apply(f[n - 1], log[n])]
<1>1. \E g : Replays(g, Len(log))
  BY ReplayExists
<1>2. Replays(f, Len(log))
  BY <1>1 DEF Replays
<1>3. Replay = f
  BY DEF Replay
<1> HIDE DEF f
<1>4. f = [n \in 0..Len(log) |-> IF n = 0 THEN EmptyScene ELSE Apply(f[n - 1], log[n])]
  BY <1>2 DEF Replays
<1>5. QED
  BY <1>3, <1>4

IsScene(s) ==
    s = [entities |-> s.entities, relationships |-> s.relationships,
         state |-> s.state, refused |-> s.refused]

\* The scene with the entities and the relationship an observation states.
Stating(scene, o) ==
    [entities |-> EntitiesWith(scene, o),
     relationships |-> scene.relationships \cup {e.id : e \in Direct(o)},
     state |-> scene.state,
     refused |-> scene.refused]

LEMMA ApplyIs ==
    ASSUME NEW scene, IsScene(scene), NEW o
    PROVE  /\ IsScene(Apply(scene, o))
           /\ ~Apply(scene, o).refused =>
                 /\ ~scene.refused
                 /\ Apply(scene, o).entities = EntitiesWith(scene, o)
                 /\ Apply(scene, o).relationships =
                       scene.relationships
                          \cup {e.id : e \in Direct(o)}
                          \cup {e.id : e \in Derive(Stating(scene, o), o)}
                 /\ \A e \in Derive(Stating(scene, o), o) :
                       ValidEdge(e.id.type, e.sourceType, e.targetType)
<1>1. PICK x, r, s, b : scene = [entities |-> x, relationships |-> r, state |-> s, refused |-> b]
  BY DEF IsScene
<1>2. PICK y, q, d : /\ y = EntitiesWith(scene, o) /\ q = r \cup {e.id : e \in Direct(o)}
                     /\ d = Derive(Stating(scene, o), o)
  OBVIOUS
<1>3. Stating(scene, o) = [entities |-> y, relationships |-> q, state |-> s, refused |-> b]
  BY <1>1, <1>2 DEF Stating
<1>4. [scene EXCEPT !.entities = EntitiesWith(scene, o),
                    !.relationships = @ \cup {e.id : e \in Direct(o)}] = Stating(scene, o)
  <2>1. PICK D : D = {e.id : e \in Direct(o)}
    OBVIOUS
  <2>2. q = r \cup D
    BY <1>2, <2>1
  <2>3. [scene EXCEPT !.entities = y, !.relationships = @ \cup D] =
           [entities |-> y, relationships |-> r \cup D, state |-> s, refused |-> b]
    <3>1. [entities |-> x, relationships |-> r, state |-> s, refused |-> b].relationships = r
      OBVIOUS
    <3>2. [scene EXCEPT !.entities = y, !.relationships = @ \cup D] =
             [scene EXCEPT !.entities = y, !.relationships = r \cup D]
      BY <1>1, <3>1
    <3>3. PICK u : u = r \cup D
      OBVIOUS
    <3>4. PICK v : v = [scene EXCEPT !.entities = y, !.relationships = u]
      OBVIOUS
    <3>5. v = [entities |-> y, relationships |-> u, state |-> s, refused |-> b]
      BY <1>1, <3>4
    <3>6. QED
      BY <3>2, <3>3, <3>4, <3>5
  <2>4. QED
    BY <1>2, <1>3, <2>1, <2>2, <2>3
<1>5. PICK refuse : refuse = (\/ scene.refused
                              \/ \E e \in Direct(o) \cup d :
                                    ~ValidEdge(e.id.type, e.sourceType, e.targetType))
  OBVIOUS
<1>6. PICK state, ids : /\ state = IF o.class # "exposure_finding" /\ scene.state = "potential"
                                   THEN "observed" ELSE scene.state
                        /\ ids = {e.id : e \in d}
  OBVIOUS
<1>7. Apply(scene, o) = IF refuse THEN [scene EXCEPT !.refused = TRUE]
                        ELSE [Stating(scene, o) EXCEPT
                                !.relationships = @ \cup ids, !.state = state]
  BY <1>2, <1>4, <1>5, <1>6 DEF Apply
<1>8. CASE refuse
  <2>1. Apply(scene, o) = [entities |-> x, relationships |-> r, state |-> s, refused |-> TRUE]
    BY <1>1, <1>7, <1>8
  <2>2. QED
    BY <2>1 DEF IsScene
<1>9. CASE ~refuse
  <2>1. Apply(scene, o) = [entities |-> y, relationships |-> q \cup ids,
                           state |-> state, refused |-> b]
    <3>1. PICK T : T = Stating(scene, o)
      OBVIOUS
    <3>2. T = [entities |-> y, relationships |-> q, state |-> s, refused |-> b]
      BY <1>3, <3>1
    <3>3. [T EXCEPT !.relationships = @ \cup ids, !.state = state] =
             [entities |-> y, relationships |-> q \cup ids, state |-> state,
              refused |-> b]
      <4>1. T.relationships = q
        BY <3>2
      <4>2. [T EXCEPT !.relationships = @ \cup ids, !.state = state] =
               [T EXCEPT !.relationships = q \cup ids, !.state = state]
        BY <4>1
      <4>3. PICK u : u = q \cup ids
        OBVIOUS
      <4>4. PICK v : v = [T EXCEPT !.relationships = u, !.state = state]
        OBVIOUS
      <4>5. v = [entities |-> y, relationships |-> u, state |-> state, refused |-> b]
        BY <3>2, <4>4
      <4>6. QED
        BY <4>2, <4>3, <4>4, <4>5
    <3>4. Apply(scene, o) = [T EXCEPT !.relationships = @ \cup ids, !.state = state]
      BY <1>7, <1>9, <3>1
    <3>5. QED
      BY <3>3, <3>4
  <2>2. IsScene(Apply(scene, o))
    BY <2>1 DEF IsScene
  <2>3. /\ ~scene.refused
        /\ \A e \in d : ValidEdge(e.id.type, e.sourceType, e.targetType)
    BY <1>5, <1>9
  <2>4. Apply(scene, o).entities = y /\ Apply(scene, o).relationships = q \cup ids
    BY <2>1
  <2>5. scene.relationships = r
    BY <1>1
  <2>6. QED
    BY <1>2, <1>6, <2>2, <2>3, <2>4, <2>5
<1>10. QED
  BY <1>8, <1>9

\* What the replay looks for before it derives.
Attempts(s, o, t) ==
    /\ o.activity = "exploit_attempt"
    /\ Find(s, "has_vulnerability", {t.id}, DOMAIN s.entities) # {}

Spawns(s, o, x, t) ==
    /\ Suspected(o)
    /\ x \in DOMAIN s.entities
    /\ Find(s, "exploited", {x}, {t.id}) # {}

Moves(s, o) ==
    /\ o.class = "authentication"
    /\ Find(s, "compromised", DOMAIN s.entities, {o.subject.id}) # {}

Exploited(o, t) ==
    Replayed("exploited", o.subject.id, o.subject.type, t, "COR_SEQ_001")
Compromised(s, x, t) ==
    Replayed("compromised", x, s.entities[x], t, "COR_SEQ_002")
Moved(o, t) ==
    Replayed("moved_laterally_to", o.subject.id, o.subject.type, t, "COR_SEQ_003")

LEMMA DeriveIs ==
    ASSUME NEW s, NEW o, NEW e
    PROVE  e \in Derive(s, o) <=>
              \E t \in o.object :
                 \/ Attempts(s, o, t) /\ e = Exploited(o, t)
                 \/ \E x \in o.attack_source :
                       Spawns(s, o, x, t) /\ e = Compromised(s, x, t)
                 \/ Moves(s, o) /\ e = Moved(o, t)
<1> DEFINE first == {Exploited(o, t) : t \in {t \in o.object : Attempts(s, o, t)}}
           second == {Compromised(s, c[1], c[2]) :
                        c \in {c \in o.attack_source \X o.object :
                                 Spawns(s, o, c[1], c[2])}}
           third == {Moved(o, t) : t \in {t \in o.object : Moves(s, o)}}
<1>1. Derive(s, o) = first \cup second \cup third
  BY DEF Derive, Exploited, Compromised, Moved, Attempts, Spawns, Moves
<1>2. e \in first <=> \E t \in o.object : Attempts(s, o, t) /\ e = Exploited(o, t)
  OBVIOUS
<1>3. e \in second <=> \E t \in o.object : \E x \in o.attack_source :
                          Spawns(s, o, x, t) /\ e = Compromised(s, x, t)
  <2>1. ASSUME NEW t \in o.object, NEW x \in o.attack_source,
               Spawns(s, o, x, t), e = Compromised(s, x, t)
        PROVE  e \in second
    <3>1. << x, t >> \in o.attack_source \X o.object
          /\ << x, t >>[1] = x /\ << x, t >>[2] = t
      OBVIOUS
    <3>2. QED
      BY <2>1, <3>1
  <2>2. QED
    BY <2>1
<1>4. e \in third <=> \E t \in o.object : Moves(s, o) /\ e = Moved(o, t)
  OBVIOUS
<1> HIDE DEF first, second, third
<1>5. QED
  BY <1>1, <1>2, <1>3, <1>4

LEMMA ReplayedFields ==
    ASSUME NEW type, NEW source, NEW sourceType, NEW target, NEW rule
    PROVE  LET e == Replayed(type, source, sourceType, target, rule)
           IN  /\ e.id = RelationshipId(source, type, target.id,
                                        "deterministic", rule)
               /\ e.id.type = type /\ e.id.source = source
               /\ e.id.target = target.id
               /\ e.sourceType = sourceType /\ e.targetType = target.type
BY DEF Replayed, Edge, RelationshipId

LEMMA DerivedId ==
    ASSUME NEW n, log[n] \in Payload, NEW before, NEW rule \in Ruleset,
           NEW t \in log[n].object, NEW source,
           IF rule = "COR_SEQ_002" THEN source \in log[n].attack_source
           ELSE source = log[n].subject.id
    PROVE  DerivedBy(before, rule, n).relationship =
              RelationshipId(source, Rules[rule].type, t.id, "deterministic", rule)
<1> DEFINE o == log[n]
<1>1. (CHOOSE x \in o.object : TRUE) = t
  <2>1. \A x, y \in o.object : x = y
    BY Schema
  <2>2. QED
    BY <2>1, Only
<1>2. rule = "COR_SEQ_002" => (CHOOSE x \in o.attack_source : TRUE) = source
  <2>1. \A x, y \in o.attack_source : x = y
    BY Schema
  <2>2. QED
    BY <2>1, Only
<1>3. QED
  BY <1>1, <1>2 DEF DerivedBy

LEMMA DerivedFromSubject ==
    ASSUME NEW n, log[n] \in Payload, NEW before, NEW rule \in Ruleset,
           NEW t \in log[n].object, rule # "COR_SEQ_002"
    PROVE  DerivedBy(before, rule, n).relationship =
              RelationshipId(log[n].subject.id, Rules[rule].type, t.id,
                             "deterministic", rule)
BY DerivedId

LEMMA DerivedAtIs ==
    ASSUME NEW before, NEW n, NEW d
    PROVE  d \in DerivedAt(before, n) <=>
              \E r \in Ruleset : /\ SupportsAt(before, r, n) # {}
                                 /\ Admits(r, log[n])
                                 /\ d = DerivedBy(before, r, n)
BY DEF DerivedAt

\* What the projection derives the replay derives.
LEMMA ReplayFollows ==
    ASSUME NEW n, log[n] \in Payload, NEW before, NEW s,
           Known(before, n) \subseteq s.relationships,
           \A id \in s.relationships :
              {id.source, id.target} \subseteq DOMAIN s.entities,
           NEW d \in DerivedAt(before, n)
    PROVE  \E e \in Derive(s, log[n]) : e.id = d.relationship
<1> DEFINE o == log[n]
<1>1. PICK r \in Ruleset : /\ SupportsAt(before, r, n) # {}
                           /\ d = DerivedBy(before, r, n)
  BY DerivedAtIs
<1>2. PICK id \in Known(before, n) : Supports(r, o, id)
  BY <1>1 DEF SupportsAt
<1>3. id \in s.relationships /\ {id.source, id.target} \subseteq DOMAIN s.entities
  BY <1>2
<1>4. /\ Rules["COR_SEQ_001"].type = "exploited"
      /\ Rules["COR_SEQ_002"].type = "compromised"
      /\ Rules["COR_SEQ_003"].type = "moved_laterally_to"
  BY <1>1, RuleNames
<1>5. CASE r = "COR_SEQ_001"
  <2>1. /\ o.activity = "exploit_attempt" /\ id.type = "has_vulnerability"
        /\ \E t \in o.object : id.source = t.id
    BY <1>2, <1>5 DEF Supports
  <2>2. PICK t \in o.object : id.source = t.id
    BY <2>1
  <2>3. id \in Find(s, "has_vulnerability", {t.id}, DOMAIN s.entities)
    BY <1>3, <2>1, <2>2 DEF Find
  <2>4. Exploited(o, t) \in Derive(s, o)
    BY <2>1, <2>2, <2>3, DeriveIs DEF Attempts
  <2>5. d.relationship = RelationshipId(o.subject.id, "exploited", t.id, "deterministic", r)
    BY <1>1, <1>4, <1>5, <2>2, DerivedFromSubject
  <2>6. Exploited(o, t).id = d.relationship
    BY <1>5, <2>5, ReplayedFields DEF Exploited
  <2>7. QED
    BY <2>4, <2>6
<1>6. CASE r = "COR_SEQ_002"
  <2>1. /\ Suspicious(o)
        /\ id.type = "exploited" /\ id.source \in o.attack_source
        /\ \E t \in o.object : id.target = t.id
    BY <1>2, <1>6 DEF Supports
  <2>2. PICK t \in o.object : id.target = t.id
    BY <2>1
  <2>3. id \in Find(s, "exploited", {id.source}, {t.id}) /\ id.source \in DOMAIN s.entities
    BY <1>3, <2>1, <2>2 DEF Find
  <2>4. Compromised(s, id.source, t) \in Derive(s, o)
    <3>1. Suspected(o)
      BY <2>1 DEF Suspicious, Suspected
    <3>2. QED
      BY <2>1, <2>2, <2>3, <3>1, DeriveIs DEF Spawns
  <2>5. d.relationship = RelationshipId(id.source, "compromised", t.id, "deterministic", r)
    BY <1>1, <1>4, <1>6, <2>1, <2>2, DerivedId
  <2>6. Compromised(s, id.source, t).id = d.relationship
    BY <1>6, <2>5, ReplayedFields DEF Compromised
  <2>7. QED
    BY <2>4, <2>6
<1>7. CASE r = "COR_SEQ_003"
  <2>1. /\ o.class = "authentication" /\ o.object # {}
        /\ id.type = "compromised" /\ id.target = o.subject.id
    BY <1>2, <1>7 DEF Supports
  <2>2. PICK t \in o.object : TRUE
    BY <2>1
  <2>3. id \in Find(s, "compromised", DOMAIN s.entities, {o.subject.id})
    BY <1>3, <2>1 DEF Find
  <2>4. Moved(o, t) \in Derive(s, o)
    BY <2>1, <2>2, <2>3, DeriveIs DEF Moves
  <2>5. d.relationship = RelationshipId(o.subject.id, "moved_laterally_to", t.id, "deterministic", r)
    BY <1>1, <1>4, <1>7, <2>2, DerivedFromSubject
  <2>6. Moved(o, t).id = d.relationship
    BY <1>7, <2>5, ReplayedFields DEF Moved
  <2>7. QED
    BY <2>4, <2>6
<1>8. r \in {"COR_SEQ_001", "COR_SEQ_002", "COR_SEQ_003"}
  BY <1>1, RuleNames
<1>9. QED
  BY <1>5, <1>6, <1>7, <1>8

\* What the replay derives of an observation that neither supports itself nor
\* is taken loosely the projection derives.
LEMMA ProjectionFollows ==
    ASSUME NEW n, log[n] \in Payload, NEW before, NEW s,
           s.relationships \subseteq
              Known(before, n) \cup {e.id : e \in Direct(log[n])},
           Ruleset = DOMAIN Rules,
           ~SupportsItself(log[n]), ~TakenLoosely(log[n]),
           NEW e \in Derive(s, log[n]),
           ValidEdge(e.id.type, e.sourceType, e.targetType)
    PROVE  \E d \in DerivedAt(before, n) : d.relationship = e.id
<1> DEFINE o == log[n]
<1>1. {"COR_SEQ_001", "COR_SEQ_002", "COR_SEQ_003"} \subseteq Ruleset
  BY DEF Rules
<1>2. /\ Rules["COR_SEQ_001"].type = "exploited"
      /\ Rules["COR_SEQ_002"].type = "compromised"
      /\ Rules["COR_SEQ_003"].type = "moved_laterally_to"
  BY DEF Rules
<1>3. ASSUME NEW r \in Ruleset, NEW id \in s.relationships, Supports(r, o, id)
      PROVE  SupportsAt(before, r, n) # {}
  <2>1. id \notin {f.id : f \in Direct(o)}
    BY <1>3 DEF SupportsItself
  <2>2. QED
    BY <1>3, <2>1 DEF SupportsAt
<1>4. \A x, y \in o.object : x = y
  BY Schema
<1>5. PICK t \in o.object :
         \/ Attempts(s, o, t) /\ e = Exploited(o, t)
         \/ \E x \in o.attack_source : Spawns(s, o, x, t) /\ e = Compromised(s, x, t)
         \/ Moves(s, o) /\ e = Moved(o, t)
  BY DeriveIs
<1>6. CASE Attempts(s, o, t) /\ e = Exploited(o, t)
  <2>1. PICK id \in s.relationships : id.type = "has_vulnerability" /\ id.source = t.id
    BY <1>6 DEF Attempts, Find
  <2>2. Supports("COR_SEQ_001", o, id)
    BY <1>6, <2>1 DEF Supports, Attempts
  <2>3. e.id.type = "exploited" /\ e.sourceType = o.subject.type /\ e.targetType = t.type
        /\ e.id = RelationshipId(o.subject.id, "exploited", t.id, "deterministic", "COR_SEQ_001")
    BY <1>6, ReplayedFields DEF Exploited
  <2>4. Admits("COR_SEQ_001", o)
    BY <1>2, <1>4, <2>3 DEF Admits
  <2>5. DerivedBy(before, "COR_SEQ_001", n).relationship = e.id
    BY <1>1, <1>2, <2>3, DerivedFromSubject
  <2>6. QED
    BY <1>1, <1>3, <2>1, <2>2, <2>4, <2>5, DerivedAtIs
<1>7. ASSUME NEW x \in o.attack_source, Spawns(s, o, x, t), e = Compromised(s, x, t)
      PROVE  \E d \in DerivedAt(before, n) : d.relationship = e.id
  <2>1. PICK id \in s.relationships : /\ id.type = "exploited" /\ id.source = x
                                      /\ id.target = t.id
    BY <1>7 DEF Spawns, Find
  <2>2. Supports("COR_SEQ_002", o, id)
    <3>1. Suspicious(o)
      BY <1>7 DEF Spawns, TakenLoosely
    <3>2. QED
      BY <1>7, <2>1, <3>1 DEF Supports
  <2>3. e.id = RelationshipId(x, "compromised", t.id, "deterministic", "COR_SEQ_002")
    BY <1>7, ReplayedFields DEF Compromised
  <2>4. Admits("COR_SEQ_002", o)
    BY DEF Admits
  <2>5. DerivedBy(before, "COR_SEQ_002", n).relationship = e.id
    BY <1>1, <1>2, <2>3, DerivedId
  <2>6. QED
    BY <1>1, <1>3, <2>1, <2>2, <2>4, <2>5, DerivedAtIs
<1>8. CASE Moves(s, o) /\ e = Moved(o, t)
  <2>1. PICK id \in s.relationships : id.type = "compromised" /\ id.target = o.subject.id
    BY <1>8 DEF Moves, Find
  <2>2. Supports("COR_SEQ_003", o, id)
    BY <1>5, <1>8, <2>1 DEF Supports, Moves
  <2>3. e.id.type = "moved_laterally_to" /\ e.sourceType = o.subject.type
        /\ e.targetType = t.type
        /\ e.id = RelationshipId(o.subject.id, "moved_laterally_to", t.id, "deterministic", "COR_SEQ_003")
    BY <1>8, ReplayedFields DEF Moved
  <2>4. Admits("COR_SEQ_003", o)
    BY <1>2, <1>4, <2>3 DEF Admits
  <2>5. DerivedBy(before, "COR_SEQ_003", n).relationship = e.id
    BY <1>1, <1>2, <2>3, DerivedFromSubject
  <2>6. QED
    BY <1>1, <1>3, <2>1, <2>2, <2>4, <2>5, DerivedAtIs
<1>9. QED
  BY <1>5, <1>6, <1>7, <1>8

LEMMA KnownSoFar ==
    ASSUME NEW k, NEW id
    PROVE  id \in Known(DerivationsBefore(k), k) <=>
              \/ \E m \in 1..(k - 1) : \E e \in Direct(log[m]) : e.id = id
              \/ \E d \in derivations : d.relationship = id /\ d.sequence < k
<1> DEFINE direct == UNION {{e.id : e \in Direct(log[m])} : m \in 1..(k - 1)}
           derived == {d.relationship :
                         d \in {x \in DerivationsBefore(k) : x.sequence < k}}
<1>1. id \in direct <=> \E m \in 1..(k - 1) : \E e \in Direct(log[m]) : e.id = id
  OBVIOUS
<1>2. id \in derived <=> \E d \in DerivationsBefore(k) :
                             d.relationship = id /\ d.sequence < k
  OBVIOUS
<1>3. id \in derived <=> \E d \in derivations : d.relationship = id /\ d.sequence < k
  BY <1>2 DEF DerivationsBefore
<1>4. Known(DerivationsBefore(k), k) = direct \cup derived
  BY DEF Known
<1> HIDE DEF direct, derived
<1>5. QED
  BY <1>1, <1>3, <1>4

\* What an observation adds to what is known.
LEMMA KnownNext ==
    ASSUME Ground, DerivationsWithin, DerivationsExact,
           NEW n \in 1..checkpoint["correlation"]
    PROVE  Known(DerivationsBefore(n + 1), n + 1) =
              Known(DerivationsBefore(n), n)
                 \cup {e.id : e \in Direct(log[n])}
                 \cup {d.relationship : d \in DerivedAt(DerivationsBefore(n), n)}
<1> DEFINE before == Known(DerivationsBefore(n), n)
           after == Known(DerivationsBefore(n + 1), n + 1)
           direct == {e.id : e \in Direct(log[n])}
           derived == {d.relationship : d \in DerivedAt(DerivationsBefore(n), n)}
<1>1. n \in Nat /\ (n + 1) - 1 = n /\ \A m \in 1..n : m \in 1..(n - 1) \/ m = n
  BY Counts
<1>2. \A m \in 1..(n - 1) : m \in 1..n
  BY <1>1
<1>3. n \in 1..n
  BY <1>1
<1>4. \A d \in derivations : d.sequence < n + 1 <=> d.sequence < n \/ d.sequence = n
  <2>1. \A d \in derivations : d.sequence \in Nat
    BY Counts DEF DerivationsWithin
  <2>2. QED
    BY <1>1, <2>1
<1>5. \A d : d \in DerivedAt(DerivationsBefore(n), n)
                <=> d \in derivations /\ d.sequence = n
  BY DEF DerivationsExact
<1>6. ASSUME NEW id PROVE id \in after <=> id \in before \/ id \in direct \/ id \in derived
  <2>1. id \in after <=>
           \/ \E m \in 1..n : \E e \in Direct(log[m]) : e.id = id
           \/ \E d \in derivations : d.relationship = id /\ d.sequence < n + 1
    BY <1>1, KnownSoFar
  <2>2. id \in before <=>
           \/ \E m \in 1..(n - 1) : \E e \in Direct(log[m]) : e.id = id
           \/ \E d \in derivations : d.relationship = id /\ d.sequence < n
    BY KnownSoFar
  <2>3. id \in direct <=> \E e \in Direct(log[n]) : e.id = id
    OBVIOUS
  <2>4. id \in derived <=> \E d \in derivations : d.relationship = id /\ d.sequence = n
    BY <1>5
  <2> HIDE DEF before, after, direct, derived
  <2>5. (\E m \in 1..n : \E e \in Direct(log[m]) : e.id = id) <=>
           \/ \E m \in 1..(n - 1) : \E e \in Direct(log[m]) : e.id = id
           \/ \E e \in Direct(log[n]) : e.id = id
    BY <1>1, <1>2, <1>3
  <2>6. (\E d \in derivations : d.relationship = id /\ d.sequence < n + 1) <=>
           \/ \E d \in derivations : d.relationship = id /\ d.sequence < n
           \/ \E d \in derivations : d.relationship = id /\ d.sequence = n
    BY <1>4
  <2>7. QED
    BY <2>1, <2>2, <2>3, <2>4, <2>5, <2>6
<1> HIDE DEF before, after, direct, derived
<1>7. after = before \cup direct \cup derived
  BY <1>6
<1>8. QED
  BY <1>7 DEF before, after, direct, derived

\* The conditions under which replay and projection derive the same.
Faithful ==
    /\ Ruleset = DOMAIN Rules
    /\ \A m \in 1..checkpoint["correlation"] :
          ~SupportsItself(log[m]) /\ ~TakenLoosely(log[m])

\* The relationships of a replayed scene compared with those known.
Agrees(s, known) ==
    /\ IsScene(s)
    /\ ~s.refused =>
          /\ \A id \in s.relationships :
                {id.source, id.target} \subseteq DOMAIN s.entities
          /\ known \subseteq s.relationships
          /\ Faithful => s.relationships \subseteq known

LEMMA AgreesNext ==
    ASSUME Ground, DerivationsWithin, DerivationsExact,
           NEW n \in 1..checkpoint["correlation"], NEW s,
           Agrees(s, Known(DerivationsBefore(n), n))
    PROVE  Agrees(Apply(s, log[n]), Known(DerivationsBefore(n + 1), n + 1))
<1> DEFINE o == log[n]
           before == DerivationsBefore(n)
           known == Known(before, n)
           direct == {e.id : e \in Direct(o)}
           derived == {d.relationship : d \in DerivedAt(before, n)}
           stating == Stating(s, o)
           replayed == {e.id : e \in Derive(stating, o)}
           next == Apply(s, o)
<1>1. Known(DerivationsBefore(n + 1), n + 1) = known \cup direct \cup derived
  BY KnownNext
<1>2. o \in Payload
  BY Counts DEF Ground, Basics
<1>3. IsScene(s) /\ IsScene(next)
  BY ApplyIs DEF Agrees
<1> SUFFICES ASSUME ~next.refused
             PROVE  /\ \A id \in next.relationships :
                          {id.source, id.target} \subseteq DOMAIN next.entities
                    /\ known \cup direct \cup derived \subseteq next.relationships
                    /\ Faithful => next.relationships
                                      \subseteq known \cup direct \cup derived
  BY <1>1, <1>3 DEF Agrees
<1>4. /\ ~s.refused
      /\ next.entities = EntitiesWith(s, o)
      /\ next.relationships = s.relationships \cup direct \cup replayed
      /\ \A e \in Derive(stating, o) : ValidEdge(e.id.type, e.sourceType, e.targetType)
  BY <1>3, ApplyIs
<1>5. /\ \A id \in s.relationships :
            {id.source, id.target} \subseteq DOMAIN s.entities
      /\ known \subseteq s.relationships
      /\ Faithful => s.relationships \subseteq known
  BY <1>4 DEF Agrees
<1>6. DOMAIN EntitiesWith(s, o) = DOMAIN s.entities \cup EntityIds(o)
  BY DEF EntitiesWith
<1>7. /\ stating.relationships = s.relationships \cup direct
      /\ stating.entities = EntitiesWith(s, o)
  BY DEF Stating
<1>8. \A t \in o.object : t.id \in EntityIds(o)
  BY DEF EntityIds, References
<1>9. o.subject.id \in EntityIds(o)
  BY DEF EntityIds, References
<1>10. ASSUME NEW e \in Direct(o) PROVE {e.id.source, e.id.target} \subseteq EntityIds(o)
  <2>1. PICK type \in o.relationship, t \in o.object :
           e = Edge(RelationshipId(o.subject.id, type, t.id, "observed", "none"),
                    o.subject.type, t.type, o.confidence)
    BY DEF Direct
  <2>2. e.id.source = o.subject.id /\ e.id.target = t.id
    BY <2>1 DEF Edge, RelationshipId
  <2>3. QED
    BY <1>8, <1>9, <2>2
<1>11. \A id \in stating.relationships :
          {id.source, id.target} \subseteq DOMAIN stating.entities
  BY <1>5, <1>6, <1>7, <1>10
<1>12. ASSUME NEW e \in Derive(stating, o)
       PROVE  {e.id.source, e.id.target} \subseteq DOMAIN stating.entities
  <2>1. PICK t \in o.object :
           \/ e = Exploited(o, t)
           \/ \E x \in o.attack_source :
                 Spawns(stating, o, x, t) /\ e = Compromised(stating, x, t)
           \/ e = Moved(o, t)
    BY DeriveIs
  <2>2. {t.id, o.subject.id} \subseteq DOMAIN stating.entities
    BY <1>6, <1>7, <1>8, <1>9
  <2>3. CASE e = Exploited(o, t)
    <3>1. e.id.source = o.subject.id /\ e.id.target = t.id
      BY <2>3, ReplayedFields DEF Exploited
    <3>2. QED
      BY <2>2, <3>1
  <2>4. ASSUME NEW x \in o.attack_source, Spawns(stating, o, x, t),
               e = Compromised(stating, x, t)
        PROVE  {e.id.source, e.id.target} \subseteq DOMAIN stating.entities
    <3>1. e.id.source = x /\ e.id.target = t.id
      BY <2>4, ReplayedFields DEF Compromised
    <3>2. x \in DOMAIN stating.entities
      BY <2>4 DEF Spawns
    <3>3. QED
      BY <2>2, <3>1, <3>2
  <2>5. CASE e = Moved(o, t)
    <3>1. e.id.source = o.subject.id /\ e.id.target = t.id
      BY <2>5, ReplayedFields DEF Moved
    <3>2. QED
      BY <2>2, <3>1
  <2>6. QED
    BY <2>1, <2>3, <2>4, <2>5
<1>13. derived \subseteq replayed
  <2>1. known \subseteq stating.relationships
    BY <1>5, <1>7
  <2>2. ASSUME NEW d \in DerivedAt(before, n)
        PROVE  \E e \in Derive(stating, o) : e.id = d.relationship
    BY <1>2, <1>11, <2>1, ReplayFollows
  <2>3. QED
    BY <2>2
<1>14. Faithful => replayed \subseteq derived
  <2> SUFFICES ASSUME Faithful, NEW e \in Derive(stating, o)
               PROVE  e.id \in derived
    OBVIOUS
  <2>1. stating.relationships \subseteq known \cup direct
    BY <1>5, <1>7
  <2>2. /\ Ruleset = DOMAIN Rules
        /\ ~SupportsItself(o) /\ ~TakenLoosely(o)
    BY DEF Faithful
  <2>3. \E d \in DerivedAt(before, n) : d.relationship = e.id
    BY <1>2, <1>4, <2>1, <2>2, ProjectionFollows
  <2>4. QED
    BY <2>3
<1>15. \A id \in next.relationships : id \in stating.relationships \/ id \in replayed
  BY <1>4, <1>7
<1>16. next.entities = stating.entities
  BY <1>4, <1>7
<1>17. \A id \in next.relationships :
          {id.source, id.target} \subseteq DOMAIN next.entities
  BY <1>11, <1>12, <1>15, <1>16
<1> HIDE DEF known, direct, derived, replayed, next
<1>18. QED
  BY <1>4, <1>5, <1>13, <1>14, <1>17

LEMMA ReplayAgrees ==
    ASSUME Ground, DerivationsWithin, DerivationsExact
    PROVE  LET c == checkpoint["correlation"]
           IN  Agrees(Replay[c], Known(DerivationsBefore(c + 1), c + 1))
<1> DEFINE c == checkpoint["correlation"]
           S == {m \in Nat : m <= c =>
                   Agrees(Replay[m], Known(DerivationsBefore(m + 1), m + 1))}
<1>1. c \in Nat /\ c <= Len(log) /\ Len(log) \in Nat
  BY Counts
<1>2. /\ Replay[0] = EmptyScene
      /\ \A n \in 1..Len(log) : Replay[n] = Apply(Replay[n - 1], log[n])
  BY <1>1, ReplayIs
<1>3. 0 \in S
  <2>1. \A id : id \notin Known(DerivationsBefore(1), 1)
    <3>1. \A d \in derivations : ~(d.sequence < 1)
      BY <1>1 DEF DerivationsWithin
    <3>2. \A m : m \notin 1..(1 - 1)
      OBVIOUS
    <3>3. QED
      BY <3>1, <3>2, KnownSoFar
  <2>2. IsScene(EmptyScene) /\ EmptyScene.relationships = {}
    BY DEF IsScene, EmptyScene
  <2>3. 0 + 1 = 1
    OBVIOUS
  <2>4. Agrees(EmptyScene, Known(DerivationsBefore(1), 1))
    BY <2>1, <2>2 DEF Agrees
  <2>5. QED
    BY <1>2, <2>3, <2>4
<1>4. ASSUME NEW m \in Nat, m \in S PROVE m + 1 \in S
  <2> SUFFICES ASSUME m + 1 <= c
               PROVE  Agrees(Replay[m + 1],
                             Known(DerivationsBefore((m + 1) + 1), (m + 1) + 1))
    OBVIOUS
  <2>1. PICK n : n = m + 1
    OBVIOUS
  <2>2. n \in 1..c /\ n \in 1..Len(log) /\ n - 1 = m /\ m <= c
    BY <1>1, <2>1
  <2>3. Agrees(Replay[m], Known(DerivationsBefore(n), n))
    BY <1>4, <2>1, <2>2
  <2>4. Replay[n] = Apply(Replay[m], log[n])
    BY <1>2, <2>2
  <2>5. Agrees(Replay[n], Known(DerivationsBefore(n + 1), n + 1))
    BY <2>2, <2>3, <2>4, AgreesNext
  <2>6. QED
    BY <2>1, <2>5
<1> HIDE DEF S
<1>5. c \in S
  BY <1>1, <1>3, <1>4, Induction
<1>6. QED
  BY <1>1, <1>5 DEF S

LEMMA StoredAreDeterministic ==
    ASSUME Ground, Graph, NEW d \in derivations
    PROVE  d.relationship.provenance = "deterministic"
<1>1. /\ d.sequence \in 1..checkpoint["correlation"] /\ d.sequence \in DOMAIN log
  BY Counts DEF Graph, DerivationsWithin
<1>2. d \in DerivedAt(DerivationsBefore(d.sequence), d.sequence)
  BY <1>1 DEF Graph, DerivationsExact
<1>3. PICK r \in Ruleset :
         /\ SupportsAt(DerivationsBefore(d.sequence), r, d.sequence) # {}
         /\ d = DerivedBy(DerivationsBefore(d.sequence), r, d.sequence)
  BY <1>2, DerivedAtIs
<1>4. log[d.sequence] \in Payload
  BY <1>1 DEF Ground, Basics
<1>5. QED
  BY <1>3, <1>4, DerivedFields

(***************************************************************************)
(* A replay derives at least what has been stored, whatever was observed,  *)
(* unless the ontology ends it; and with every rule in the ruleset, no     *)
(* observation that supports itself and none whose flag or attack source   *)
(* the replay reads more loosely, nothing else (SceneBuilder and           *)
(* CorrelationProjectionHandler).                                          *)
(***************************************************************************)
THEOREM ReplayAgreesWithProjection == Spec => []ReplayMatchesProjection
<1>1. Sound => ReplayMatchesProjection
  <2> SUFFICES ASSUME Sound PROVE ReplayMatchesProjection
    OBVIOUS
  <2> DEFINE c == checkpoint["correlation"]
             s == Replay[c]
             known == Known(DerivationsBefore(c + 1), c + 1)
             replayed == ReplayedBy(c)
  <2>1. Ground /\ Graph /\ DerivationsWithin /\ DerivationsExact
    BY DEF Sound, Pipeline, Graph
  <2>2. Agrees(s, known)
    BY <2>1, ReplayAgrees
  <2>3. \A d \in derivations : d.sequence < c + 1
    BY <2>1, Counts DEF DerivationsWithin
  <2>4. \A d \in derivations : d.relationship.provenance = "deterministic"
    BY <2>1, StoredAreDeterministic
  <2>5. \A m : \A e \in Direct(log[m]) : e.id.provenance = "observed"
    BY DEF Direct, Edge, RelationshipId
  <2>6. Stored \subseteq known
    BY <2>3, KnownSoFar DEF Stored
  <2>7. \A id \in known : id.provenance = "deterministic" => id \in Stored
    <3>1. ASSUME NEW id \in known, id.provenance = "deterministic"
          PROVE  id \in Stored
      <4>1. \A m : \A e \in Direct(log[m]) : e.id # id
        BY <2>5, <3>1
      <4>2. \E d \in derivations : d.relationship = id
        BY <3>1, <4>1, KnownSoFar
      <4>3. QED
        BY <4>2 DEF Stored
    <3>2. QED
      BY <3>1
  <2>8. replayed = {id \in s.relationships : id.provenance = "deterministic"}
    BY DEF ReplayedBy
  <2> HIDE DEF known, replayed
  <2>9. ASSUME ~s.refused PROVE Stored \subseteq replayed
    <3>1. known \subseteq s.relationships
      BY <2>2, <2>9 DEF Agrees
    <3>2. QED
      BY <2>4, <2>6, <2>8, <3>1 DEF Stored
  <2>10. ASSUME ~s.refused, Faithful PROVE replayed \subseteq Stored
    <3>1. s.relationships \subseteq known
      BY <2>2, <2>10 DEF Agrees
    <3>2. QED
      BY <2>7, <2>8, <3>1
  <2> HIDE DEF s
  <2>11. ReplayMatchesProjection <=>
            /\ ~s.refused => Stored \subseteq replayed
            /\ ~s.refused /\ Faithful => replayed = Stored
    BY DEF ReplayMatchesProjection, Comparable, Faithful, s, replayed
  <2>12. QED
    BY <2>9, <2>10, <2>11
<1>2. QED
  BY <1>1, AlwaysSound, PTL

-----------------------------------------------------------------------------
(* Refusals of the scene planner.                                          *)

LEMMA NothingContradictory ==
    ASSUME Pipeline, NEW b \in Nat, b <= checkpoint["correlation"],
           b <= checkpoint["entity"], NEW root \in Roots(b)
    PROVE  ~Contradictory(root, b)
<1>0. Ground /\ Graph
  BY DEF Pipeline
<1>1. ASSUME NEW d \in RootDerivations(root, b) \cup JoinedDerivations(root, b)
      PROVE  /\ d.sequence \in Lineage(d.relationship, b)
             /\ \A id \in d.supports : Lineage(id, d.sequence - 1) # {}
  <2>1. d \in derivations /\ d.sequence <= b
    BY DEF RootDerivations, JoinedDerivations, ReverseDerivations, DerivationsOf
  <2>2. /\ d.sequence \in 1..checkpoint["correlation"]
        /\ At(d.relationship, d.sequence)
        /\ \A id \in d.supports : \E m \in 1..(d.sequence - 1) : At(id, m)
    BY <1>0, <2>1, Layers DEF Graph
  <2>3. /\ checkpoint["correlation"] \in Nat /\ d.sequence \in 1..b
        /\ d.sequence - 1 \in Nat /\ d.sequence - 1 <= checkpoint["correlation"]
    BY <1>0, <2>1, <2>2, Counts
  <2>4. d.sequence \in Lineage(d.relationship, b)
    BY <1>0, <2>2, <2>3, LineageIs
  <2>5. ASSUME NEW id \in d.supports PROVE Lineage(id, d.sequence - 1) # {}
    <3>1. Lineage(id, d.sequence - 1) = {m \in 1..(d.sequence - 1) : At(id, m)}
      BY <1>0, <2>3, LineageIs
    <3>2. QED
      BY <2>2, <3>1
  <2>6. QED
    BY <2>4, <2>5
<1>2. ASSUME NEW id \in Members(root, b)
      PROVE  /\ id \in DOMAIN relationships /\ Lineage(id, b) # {}
             /\ Ends(id) \subseteq DOMAIN entities
  <2>1. id \in MembersOf(root, b)
    BY <1>0, PlanIs
  <2>2. Lineage(id, b) # {} /\ id \in DOMAIN relationships
    BY <1>0, <2>1, MembersKnown
  <2>3. PICK m \in Lineage(id, b) : TRUE
    BY <2>2
  <2>4. m \in 1..b /\ At(id, m)
    BY <1>0, <2>3, LineageIs
  <2>5. m <= checkpoint["entity"] /\ m <= checkpoint["correlation"]
    BY <1>0, <2>4, Counts
  <2>6. QED
    BY <2>2, <2>4, <2>5, EndsKnown
<1>3. QED
  BY <1>1, <1>2 DEF Contradictory

\* Plans only grow with their boundary.
LEMMA NothingUnexpected ==
    ASSUME Ground, Graph, NEW b \in Nat, NEW c \in Nat, c <= b,
           b <= checkpoint["correlation"], NEW root \in Roots(c),
           NEW stored, stored = PlanOf(root, c), NEW plan, plan = PlanOf(root, b)
    PROVE  ~Unexpected(stored, plan)
<1>0. \A d \in derivations : d.sequence \in Nat
  BY Counts DEF Graph, DerivationsWithin
<1>1. \A rules : DerivationsOf(rules, c) \subseteq DerivationsOf(rules, b)
  BY <1>0 DEF DerivationsOf
<1>2. root \in Roots(b)
  BY <1>1 DEF Roots
<1>3. MembersOf(root, c) \subseteq MembersOf(root, b)
  <2>1. RootDerivations(root, c) \subseteq RootDerivations(root, b)
    BY <1>1 DEF RootDerivations
  <2>2. FirstLayer(root, c) \subseteq FirstLayer(root, b)
    BY <1>1 DEF FirstLayer
  <2>3. SecondLayer(root, c) \subseteq SecondLayer(root, b)
    BY <1>1, <2>2 DEF SecondLayer, RelationshipsOf
  <2>4. Joins(root, c) \subseteq Joins(root, b)
    BY <2>2, <2>3 DEF Joins
  <2>5. SupportedBy(root, c) \subseteq SupportedBy(root, b)
    BY <2>1 DEF SupportedBy
  <2>6. RelationshipsOf(Joins(root, c)) \subseteq RelationshipsOf(Joins(root, b))
    BY <2>4 DEF RelationshipsOf
  <2>7. QED
    BY <2>5, <2>6 DEF MembersOf
<1>4. ASSUME NEW id PROVE Lineage(id, c) \subseteq Lineage(id, b)
  <2>1. checkpoint["correlation"] \in Nat
    BY Counts
  <2>2. c <= checkpoint["correlation"]
    BY <2>1
  <2>3. /\ Lineage(id, c) = {m \in 1..c : At(id, m)}
        /\ Lineage(id, b) = {m \in 1..b : At(id, m)}
    BY <2>1, <2>2, LineageIs
  <2>4. 1..c \subseteq 1..b
    OBVIOUS
  <2>5. QED
    BY <2>3, <2>4
<1>5. /\ stored.relationships = MemberSpans(root, c)
      /\ stored.entities = EndSpans(root, c)
      /\ stored.observations = PositionsOf(MembersOf(root, c), c)
      /\ plan.relationships = MemberSpans(root, b)
      /\ plan.entities = EndSpans(root, b)
      /\ plan.observations = PositionsOf(MembersOf(root, b), b)
      /\ plan.transitions = TransitionsOf(root, b)
  BY PlanFields
<1>6. DOMAIN stored.relationships \subseteq DOMAIN plan.relationships
  BY <1>3, <1>5 DEF MemberSpans
<1>7. DOMAIN stored.entities \subseteq DOMAIN plan.entities
  BY <1>3, <1>5 DEF EndSpans
<1>8. stored.observations \subseteq plan.observations
  BY <1>3, <1>4, <1>5 DEF PositionsOf
<1>9. stored.transitions \subseteq plan.transitions
  <2>1. Merged(stored, plan) = plan
    BY MergedIsPlan
  <2>2. Merged(stored, plan) =
           [plan EXCEPT !.state = Advanced(stored.state, plan.state),
                        !.transitions = stored.transitions \cup plan.transitions]
    BY DEF Merged
  <2>3. plan = [state |-> plan.state, span |-> plan.span,
                relationships |-> plan.relationships,
                entities |-> plan.entities,
                observations |-> plan.observations,
                transitions |-> plan.transitions]
    BY PlanFields
  <2>4. plan.transitions = stored.transitions \cup plan.transitions
    BY <2>1, <2>2, <2>3
  <2>5. QED
    BY <2>4
<1>10. \A s, t \in plan.transitions : s.sequence = t.sequence => s = t
  <2> DEFINE observed == FirstTrigger(RootDerivations(root, b))
             confirmed == FirstTrigger(FirstLayer(root, b))
  <2>1. /\ observed \in Nat
        /\ FirstLayer(root, b) # {} => confirmed \in Nat /\ observed < confirmed
    BY <1>2, TransitionsInOrder, Times DEF Ground
  <2>2. plan.transitions = {Transition("potential", "observed", observed)}
           \cup IF FirstLayer(root, b) = {} THEN {}
                ELSE {Transition("observed", "confirmed", confirmed)}
    BY <1>5 DEF TransitionsOf
  <2> HIDE DEF observed, confirmed
  <2>3. QED
    BY <2>1, <2>2 DEF Transition
<1>11. QED
  BY <1>6, <1>7, <1>8, <1>9, <1>10 DEF Unexpected

\* The scene planner and its handler find nothing to refuse in the next item.
PlannerNeverRefuses ==
    LET n == NextItem("scene")
    IN  Ready("scene") /\ DependenciesReady(n) =>
          /\ \A root \in Roots(n) : ~Contradictory(root, n)
          /\ \A root \in Roots(n) \cap DOMAIN scenes :
                ~Unexpected(scenes[root], Plan(root, n))

(***************************************************************************)
(* No invariant error of AttackSceneMembershipPlanner or of                *)
(* AttackSceneProjectionHandler ever comes about: once its dependencies    *)
(* have reached the next observation, the lineage, the supports and the    *)
(* ends of all that is planned are in the tables, and whatever is stored of*)
(* a scene is planned again.  The scene projector, which has no poison and *)
(* would roll such an observation back for ever, is never held up.         *)
(***************************************************************************)
THEOREM ScenePlannerNeverRefuses == Spec => []PlannerNeverRefuses
<1>1. Sound => PlannerNeverRefuses
  <2> SUFFICES ASSUME Sound PROVE PlannerNeverRefuses
    OBVIOUS
  <2>0. Pipeline /\ Ground /\ Graph /\ ScenesTrue
    BY DEF Sound, Pipeline
  <2>1. ASSUME NEW n, n = NextItem("scene"), DependenciesReady(n)
        PROVE  /\ \A root \in Roots(n) : ~Contradictory(root, n)
               /\ \A root \in Roots(n) \cap DOMAIN scenes :
                     ~Unexpected(scenes[root], Plan(root, n))
    <3> DEFINE c == checkpoint["scene"]
    <3>1. /\ c \in Nat /\ n \in Nat /\ c <= n
          /\ n <= checkpoint["correlation"] /\ n <= checkpoint["entity"]
      <4>1. c \in Nat /\ checkpoint["correlation"] \in Nat /\ checkpoint["entity"] \in Nat
        BY <2>0, Counts DEF Ground, Basics, Projector
      <4>2. n = c + 1
        BY <2>1 DEF NextItem
      <4>3. n <= checkpoint["correlation"] /\ n <= checkpoint["entity"]
        BY <2>1, <4>1, <4>2 DEF DependenciesReady
      <4>4. QED
        BY <4>1, <4>2, <4>3
    <3>2. DOMAIN scenes = Roots(c) /\ \A root \in Roots(c) : scenes[root] = PlanOf(root, c)
      BY <2>0 DEF ScenesTrue
    <3> HIDE DEF c
    <3>3. ASSUME NEW root \in Roots(n), root \in DOMAIN scenes
          PROVE  ~Unexpected(scenes[root], Plan(root, n))
      <4>1. Plan(root, n) = PlanOf(root, n)
        BY <2>0, PlanIs
      <4>2. root \in Roots(c) /\ scenes[root] = PlanOf(root, c)
        BY <3>2, <3>3
      <4>3. QED
        BY <2>0, <3>1, <4>1, <4>2, NothingUnexpected
    <3>4. QED
      BY <2>0, <3>1, <3>3, NothingContradictory
  <2>2. QED
    BY <2>1 DEF PlannerNeverRefuses
<1>2. QED
  BY <1>1, AlwaysSound, PTL

-----------------------------------------------------------------------------
(* Refusals of the two writers of the graph.                               *)

\* Observation m names the entity as one of this type.
Names(m, entity, type) ==
    \E r \in References(log[m]) : r.id = entity /\ r.type = type

Named(entity, type) == \E m \in DOMAIN log : Names(m, entity, type)

\* Whatever the graph takes the ends of a relationship for, observations have
\* named them so.
EndsNamed ==
    \A id \in DOMAIN relationships :
        /\ Named(id.source, relationships[id].sourceType)
        /\ Named(id.target, relationships[id].targetType)

LEMMA WrittenEndsNamed ==
    ASSUME Graph, EndsNamed, NEW n, NEW edges,
           relationships' = RelationshipsAfter(edges, n), log' = log,
           \A e \in edges : /\ Named(e.id.source, e.sourceType)
                            /\ Named(e.id.target, e.targetType)
    PROVE  EndsNamed'
<1>1. \A entity, type : Named(entity, type)' <=> Named(entity, type)
  BY DEF Named, Names
<1>2. ASSUME NEW id \in DOMAIN relationships'
      PROVE  /\ Named(id.source, relationships'[id].sourceType)
             /\ Named(id.target, relationships'[id].targetType)
  <2>1. CASE id \notin {e.id : e \in edges}
    <3>1. id \in DOMAIN relationships /\ relationships'[id] = relationships[id]
      BY <2>1 DEF RelationshipsAfter
    <3>2. QED
      BY <3>1 DEF EndsNamed
  <2>2. CASE id \in {e.id : e \in edges}
    <3>1. PICK e \in edges : e.id = id /\ relationships'[id] = RelationshipRow(e, n)
      <4>1. (CHOOSE e \in edges : e.id = id) \in edges
            /\ (CHOOSE e \in edges : e.id = id).id = id
        BY <2>2
      <4>2. relationships'[id] = RelationshipRow(CHOOSE e \in edges : e.id = id, n)
        BY <2>2 DEF RelationshipsAfter
      <4>3. QED
        BY <4>1, <4>2
    <3>2. CASE id \notin DOMAIN relationships
      BY <3>1, <3>2 DEF RelationshipRow
    <3>3. CASE id \in DOMAIN relationships
      <4>1. IsGraphRow(relationships[id])
        BY <3>3 DEF Graph, RelationshipsTrue, RelationshipTrue
      <4>2. relationships'[id] =
               [relationships[id] EXCEPT !.confidence = Greatest(@, e.confidence),
                                         !.span = Widened(@, n)]
        BY <3>1, <3>3 DEF RelationshipRow
      <4>3. /\ relationships'[id].sourceType = relationships[id].sourceType
            /\ relationships'[id].targetType = relationships[id].targetType
        BY <4>1, <4>2 DEF IsGraphRow
      <4>4. QED
        BY <3>3, <4>3 DEF EndsNamed
    <3>4. QED
      BY <3>2, <3>3
  <2>3. QED
    BY <2>1, <2>2
<1>3. QED
  BY <1>1, <1>2 DEF EndsNamed

LEMMA SubjectNamed ==
    ASSUME NEW n \in DOMAIN log
    PROVE  /\ Named(log[n].subject.id, log[n].subject.type)
           /\ \A t \in log[n].object : Named(t.id, t.type)
BY DEF Named, Names, References

\* The process and its source, as the rule of compromises finds them.
LEMMA SuspiciousChild ==
    ASSUME Ground, NEW n \in DOMAIN log, NEW c \in SuspiciousChildren(n)
    PROVE  /\ c.supports # {} /\ c.supports \subseteq DOMAIN relationships
           /\ c.target \in log[n].object
           /\ \A id \in c.supports : id.source = c.source /\ id.target = c.target.id
<1>1. /\ \A s, t \in log[n].object : s = t
      /\ \A s, t \in log[n].attack_source : s = t
  BY Times, Schema DEF Ground
<1>2. /\ c \in [source : log[n].attack_source, target : log[n].object,
                supports : {PriorExploits(s, t.id, n) :
                              s \in log[n].attack_source, t \in log[n].object}]
      /\ c.supports # {}
  BY DEF SuspiciousChildren
<1>3. /\ c.source \in log[n].attack_source /\ c.target \in log[n].object
      /\ \E s \in log[n].attack_source, t \in log[n].object :
            c.supports = PriorExploits(s, t.id, n)
  BY <1>2
<1>4. c.supports = PriorExploits(c.source, c.target.id, n)
  BY <1>1, <1>3
<1>5. QED
  BY <1>2, <1>3, <1>4 DEF PriorExploits

LEMMA CandidateNamed ==
    ASSUME Ground, EndsNamed, NEW n \in DOMAIN log, NEW c \in Candidates(n)
    PROVE  /\ Named(c.edge.id.source, c.edge.sourceType)
           /\ Named(c.edge.id.target, c.edge.targetType)
<1>1. PICK rule \in Ruleset : c \in CandidatesOf(rule, n)
  BY DEF Candidates
<1>2. ASSUME NEW source, NEW sourceType, NEW t, NEW supports, NEW r,
             c = Candidate(r, source, sourceType, t, supports),
             t \in log[n].object, Named(source, sourceType)
      PROVE  /\ Named(c.edge.id.source, c.edge.sourceType)
             /\ Named(c.edge.id.target, c.edge.targetType)
  <2>1. /\ c.edge.id = RelationshipId(source, Rules[r].type, t.id,
                                      "deterministic", r)
        /\ c.edge.sourceType = sourceType /\ c.edge.targetType = t.type
    BY <1>2, CandidateFields
  <2>2. c.edge.id.source = source /\ c.edge.id.target = t.id
    BY <2>1 DEF RelationshipId
  <2>3. QED
    BY <1>2, <2>1, <2>2, SubjectNamed
<1>3. CASE rule = "COR_SEQ_001"
  <2>1. c \in Exploits(n)
    BY <1>1, <1>3 DEF CandidatesOf
  <2>2. PICK t \in log[n].object :
           c = Candidate("COR_SEQ_001", log[n].subject.id, log[n].subject.type, t,
                         PriorVulnerabilities(t.id, n))
    BY <2>1 DEF Exploits
  <2>3. QED
    BY <1>2, <2>2, SubjectNamed
<1>4. CASE rule = "COR_SEQ_002"
  <2>1. c \in Compromises(n)
    BY <1>1, <1>4 DEF CandidatesOf
  <2>2. PICK x \in SuspiciousChildren(n) :
           c = Candidate("COR_SEQ_002", x.source,
                         CHOOSE t \in SourceTypesOf(x.supports) : TRUE,
                         x.target, x.supports)
    BY <2>1 DEF Compromises
  <2>3. /\ x.supports # {} /\ x.supports \subseteq DOMAIN relationships
        /\ x.target \in log[n].object
        /\ \A id \in x.supports : id.source = x.source
    BY SuspiciousChild
  <2> DEFINE sourceType == CHOOSE t \in SourceTypesOf(x.supports) : TRUE
  <2>4. sourceType \in SourceTypesOf(x.supports)
    BY <2>3 DEF SourceTypesOf
  <2>5. Named(x.source, sourceType)
    BY <2>3, <2>4 DEF SourceTypesOf, EndsNamed
  <2> HIDE DEF sourceType
  <2>6. c = Candidate("COR_SEQ_002", x.source, sourceType, x.target, x.supports)
    BY <2>2 DEF sourceType
  <2>7. QED
    BY <1>2, <2>3, <2>5, <2>6
<1>5. CASE rule = "COR_SEQ_003"
  <2>1. c \in LateralMoves(n)
    BY <1>1, <1>5 DEF CandidatesOf
  <2>2. PICK t \in log[n].object :
           c = Candidate("COR_SEQ_003", log[n].subject.id, log[n].subject.type, t,
                         PriorCompromises(log[n].subject.id, n))
    BY <2>1 DEF LateralMoves
  <2>3. QED
    BY <1>2, <2>2, SubjectNamed
<1>6. QED
  BY <1>3, <1>4, <1>5, RuleNames

LEMMA EndsNamedStep ==
    ASSUME Ground, Graph, EndsNamed, [Next]_vars
    PROVE  EndsNamed'
<1>1. ASSUME relationships' = relationships, DOMAIN log \subseteq DOMAIN log',
             \A m \in DOMAIN log : log'[m] = log[m]
      PROVE  EndsNamed'
  <2>1. \A entity, type : Named(entity, type) => Named(entity, type)'
    BY <1>1 DEF Named, Names
  <2>2. QED
    BY <1>1, <2>1 DEF EndsNamed
<1>2. CASE RunRelationship
  <2>1. CASE ProjectRelationship
    <3> DEFINE n == NextItem("relationship")
               edges == Direct(log[n])
    <3>1. /\ Ready("relationship") /\ log' = log
          /\ relationships' = RelationshipsAfter(edges, n)
      BY <2>1 DEF ProjectRelationship, Processed
    <3>2. n \in DOMAIN log
      BY <3>1, Counts DEF Ready, NextItem
    <3>3. log[n] \in Payload
      BY <3>2, Times DEF Ground
    <3> HIDE DEF n
    <3>4. ASSUME NEW e \in edges
          PROVE  /\ Named(e.id.source, e.sourceType)
                 /\ Named(e.id.target, e.targetType)
      BY <3>2, <3>3, DirectEdge, SubjectNamed
    <3> HIDE DEF edges
    <3>5. QED
      BY <3>1, <3>4, WrittenEndsNamed
  <2>2. CASE PoisonRelationship
    BY <1>1, <2>2 DEF PoisonRelationship, Poisoned, graphTables
  <2>3. QED
    BY <1>2, <2>1, <2>2 DEF RunRelationship
<1>3. CASE RunCorrelation
  <2> DEFINE n == NextItem("correlation")
             edges == {c.edge : c \in Candidates(n)}
  <2>1. /\ Ready("correlation") /\ log' = log
        /\ relationships' = RelationshipsAfter(edges, n)
    BY <1>3 DEF RunCorrelation, Correlate, Processed
  <2>2. n \in DOMAIN log
    BY <2>1, Counts DEF Ready, NextItem
  <2> HIDE DEF n
  <2>3. ASSUME NEW e \in edges
        PROVE  /\ Named(e.id.source, e.sourceType)
               /\ Named(e.id.target, e.targetType)
    BY <2>2, CandidateNamed
  <2> HIDE DEF edges
  <2>4. QED
    BY <2>1, <2>3, WrittenEndsNamed
<1>4. CASE \/ \E o \in Payload : AppendObservation(o)
           \/ RunEntity \/ RunScene \/ UNCHANGED vars
  <2>1. GraphElsewhere
    BY <1>4, OthersKeepGraph DEF Ground
  <2>2. QED
    BY <1>1, <2>1 DEF GraphElsewhere, graphTables
<1>5. QED
  BY <1>2, <1>3, <1>4 DEF Next

\* Whatever observations call an entity, they take it for one type of thing.
TypesAgree ==
    \A o, p \in Payload : \A r \in References(o), s \in References(p) :
        r.id = s.id => r.type = s.type

LEMMA OneType ==
    ASSUME TypesAgree, Ground, NEW entity, NEW type, NEW other,
           Named(entity, type), Named(entity, other)
    PROVE  type = other
BY Times DEF TypesAgree, Ground, Named, Names

\* Neither the relationship projector nor the correlation projector finds
\* something to refuse in its next item.
GraphNeverRefuses ==
    /\ Ready("relationship") =>
          \A e \in Direct(log[NextItem("relationship")]) : ~Collides(e)
    /\ LET n == NextItem("correlation")
       IN  Ready("correlation") =>
             ~ConflictingSupports(n) /\ \A c \in Candidates(n) : ~Collides(c.edge)

LEMMA NothingCollides ==
    ASSUME TypesAgree, Ground, EndsNamed, NEW e,
           Named(e.id.source, e.sourceType), Named(e.id.target, e.targetType)
    PROVE  ~Collides(e)
BY OneType DEF Collides, EndsNamed

LEMMA NothingConflicts ==
    ASSUME TypesAgree, Ground, EndsNamed, NEW n \in DOMAIN log
    PROVE  ~ConflictingSupports(n)
<1>1. ASSUME NEW S, S # {}, S \subseteq DOMAIN relationships,
             NEW source, \A id \in S : id.source = source
      PROVE  Cardinality(SourceTypesOf(S)) = 1
  <2>1. PICK id \in S : TRUE
    BY <1>1
  <2>2. \A x \in S : relationships[x].sourceType = relationships[id].sourceType
    BY <1>1, OneType DEF EndsNamed
  <2>3. SourceTypesOf(S) = {relationships[id].sourceType}
    BY <2>1, <2>2 DEF SourceTypesOf
  <2>4. QED
    BY <2>3, FS_Singleton
<1>2. ASSUME NEW S, S # {}, S \subseteq DOMAIN relationships,
             NEW target, NEW type, \A id \in S : id.target = target,
             Named(target, type)
      PROVE  TargetTypesOf(S) = {type}
  <2>1. \A x \in S : relationships[x].targetType = type
    BY <1>2, OneType DEF EndsNamed
  <2>2. QED
    BY <1>2, <2>1 DEF TargetTypesOf
<1>3. ASSUME NEW c \in SuspiciousChildren(n)
      PROVE  /\ Cardinality(SourceTypesOf(c.supports)) = 1
             /\ TargetTypesOf(c.supports) = {c.target.type}
  <2>1. /\ c.supports # {} /\ c.supports \subseteq DOMAIN relationships
        /\ c.target \in log[n].object
        /\ \A id \in c.supports : id.source = c.source
        /\ \A id \in c.supports : id.target = c.target.id
    BY SuspiciousChild
  <2>2. Named(c.target.id, c.target.type)
    BY <2>1, SubjectNamed
  <2> DEFINE S == c.supports
  <2>3. /\ S # {} /\ S \subseteq DOMAIN relationships
        /\ \A id \in S : id.source = c.source
        /\ \A id \in S : id.target = c.target.id
    BY <2>1
  <2> HIDE DEF S
  <2>4. Cardinality(SourceTypesOf(S)) = 1
    BY <1>1, <2>3
  <2>5. TargetTypesOf(S) = {c.target.type}
    BY <1>2, <2>2, <2>3
  <2>6. QED
    BY <2>4, <2>5 DEF S
<1>4. ASSUME NEW supports, supports = PriorCompromises(log[n].subject.id, n),
             supports # {}
      PROVE  TargetTypesOf(supports) = {log[n].subject.type}
  <2>1. /\ supports \subseteq DOMAIN relationships
        /\ \A id \in supports : id.target = log[n].subject.id
    BY <1>4 DEF PriorCompromises
  <2>2. QED
    BY <1>2, <1>4, <2>1, SubjectNamed
<1>5. QED
  BY <1>3, <1>4 DEF ConflictingSupports

(***************************************************************************)
(* Disagreement about types is all that can hold the graph up: as long as  *)
(* no two observations take one entity for things of different types,      *)
(* whatever their order, no relationship collides with a stored one and no *)
(* supports of a rule contradict each other (the invariant errors of       *)
(* RelationshipProjectionHandler and CorrelationGraphReader, which roll an *)
(* item back for ever without recording a failure).                        *)
(***************************************************************************)
THEOREM AgreeingTypesAreNeverRefused ==
    TypesAgree => (Spec => []GraphNeverRefuses)
<1> SUFFICES ASSUME TypesAgree PROVE Spec => []GraphNeverRefuses
  OBVIOUS
<1>1. Sound /\ EndsNamed => GraphNeverRefuses
  <2> SUFFICES ASSUME Sound, EndsNamed PROVE GraphNeverRefuses
    OBVIOUS
  <2>0. Ground /\ Graph
    BY DEF Sound, Pipeline
  <2>1. ASSUME NEW n, n = NextItem("relationship"), Ready("relationship"),
               NEW e \in Direct(log[n])
        PROVE  ~Collides(e)
    <3>1. n \in DOMAIN log
      BY <2>0, <2>1, Counts DEF Ready, NextItem
    <3>2. log[n] \in Payload
      BY <2>0, <3>1, Times DEF Ground
    <3>3. Named(e.id.source, e.sourceType) /\ Named(e.id.target, e.targetType)
      BY <3>1, <3>2, DirectEdge, SubjectNamed
    <3>4. QED
      BY <2>0, <3>3, NothingCollides
  <2>2. ASSUME NEW n, n = NextItem("correlation"), Ready("correlation")
        PROVE  ~ConflictingSupports(n) /\ \A c \in Candidates(n) : ~Collides(c.edge)
    <3>1. n \in DOMAIN log
      BY <2>0, <2>2, Counts DEF Ready, NextItem
    <3>2. ASSUME NEW c \in Candidates(n) PROVE ~Collides(c.edge)
      BY <2>0, <3>1, CandidateNamed, NothingCollides
    <3>3. QED
      BY <2>0, <3>1, <3>2, NothingConflicts
  <2>3. QED
    BY <2>1, <2>2 DEF GraphNeverRefuses
<1>2. Init => EndsNamed
  <2>1. Init => relationships = << >>
    BY DEF Init, GraphInit
  <2>2. DOMAIN << >> = {}
    OBVIOUS
  <2>3. QED
    BY <2>1, <2>2 DEF EndsNamed
<1>3. Sound /\ EndsNamed /\ [Next]_vars => EndsNamed'
  BY EndsNamedStep DEF Sound, Pipeline
<1>4. QED
  BY <1>1, <1>2, <1>3, AlwaysSound, PTL DEF Spec

-----------------------------------------------------------------------------
(* Nothing is taken back.                                                  *)

\* An entity keeps its type, and shows its claim until a later one replaces it.
EntityAdvances(row, next) ==
    /\ next.type = row.type
    /\ \/ next.claim = row.claim /\ next.claimed = row.claimed
       \/ Later(next.claimed, row.claimed)

\* A relationship keeps its ends, and confidence in it only rises.
RelationshipAdvances(row, next) ==
    /\ next.sourceType = row.sourceType /\ next.targetType = row.targetType
    /\ next.confidence >= row.confidence

\* A scene loses no member and no transition, and never goes back a state.
SceneAdvances(scene, next) ==
    /\ DOMAIN scene.relationships \subseteq DOMAIN next.relationships
    /\ DOMAIN scene.entities \subseteq DOMAIN next.entities
    /\ scene.observations \subseteq next.observations
    /\ scene.transitions \subseteq next.transitions
    /\ StateRank[scene.state] <= StateRank[next.state]

NothingTakenBack ==
    /\ lineage \subseteq lineage'
    /\ derivations \subseteq derivations'
    /\ entityObservations \subseteq entityObservations'
    /\ \A id \in DOMAIN entities :
          id \in DOMAIN entities' /\ EntityAdvances(entities[id], entities'[id])
    /\ \A id \in DOMAIN relationships :
          /\ id \in DOMAIN relationships'
          /\ RelationshipAdvances(relationships[id], relationships'[id])
    /\ \A root \in DOMAIN scenes :
          root \in DOMAIN scenes' /\ SceneAdvances(scenes[root], scenes'[root])

LEMMA EntitiesAdvance ==
    ASSUME Sound, [Next]_vars, NEW id \in DOMAIN entities
    PROVE  id \in DOMAIN entities' /\ EntityAdvances(entities[id], entities'[id])
<1> DEFINE n == NextItem("entity")
           o == log[n]
           row == entities[id]
           r == Reference(o, id)
           claimed == << log[n].time, n >>
           wider == [row EXCEPT !.span = Widened(row.span, n)]
<1>1. id \in DOMAIN entities' /\ entities'[id].type = row.type
  BY EntitiesGrow
<1>2. CASE ProjectEntities
  <2>1. \/ entities'[id] = row
        \/ id \in EntityIds(o) /\ entities'[id] = EntityRow(r, n)
    <3>1. entities' = [i \in DOMAIN entities \cup EntityIds(o) |->
                        IF i \in EntityIds(o) THEN EntityRow(Reference(o, i), n)
                                              ELSE entities[i]]
      BY <1>2 DEF ProjectEntities
    <3>2. CASE id \in EntityIds(o)
      <4>1. entities'[id] = EntityRow(Reference(o, id), n)
        BY <3>1, <3>2
      <4>2. QED
        BY <3>2, <4>1
    <3>3. CASE id \notin EntityIds(o)
      BY <3>1, <3>3
    <3>4. QED
      BY <3>2, <3>3
  <2>2. CASE entities'[id] = row
    BY <1>1, <2>2 DEF EntityAdvances
  <2>3. CASE id \in EntityIds(o) /\ entities'[id] = EntityRow(r, n)
    <3>1. IsRow(row)
      BY DEF Sound, Pipeline, TablesTrue, EntitiesTrue, RowTrue
    <3>2. wider = [type |-> row.type, claim |-> row.claim,
                   claimed |-> row.claimed, span |-> Widened(row.span, n)]
      BY <3>1 DEF IsRow
    <3>3. r.id = id
      <4>1. \E x \in References(o) : x.id = id
        BY <2>3 DEF EntityIds
      <4>2. QED
        BY <4>1 DEF Reference
    <3>4. \/ EntityRow(r, n) = wider
          \/ /\ EntityRow(r, n) = [wider EXCEPT !.claim = r.claim, !.claimed = claimed]
             /\ Later(claimed, row.claimed)
      BY <3>3 DEF EntityRow
    <3> HIDE DEF wider, row, r, claimed
    <3>5. CASE EntityRow(r, n) = wider
      BY <1>1, <2>3, <3>2, <3>5 DEF EntityAdvances, row
    <3>6. CASE /\ EntityRow(r, n) = [wider EXCEPT !.claim = r.claim, !.claimed = claimed]
               /\ Later(claimed, row.claimed)
      <4>1. EntityRow(r, n) = [type |-> row.type, claim |-> r.claim,
                               claimed |-> claimed, span |-> Widened(row.span, n)]
        BY <3>2, <3>6
      <4>2. entities'[id].claimed = claimed
        BY <2>3, <4>1
      <4>3. QED
        BY <1>1, <3>6, <4>2 DEF EntityAdvances, row
    <3>7. QED
      BY <3>4, <3>5, <3>6
  <2>4. QED
    BY <2>1, <2>2, <2>3
<1>3. CASE UNCHANGED entityTables
  BY <1>3 DEF entityTables, EntityAdvances
<1>4. \/ ProjectEntities
      \/ UNCHANGED entityTables
  BY DEF Next, AppendObservation, RunEntity, PoisonEntity, RunRelationship,
     RunCorrelation, RunScene, vars
<1>5. QED
  BY <1>1, <1>2, <1>3, <1>4

\* Writing a set of edges only strengthens the relationships already stored.
LEMMA EdgesAdvance ==
    ASSUME Sound, NEW id \in DOMAIN relationships, NEW edges, NEW n,
           relationships' = RelationshipsAfter(edges, n),
           \A e \in edges : e.confidence \in 0..100
    PROVE  RelationshipAdvances(relationships[id], relationships'[id])
<1> DEFINE row == relationships[id]
<1>2. IsGraphRow(row) /\ row.confidence \in 0..100
  BY DEF Sound, Pipeline, Graph, RelationshipsTrue, RelationshipTrue
<1>3. RelationshipAdvances(row, relationships'[id])
  <2>1. CASE id \in {e.id : e \in edges}
    <3> DEFINE e == CHOOSE x \in edges : x.id = id
    <3>1. e \in edges /\ e.id = id
      BY <2>1
    <3>2. relationships'[id] = RelationshipRow(e, n)
      BY <2>1 DEF RelationshipsAfter
    <3> HIDE DEF e
    <3>3. relationships'[id] = [row EXCEPT !.confidence = Greatest(@, e.confidence),
                                           !.span = Widened(@, n)]
      BY <3>1, <3>2 DEF RelationshipRow
    <3>4. /\ relationships'[id].sourceType = row.sourceType
          /\ relationships'[id].targetType = row.targetType
          /\ relationships'[id].confidence = Greatest(row.confidence, e.confidence)
      BY <1>2, <3>3 DEF IsGraphRow
    <3>5. e.confidence \in 0..100
      BY <3>1
    <3>6. Greatest(row.confidence, e.confidence) >= row.confidence
      BY <1>2, <3>5, SMTT(30) DEF Greatest
    <3>7. QED
      BY <3>4, <3>6 DEF RelationshipAdvances
  <2>2. CASE id \notin {e.id : e \in edges}
    <3>1. relationships'[id] = row
      BY <2>2 DEF RelationshipsAfter
    <3>2. row.confidence >= row.confidence
      BY <1>2
    <3>3. QED
      BY <3>1, <3>2 DEF RelationshipAdvances
  <2>3. QED
    BY <2>1, <2>2
<1>4. QED
  BY <1>3

LEMMA RelationshipsAdvance ==
    ASSUME Sound, [Next]_vars, NEW id \in DOMAIN relationships
    PROVE  /\ id \in DOMAIN relationships'
           /\ RelationshipAdvances(relationships[id], relationships'[id])
<1> DEFINE row == relationships[id]
<1>1. id \in DOMAIN relationships'
  BY RelationshipsGrow
<1>2. IsGraphRow(row) /\ row.confidence \in 0..100
  BY DEF Sound, Pipeline, Graph, RelationshipsTrue, RelationshipTrue
<1>4. CASE UNCHANGED relationships
  <2>1. row.confidence >= row.confidence
    BY <1>2
  <2>2. QED
    BY <1>4, <2>1 DEF RelationshipAdvances
<1>5. CASE ProjectRelationship
  <2> DEFINE n == NextItem("relationship")
  <2>1. Ready("relationship") /\ relationships' = RelationshipsAfter(Direct(log[n]), n)
    BY <1>5 DEF ProjectRelationship
  <2>2. n \in DOMAIN log
    BY <2>1, Counts DEF Ready, NextItem, Sound, Pipeline
  <2>3. log[n] \in Payload
    BY <2>2, Times DEF Sound, Pipeline, Ground
  <2>4. \A e \in Direct(log[n]) : e.confidence \in 0..100
    BY <2>3, DirectEdge
  <2>5. PICK edges, k : edges = Direct(log[n]) /\ k = n
    OBVIOUS
  <2>6. relationships' = RelationshipsAfter(edges, k)
        /\ \A e \in edges : e.confidence \in 0..100
    BY <2>1, <2>4, <2>5
  <2>7. QED
    BY <1>1, <2>6, EdgesAdvance
<1>6. CASE Correlate
  <2>1. PICK n, edges : /\ relationships' = RelationshipsAfter(edges, n)
                        /\ edges = {c.edge : c \in Candidates(n)}
    BY <1>6 DEF Correlate
  <2>2. ASSUME NEW c \in Candidates(n) PROVE c.edge.confidence \in 0..100
    <3>1. PICK rule \in Ruleset : c \in CandidatesOf(rule, n)
      BY DEF Candidates
    <3>2. \E source, sourceType, t, supports :
             c = Candidate(rule, source, sourceType, t, supports)
      BY <3>1, RuleNames DEF CandidatesOf, Exploits, Compromises, LateralMoves
    <3>3. c.edge.confidence = Rules[rule].confidence
      BY <3>2, CandidateFields
    <3>4. QED
      BY <3>3, RuleNames DEF Rules
  <2>3. \A e \in edges : e.confidence \in 0..100
    BY <2>1, <2>2
  <2>4. QED
    BY <1>1, <2>1, <2>3, EdgesAdvance
<1>7. ProjectRelationship \/ Correlate \/ UNCHANGED relationships
  BY DEF Next, AppendObservation, RunEntity, RunRelationship, PoisonRelationship,
     RunCorrelation, RunScene, vars, correlationTables, graphTables
<1>8. QED
  BY <1>1, <1>4, <1>5, <1>6, <1>7

LEMMA ScenesAdvance ==
    ASSUME Sound, [Next]_vars, NEW root \in DOMAIN scenes
    PROVE  root \in DOMAIN scenes' /\ SceneAdvances(scenes[root], scenes'[root])
<1>0. /\ root \in DOMAIN scenes'
      /\ scenes[root].observations \subseteq scenes'[root].observations
      /\ scenes[root].transitions \subseteq scenes'[root].transitions
  BY ScenesGrow
<1>1. PICK stored, c : /\ stored = scenes[root] /\ c = checkpoint["scene"]
                       /\ stored = PlanOf(root, c) /\ root \in Roots(c)
  BY DEF Sound, ScenesTrue
<1>2. stored.state \in {"observed", "confirmed"}
  <2>1. stored.state = StateOf(root, c)
    BY <1>1, PlanFields
  <2>2. QED
    BY <2>1 DEF StateOf
<1>3. CASE PlanScenes
  <2> DEFINE n == NextItem("scene")
             roots == Roots(n)
             known == DOMAIN scenes
             plans == [r \in roots |-> Plan(r, n)]
  <2>1. /\ \A r \in roots \cap known : ~Unexpected(scenes[r], plans[r])
        /\ scenes' = [r \in known \cup roots |->
                        IF r \notin roots THEN scenes[r]
                        ELSE IF r \notin known THEN plans[r]
                        ELSE Merged(scenes[r], plans[r])]
    BY <1>3 DEF PlanScenes
  <2>2. CASE root \notin roots
    <3>1. scenes'[root] = stored
      BY <1>1, <2>1, <2>2
    <3>2. StateRank[stored.state] <= StateRank[stored.state]
      BY <1>2 DEF StateRank
    <3>3. QED
      BY <1>0, <1>1, <3>1, <3>2 DEF SceneAdvances
  <2>3. CASE root \in roots
    <3>1. /\ scenes'[root] = Merged(stored, Plan(root, n))
          /\ ~Unexpected(stored, Plan(root, n))
      BY <1>1, <2>1, <2>3
    <3>2. PICK plan : plan = Plan(root, n)
      OBVIOUS
    <3>3. plan = PlanOf(root, n)
      BY <2>3, <3>2, PlanIs DEF Sound, Pipeline
    <3>4. plan.state \in {"observed", "confirmed"}
      <4>1. plan.state = StateOf(root, n)
        BY <3>3, PlanFields
      <4>2. QED
        BY <4>1 DEF StateOf
    <3>5. plan = [state |-> plan.state, span |-> plan.span,
                  relationships |-> plan.relationships,
                  entities |-> plan.entities,
                  observations |-> plan.observations,
                  transitions |-> plan.transitions]
      BY <3>3, PlanFields
    <3>6. PICK state, transitions :
             /\ state = Advanced(stored.state, plan.state)
             /\ Merged(stored, plan) =
                   [plan EXCEPT !.state = state, !.transitions = transitions]
      BY DEF Merged
    <3>7. /\ Merged(stored, plan).state = state
          /\ Merged(stored, plan).relationships = plan.relationships
          /\ Merged(stored, plan).entities = plan.entities
      BY <3>5, <3>6
    <3>8. StateRank[stored.state] <= StateRank[state]
      BY <1>2, <3>4, <3>6 DEF Advanced, StateRank
    <3>9. /\ DOMAIN stored.relationships \subseteq DOMAIN plan.relationships
          /\ DOMAIN stored.entities \subseteq DOMAIN plan.entities
      BY <3>1, <3>2 DEF Unexpected
    <3>10. QED
      BY <1>0, <1>1, <3>1, <3>2, <3>7, <3>8, <3>9 DEF SceneAdvances
  <2>4. QED
    BY <1>0, <2>2, <2>3
<1>4. CASE UNCHANGED scenes
  <2>1. StateRank[stored.state] <= StateRank[stored.state]
    BY <1>2 DEF StateRank
  <2>2. QED
    BY <1>0, <1>1, <1>4, <2>1 DEF SceneAdvances
<1>5. PlanScenes \/ UNCHANGED scenes
  BY DEF Next, AppendObservation, RunEntity, RunRelationship, RunCorrelation,
     RunScene, vars
<1>6. QED
  BY <1>3, <1>4, <1>5

(***************************************************************************)
(* What clients have been shown is never taken back by a later observation,*)
(* however late it arrives: lineage, derivations and the members and       *)
(* transitions of scenes stay, an entity shows its claim until one that is *)
(* later in event time replaces it, confidence only rises, and a scene     *)
(* never goes back a state (the upserts of the four handlers).             *)
(***************************************************************************)
THEOREM NothingIsTakenBack == Spec => [][NothingTakenBack]_vars
<1>1. Sound /\ [Next]_vars => NothingTakenBack
  <2> SUFFICES ASSUME Sound, [Next]_vars PROVE NothingTakenBack
    OBVIOUS
  <2>1. lineage \subseteq lineage' /\ derivations \subseteq derivations'
    BY PrefixKept DEF Sound, Added
  <2>2. entityObservations \subseteq entityObservations'
    BY EntitiesGrow
  <2>3. QED
    BY <2>1, <2>2, EntitiesAdvance, RelationshipsAdvance, ScenesAdvance
    DEF NothingTakenBack
<1>2. QED
  BY <1>1, AlwaysSound, PTL DEF Spec

=============================================================================
