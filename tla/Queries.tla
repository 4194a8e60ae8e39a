------------------------------- MODULE Queries -------------------------------
(***************************************************************************)
(* Reads beside the running pipeline.  Collectors page through their       *)
(* observations (GET /observations), operators through entities, one page  *)
(* to a request; and operators read the lineage of an entity, of a         *)
(* relationship or of a scene, which is composed of several statements at  *)
(* READ COMMITTED: each sees what the projectors have committed by then.   *)
(*                                                                         *)
(* One reader reads one thing in a behaviour.  The row limits of a lineage *)
(* reply are taken not to be reached.                                      *)
(***************************************************************************)
EXTENDS ProjectionPipeline

CONSTANTS
    ObservationOrder,   \* observation identifiers in their order
    EntityOrder,        \* entity identifiers in their order
    SourceOf,           \* the source of each observation identifier
    PageSize

\* The orders are those of the identifiers there are.
ASSUME QueriesAssumption ==
    /\ PageSize \in Nat \ {0}
    /\ DOMAIN ObservationOrder \subseteq Nat
    /\ DOMAIN EntityOrder \subseteq Nat
    /\ \A o \in Payload :
          /\ \E i \in DOMAIN ObservationOrder : ObservationOrder[i] = o.obs
          /\ \A id \in EntityIds(o) :
                \E i \in DOMAIN EntityOrder : EntityOrder[i] = id

VARIABLE reader

queryVars == << vars, reader >>

Idle == [kind |-> "idle"]

QueriesInit == Init /\ reader = Idle

Rank(order, id) == CHOOSE i \in DOMAIN order : order[i] = id

-----------------------------------------------------------------------------
(* Keyset pagination.  Rows are ordered by a key, a pair; a cursor is the  *)
(* key of the last row returned and a fingerprint of the query.            *)

\* ORDER BY: observations from the latest to the earliest, entities by id.
Precedes(kind, key, other) ==
    IF kind = "observations"
    THEN \/ key[1] > other[1]
         \/ key[1] = other[1] /\ key[2] > other[2]
    ELSE key[2] < other[2]

\* Fault: of the rows with the anchor's event time none is left.
BeyondTime(kind, key, anchor) ==
    IF kind = "observations" THEN key[1] < anchor[1] ELSE key[2] > anchor[2]

\* WHERE: the rows a cursor leaves.
Beyond(kind, key, anchor) ==
    IF kind = "observations"
    THEN \/ key[1] < anchor[1]
         \/ key[1] = anchor[1] /\ key[2] < anchor[2]
    ELSE key[2] > anchor[2]

ObservationKey(o) == << o.time, Rank(ObservationOrder, o.obs) >>

\* The keys of the rows that match a query.
Matching(query) ==
    CASE query.kind = "observations" ->
            {ObservationKey(o) :
                o \in {log[n] : n \in {n \in DOMAIN log :
                          /\ SourceOf[log[n].obs] = query.source
                          /\ log[n].time >= query.from}}}
      [] query.kind = "entities" ->
            {<< 0, Rank(EntityOrder, id) >> :
                id \in {id \in DOMAIN entities :
                          entities[id].type = query.type}}

InOrder(kind, keys) ==
    CHOOSE s \in [1..Cardinality(keys) -> keys] :
        \A i, j \in DOMAIN s : i < j => Precedes(kind, s[i], s[j])

\* One page: the rows beyond the cursor's anchor, one more than are returned.
Page(query, cursor) ==
    LET remaining == {k \in Matching(query) :
                        \A c \in cursor : Beyond(query.kind, k, c.anchor)}
        rows == InOrder(query.kind, remaining)
    IN  [items |-> SubSeq(rows, 1, Least(PageSize, Len(rows))),
         hasMore |-> Len(rows) > PageSize]

NextCursor(query, page) ==
    IF page.hasMore
    THEN {[anchor |-> page.items[Len(page.items)], fingerprint |-> query]}
    ELSE {}

Query(source, from) ==
    [kind |-> "observations", source |-> source, from |-> from]

QueryEntities(type) == [kind |-> "entities", type |-> type]

\* A query of the reader; a cursor of another query is refused.
StartListing(query) ==
    /\ reader.kind = "idle"
    /\ reader' = [kind |-> "list", query |-> query, cursor |-> {},
                  got |-> << >>, atStart |-> Matching(query),
                  refused |-> FALSE, done |-> FALSE]
    /\ UNCHANGED vars

NextPage ==
    /\ reader.kind = "list"
    /\ ~reader.done
    /\ LET page == Page(reader.query, reader.cursor)
       IN  reader' = [reader EXCEPT
                        !.got = @ \o page.items,
                        !.cursor = NextCursor(reader.query, page),
                        !.done = ~page.hasMore]
    /\ UNCHANGED vars

\* The client changes the query and keeps the cursor: 400, and no page.
ChangeQuery(query) ==
    /\ reader.kind = "list"
    /\ reader.query.kind = "observations"
    /\ \E c \in reader.cursor : c.fingerprint # query
    /\ reader' = [reader EXCEPT !.refused = TRUE]
    /\ UNCHANGED vars

-----------------------------------------------------------------------------
(* Lineage.                                                                *)

\* Fault: the derivations are read when their supports have been.
SupportsFirst ==
    << "row", "observations", "evidence", "supports", "derivationEvidence",
       "derivations" >>

RelationshipStatements ==
    << "row", "observations", "evidence", "derivations", "supports",
       "derivationEvidence" >>

EntityStatements == << "row", "observations", "evidence", "claims" >>

SceneStatements ==
    << "row", "entities", "relationships", "observations", "transitions" >>

Statements ==
    [relationship |-> RelationshipStatements,
     entity |-> EntityStatements,
     scene |-> SceneStatements]

\* The rows of a table of spans that belong to a.
Of(spans, a) == [b \in {k[2] : k \in {k \in DOMAIN spans : k[1] = a}} |->
                    spans[<< a, b >>]]

EntityPart(id, statement) ==
    CASE statement = "row" -> entities[id]
      [] statement = "observations" ->
            {row.sequence : row \in {r \in entityObservations :
                                        r.entity = id}}
      [] statement = "evidence" -> Of(entityEvidence, id)
      [] statement = "claims" -> Of(identityClaims, id)

\* Derivations, and the supports and evidence of those there are.
DerivationsNow(id) == {d \in derivations : d.relationship = id}

RelationshipPart(id, statement) ==
    CASE statement = "row" -> relationships[id]
      [] statement = "observations" ->
            {row.sequence : row \in {r \in lineage : r.relationship = id}}
      [] statement = "evidence" -> Of(relationshipEvidence, id)
      [] statement = "derivations" -> {d.sequence : d \in DerivationsNow(id)}
      [] statement = "supports" ->
            UNION {{d.sequence} \X d.supports : d \in DerivationsNow(id)}
      [] statement = "derivationEvidence" ->
            UNION {{d.sequence} \X (d.triggerEvidence \cup d.supportEvidence) :
                     d \in DerivationsNow(id)}

ScenePart(root, statement) ==
    CASE statement = "row" -> [state |-> scenes[root].state,
                               span |-> scenes[root].span]
      [] statement = "entities" -> scenes[root].entities
      [] statement = "relationships" -> scenes[root].relationships
      [] statement = "observations" -> scenes[root].observations
      [] statement = "transitions" -> scenes[root].transitions

Part(kind, id, statement) ==
    CASE kind = "entity" -> EntityPart(id, statement)
      [] kind = "relationship" -> RelationshipPart(id, statement)
      [] kind = "scene" -> ScenePart(id, statement)

Rows(kind) ==
    CASE kind = "entity" -> DOMAIN entities
      [] kind = "relationship" -> DOMAIN relationships
      [] kind = "scene" -> DOMAIN scenes

StartLineage(kind, id) ==
    /\ reader.kind = "idle"
    /\ id \in Rows(kind)
    /\ reader' = [kind |-> kind, id |-> id,
                  reply |-> [s \in {"row"} |-> Part(kind, id, s)]]
    /\ UNCHANGED vars

Complete ==
    /\ reader.kind \in DOMAIN Statements
    /\ Cardinality(DOMAIN reader.reply) = Len(Statements[reader.kind])

NextStatement ==
    /\ reader.kind \in DOMAIN Statements
    /\ ~Complete
    /\ LET read == DOMAIN reader.reply
           statement == Statements[reader.kind][Cardinality(read) + 1]
       IN  reader' = [reader EXCEPT !.reply =
                        [s \in read \cup {statement} |->
                           IF s \in read THEN reader.reply[s]
                           ELSE Part(reader.kind, reader.id, s)]]
    /\ UNCHANGED vars

-----------------------------------------------------------------------------

Sources == {SourceOf[o.obs] : o \in Payload}

QueriesNext ==
    \/ Next /\ UNCHANGED reader
    \/ \E source \in Sources, from \in Time :
          \/ StartListing(Query(source, from))
          \/ ChangeQuery(Query(source, from))
    \/ \E type \in {entities[id].type : id \in DOMAIN entities} :
          StartListing(QueryEntities(type))
    \/ NextPage
    \/ \E kind \in DOMAIN Statements : \E id \in Rows(kind) :
          StartLineage(kind, id)
    \/ NextStatement

QueriesSpec == QueriesInit /\ [][QueriesNext]_queryVars

-----------------------------------------------------------------------------

(***************************************************************************)
(* Paging to the end returns every row that matched when it began, and no  *)
(* row twice, in one strict order, although rows are inserted before and   *)
(* behind the cursor meanwhile, with equal event times among them          *)
(* (list_page and list_entities; the cursor is bound to its query).        *)
(***************************************************************************)
PagesExact ==
    reader.kind = "list" =>
        /\ \A i, j \in DOMAIN reader.got :
              i < j => Precedes(reader.query.kind, reader.got[i], reader.got[j])
        /\ {reader.got[i] : i \in DOMAIN reader.got} \subseteq
              Matching(reader.query)
        /\ reader.done => reader.atStart \subseteq
              {reader.got[i] : i \in DOMAIN reader.got}

EndsOf(span) == {span.firstSequence, span.lastSequence}

(***************************************************************************)
(* A lineage reply, though composed of statements between which projectors *)
(* commit, lacks nothing that an earlier part of it refers to: each listed *)
(* derivation has all its supports, and the evidence of its trigger and of *)
(* its supports; the first and the last observation of the row, of its     *)
(* members and of the row's claim are listed; and the state of a scene is  *)
(* the end of a listed transition (get_lineage of the three repositories). *)
(* The converse does not hold: a derivation may be listed whose trigger,   *)
(* read before, is not, and a scene's relationship whose ends are not.     *)
(***************************************************************************)
LineageReplyComplete ==
    Complete =>
      LET reply == reader.reply
      IN  /\ EndsOf(reply.row.span) \subseteq reply.observations
          /\ reader.kind = "entity" =>
                reply.row.claimed[2] \in reply.observations
          /\ reader.kind = "relationship" =>
                \A d \in DerivationsNow(reader.id) :
                   d.sequence \in reply.derivations =>
                      /\ {d.sequence} \X d.supports \subseteq reply.supports
                      /\ {d.sequence}
                            \X (d.triggerEvidence \cup d.supportEvidence)
                            \subseteq reply.derivationEvidence
          /\ reader.kind = "scene" =>
                /\ reply.row.state \in {t.to : t \in reply.transitions}
                /\ \A id \in DOMAIN reply.relationships :
                      EndsOf(reply.relationships[id])
                         \subseteq reply.observations

=============================================================================
