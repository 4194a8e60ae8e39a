---------------------------- MODULE Registration ----------------------------
(***************************************************************************)
(* The registration of projector versions by concurrent operators: a       *)
(* checkpoint for an entity or relationship projector, a checkpoint with a *)
(* configuration for a correlation or scene projector.  A registration     *)
(* reads, statement by statement, what others have committed, and writes   *)
(* in one commit, which a unique key may refuse.  It then reads again.     *)
(*                                                                         *)
(* Rows are never changed or deleted, and a dependency that is there once  *)
(* stays there: the dependencies are read in one step.                     *)
(***************************************************************************)
EXTENDS Naturals, FiniteSets

CONSTANTS
    Operator,       \* concurrent registrations
    Request         \* what they may ask for

VARIABLES
    checkpoints,    \* << projector, version >>
    configs,        \* << projector, version >> -> configuration
    call            \* of each operator: its statement, request and reply

registrationVars == << checkpoints, configs, call >>

Configured == {"correlation", "scene"}

\* The fields compared with a stored configuration: all of them, or, after
\* the commit of a correlation configuration was refused, all but the
\* ontology's name and version.
Bound(request) == DOMAIN request \ {"projector", "version"}
BoundAfterRefusal(request) == Bound(request) \ {"ontology"}

Identity(request) == << request.projector, request.version >>

ASSUME RequestAssumption ==
    \A q \in Request :
        /\ q.projector \in {"entity", "relationship", "correlation", "scene"}
        /\ q.projector = "correlation" =>
              Bound(q) = {"relationship", "ruleset", "ontology"}
        /\ q.projector = "scene" =>
              Bound(q) = {"entity", "relationship", "correlation", "policy"}

RegistrationInit ==
    /\ checkpoints = {}
    /\ configs = << >>
    /\ call = [o \in Operator |-> [step |-> "idle", reply |-> "none"]]

Goto(o, step) == call' = [call EXCEPT ![o].step = step]

Answer(o, reply) ==
    call' = [call EXCEPT ![o].step = "idle", ![o].reply = reply]

Asked(o) == call[o].request

Agrees(stored, request, fields) ==
    \A f \in fields : stored[f] = request[f]

\* Who else has the relationship graph: at most one configuration may
\* (uq_correlation_projection_configs_relationship_graph).
Claimants(request) ==
    {id \in DOMAIN configs :
        /\ id[1] = "correlation" /\ request.projector = "correlation"
        /\ configs[id].relationship = request.relationship}

-----------------------------------------------------------------------------

Call(o, request) ==
    /\ call[o].step = "idle"
    /\ call' = [call EXCEPT ![o] =
         [step |-> IF request.projector \in Configured THEN "dependencies"
                   ELSE "checkpoint",
          request |-> request, reply |-> "none", found |-> FALSE,
          raced |-> FALSE]]
    /\ UNCHANGED << checkpoints, configs >>

\* What the configuration is to be made of, and whether it is registered.
Dependencies(q) ==
    {<< p, q[p] >> : p \in {"entity", "relationship"} \cap Bound(q)}

DifferentGraph(q) ==
    /\ q.projector = "scene"
    /\ configs[<< "correlation", q.correlation >>].relationship
          # q.relationship

ReadDependencies(o) ==
    LET q == Asked(o)
    IN  /\ call[o].step = "dependencies"
        /\ IF \/ ~(Dependencies(q) \subseteq checkpoints)
              \/ /\ q.projector = "scene"
                 /\ << "correlation", q.correlation >> \notin DOMAIN configs
           THEN Answer(o, "not_registered")
           ELSE IF DifferentGraph(q) THEN Answer(o, "conflict")
           ELSE Goto(o, "existing")
        /\ UNCHANGED << checkpoints, configs >>

ReadExisting(o) ==
    LET q == Asked(o)
        id == Identity(q)
    IN  /\ call[o].step = "existing"
        /\ IF id \notin DOMAIN configs THEN Goto(o, "claim")
           ELSE IF /\ Agrees(configs[id], q, Bound(q))
                   /\ id \in checkpoints
           THEN Answer(o, "registered")
           ELSE Answer(o, "conflict")
        /\ UNCHANGED << checkpoints, configs >>

\* The claimant may be the same configuration, committed since.
ReadClaim(o) ==
    /\ call[o].step = "claim"
    /\ IF Claimants(Asked(o)) # {} THEN Answer(o, "conflict")
       ELSE Goto(o, "checkpoint")
    /\ UNCHANGED << checkpoints, configs >>

ReadCheckpoint(o) ==
    LET found == Identity(Asked(o)) \in checkpoints
    IN  /\ call[o].step = "checkpoint"
        /\ IF found /\ Asked(o).projector \notin Configured
           THEN Answer(o, "registered")
           ELSE call' = [call EXCEPT ![o].step = "commit", ![o].found = found]
        /\ UNCHANGED << checkpoints, configs >>

\* IntegrityError: a key is taken.
Taken(o) ==
    LET id == Identity(Asked(o))
    IN  \/ id \in checkpoints /\ ~call[o].found
        \/ id \in DOMAIN configs
        \/ Claimants(Asked(o)) # {}

Commit(o) ==
    LET q == Asked(o)
        id == Identity(q)
    IN  /\ call[o].step = "commit"
        /\ IF Taken(o)
           THEN /\ call' = [call EXCEPT ![o].step = "again", ![o].raced = TRUE]
                /\ UNCHANGED << checkpoints, configs >>
           ELSE /\ checkpoints' = checkpoints \cup {id}
                /\ configs' =
                     IF q.projector \notin Configured THEN configs
                     ELSE [i \in DOMAIN configs \cup {id} |->
                             IF i \in DOMAIN configs THEN configs[i]
                             ELSE [f \in Bound(q) |-> q[f]]]
                /\ Answer(o, "registered")

\* Fault: what is found is taken for what was asked.
AgreesIfThere(id, q) ==
    IF q.projector \in Configured THEN id \in DOMAIN configs
    ELSE id \in checkpoints

\* What another registration has committed first is as good.
AgreesAgain(id, q) ==
    CASE q.projector = "correlation" ->
            /\ id \in DOMAIN configs
            /\ Agrees(configs[id], q, BoundAfterRefusal(q))
      [] q.projector = "scene" ->
            /\ id \in DOMAIN configs
            /\ Agrees(configs[id], q, Bound(q))
      [] OTHER -> id \in checkpoints

ReadAgain(o) ==
    LET q == Asked(o)
        id == Identity(q)
    IN  /\ call[o].step = "again"
        /\ IF AgreesAgain(id, q) THEN Answer(o, "registered")
           ELSE IF q.projector = "scene" /\ id \in DOMAIN configs
           THEN Answer(o, "conflict")
           ELSE Answer(o, "integrity_error")
        /\ UNCHANGED << checkpoints, configs >>

RegistrationNext ==
    \E o \in Operator :
        \/ \E request \in Request : Call(o, request)
        \/ ReadDependencies(o)
        \/ ReadExisting(o)
        \/ ReadClaim(o)
        \/ ReadCheckpoint(o)
        \/ Commit(o)
        \/ ReadAgain(o)

RegistrationSpec ==
    RegistrationInit /\ [][RegistrationNext]_registrationVars

-----------------------------------------------------------------------------

\* What is stored for the version agrees with the request on these fields.
Holds(o, fields) ==
    /\ Identity(Asked(o)) \in checkpoints
    /\ Asked(o).projector \in Configured =>
          /\ Identity(Asked(o)) \in DOMAIN configs
          /\ Agrees(configs[Identity(Asked(o))], Asked(o), fields)

AsAsked(o) == Holds(o, Bound(Asked(o)))

\* The commit of a correlation configuration was refused, and what was stored
\* first may name another ontology.
OntologyForgotten(o) ==
    /\ call[o].raced
    /\ Asked(o).projector = "correlation"
    /\ Holds(o, BoundAfterRefusal(Asked(o)))

\* A stored configuration and the registrations it stands on.
WellFounded(id) ==
    LET config == configs[id]
    IN  /\ id \in checkpoints
        /\ << "relationship", config.relationship >> \in checkpoints
        /\ id[1] = "scene" =>
              /\ << "entity", config.entity >> \in checkpoints
              /\ << "correlation", config.correlation >> \in DOMAIN configs
              /\ configs[<< "correlation", config.correlation >>].relationship
                    = config.relationship

(***************************************************************************)
(* However operators race, one that is told its projector version is       *)
(* registered finds it bound to all it asked for, with one exception, the  *)
(* ontology of a correlation configuration after a lost race; every stored *)
(* configuration has its checkpoint and its dependencies, a scene          *)
(* configuration the graph of its correlation; and no relationship graph   *)
(* serves two correlation configurations (register_projection of both      *)
(* repositories).                                                          *)
(***************************************************************************)
RegistrationsAgree ==
    /\ \A o \in Operator :
          call[o].reply = "registered" => AsAsked(o) \/ OntologyForgotten(o)
    /\ \A id \in DOMAIN configs : WellFounded(id)
    /\ \A i, j \in DOMAIN configs :
          /\ i[1] = "correlation" /\ j[1] = "correlation"
          /\ configs[i].relationship = configs[j].relationship
          => i = j

(***************************************************************************)
(* Without the exception: a registration that contradicts the stored one is*)
(* refused, as correlation_repository.py:123 does for every field it is    *)
(* given.  The code does not have this property: after a refused commit,   *)
(* line 188 compares the relationship version and the rules, and forgets   *)
(* the ontology.                                                           *)
(***************************************************************************)
RegisteredAsAsked ==
    \A o \in Operator : call[o].reply = "registered" => AsAsked(o)

=============================================================================
