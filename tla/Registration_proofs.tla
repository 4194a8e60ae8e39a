------------------------- MODULE Registration_proofs -------------------------
(***************************************************************************)
(* RegistrationsAgree holds for any number of operators and any requests.  *)
(*                                                                         *)
(* Rows are never changed, so that whatever a registration has read of     *)
(* others is still there when it commits (DependenciesStand); the unique   *)
(* keys do the rest.                                                       *)
(***************************************************************************)
EXTENDS Registration, TLAPS

Step == {"idle", "dependencies", "existing", "claim", "checkpoint",
         "commit", "again"}

Reply == {"none", "registered", "not_registered", "conflict",
          "integrity_error"}

NewCall == [step : {"idle"}, reply : {"none"}]
OpenCall ==
    [step : Step, request : Request, reply : Reply, found : BOOLEAN,
     raced : BOOLEAN]

TypeOK == call \in [Operator -> NewCall \cup OpenCall]

\* Past its dependencies.
Standing(o) ==
    /\ call[o].step \in {"existing", "claim", "checkpoint", "commit", "again"}
    /\ Asked(o).projector \in Configured

\* What a registration has read of others is still so.
DependenciesStand(o) ==
    /\ Dependencies(Asked(o)) \subseteq checkpoints
    /\ Asked(o).projector = "scene" =>
          /\ << "correlation", Asked(o).correlation >> \in DOMAIN configs
          /\ configs[<< "correlation", Asked(o).correlation >>].relationship
                = Asked(o).relationship

\* What a configuration was compared on before its operator was told.
Compared(o) ==
    IF call[o].raced /\ Asked(o).projector = "correlation"
    THEN BoundAfterRefusal(Asked(o)) ELSE Bound(Asked(o))

Told(o) == Holds(o, Compared(o))

Stored == \A id \in DOMAIN configs : WellFounded(id)

OneEach ==
    \A i, j \in DOMAIN configs :
        /\ i[1] = "correlation" /\ j[1] = "correlation"
        /\ configs[i].relationship = configs[j].relationship
        => i = j

\* Configurations are written as somebody asked.
FromRequests ==
    \A id \in DOMAIN configs :
        \E q \in Request : /\ id = Identity(q)
                          /\ configs[id] = [f \in Bound(q) |-> q[f]]

IInv ==
    /\ TypeOK
    /\ \A o \in Operator : Standing(o) => DependenciesStand(o)
    /\ \A o \in Operator : call[o].step = "again" => call[o].raced
    /\ \A o \in Operator : call[o].reply = "registered" => Told(o)
    /\ Stored
    /\ OneEach
    /\ FromRequests

\* Nothing is ever changed or deleted.
RowsGrow ==
    /\ checkpoints \subseteq checkpoints'
    /\ DOMAIN configs \subseteq DOMAIN configs'
    /\ \A id \in DOMAIN configs : configs'[id] = configs[id]

-----------------------------------------------------------------------------

LEMMA Initially == RegistrationInit => IInv
  BY DEF RegistrationInit, IInv, TypeOK, NewCall, Standing, Stored, OneEach,
         FromRequests

\* A call that has begun is open.
LEMMA Begun ==
    ASSUME TypeOK, NEW o \in Operator,
           call[o].step # "idle" \/ call[o].reply # "none"
    PROVE  call[o] \in OpenCall /\ Asked(o) \in Request
  BY DEF TypeOK, NewCall, OpenCall, Asked

LEMMA TypeStep ==
    ASSUME TypeOK, [RegistrationNext]_registrationVars
    PROVE  TypeOK'
<1> USE DEF TypeOK
<1>1. ASSUME NEW o \in Operator, call[o].step # "idle",
             NEW step \in Step, Goto(o, step)
      PROVE  TypeOK'
  <2>1. call[o] \in OpenCall
    BY <1>1, Begun
  <2> QED
    BY <1>1, <2>1 DEF Goto, OpenCall
<1>2. ASSUME NEW o \in Operator, call[o].step # "idle",
             NEW reply \in Reply, Answer(o, reply)
      PROVE  TypeOK'
  <2>1. call[o] \in OpenCall
    BY <1>2, Begun
  <2> QED
    BY <1>2, <2>1 DEF Answer, OpenCall, Step
<1>3. ASSUME NEW o \in Operator, NEW request \in Request, Call(o, request)
      PROVE  TypeOK'
  BY <1>3 DEF Call, OpenCall, Step, Reply
<1>4. ASSUME NEW o \in Operator, ReadDependencies(o)
      PROVE  TypeOK'
  BY <1>1, <1>2, <1>4 DEF ReadDependencies, Step, Reply
<1>5. ASSUME NEW o \in Operator, ReadExisting(o)
      PROVE  TypeOK'
  BY <1>1, <1>2, <1>5 DEF ReadExisting, Step, Reply
<1>6. ASSUME NEW o \in Operator, ReadClaim(o)
      PROVE  TypeOK'
  BY <1>1, <1>2, <1>6 DEF ReadClaim, Step, Reply
<1>7. ASSUME NEW o \in Operator, ReadCheckpoint(o)
      PROVE  TypeOK'
  <2>1. call[o] \in OpenCall
    BY <1>7, Begun DEF ReadCheckpoint
  <2>2. CASE Answer(o, "registered")
    BY <1>2, <1>7, <2>2 DEF ReadCheckpoint, Reply
  <2>3. CASE ~Answer(o, "registered")
    <3> DEFINE found == Identity(Asked(o)) \in checkpoints
    <3>1. call' = [call EXCEPT ![o].step = "commit", ![o].found = found]
      BY <1>7, <2>3 DEF ReadCheckpoint
    <3>2. found \in BOOLEAN
      OBVIOUS
    <3> HIDE DEF found
    <3> QED
      BY <2>1, <3>1, <3>2 DEF OpenCall, Step
  <2> QED
    BY <2>2, <2>3
<1>8. ASSUME NEW o \in Operator, Commit(o)
      PROVE  TypeOK'
  <2>1. call[o] \in OpenCall
    BY <1>8, Begun DEF Commit
  <2>2. CASE Taken(o)
    BY <1>8, <2>1, <2>2 DEF Commit, OpenCall, Step
  <2>3. CASE ~Taken(o)
    BY <1>2, <1>8, <2>3 DEF Commit, Reply
  <2> QED
    BY <2>2, <2>3
<1>9. ASSUME NEW o \in Operator, ReadAgain(o)
      PROVE  TypeOK'
  BY <1>1, <1>2, <1>9 DEF ReadAgain, Step, Reply
<1>10. CASE UNCHANGED registrationVars
  BY <1>10 DEF registrationVars
<1> QED
  BY <1>3, <1>4, <1>5, <1>6, <1>7, <1>8, <1>9, <1>10 DEF RegistrationNext

\* What a commit writes that is not refused.
LEMMA Committed ==
    ASSUME NEW o \in Operator, Commit(o), ~Taken(o)
    PROVE  /\ checkpoints' = checkpoints \cup {Identity(Asked(o))}
           /\ Asked(o).projector \notin Configured => configs' = configs
           /\ Asked(o).projector \in Configured =>
                 /\ Identity(Asked(o)) \notin DOMAIN configs
                 /\ DOMAIN configs' = DOMAIN configs \cup {Identity(Asked(o))}
                 /\ configs'[Identity(Asked(o))] =
                       [f \in Bound(Asked(o)) |-> Asked(o)[f]]
           /\ \A id \in DOMAIN configs : configs'[id] = configs[id]
           /\ DOMAIN configs \subseteq DOMAIN configs'
           /\ Answer(o, "registered")
<1> DEFINE q == Asked(o)
           id == Identity(q)
<1>1. id \notin DOMAIN configs
  BY DEF Taken
<1>2. /\ checkpoints' = checkpoints \cup {id}
      /\ configs' = IF q.projector \notin Configured THEN configs
                    ELSE [i \in DOMAIN configs \cup {id} |->
                            IF i \in DOMAIN configs THEN configs[i]
                            ELSE [f \in Bound(q) |-> q[f]]]
      /\ Answer(o, "registered")
  BY DEF Commit
<1> HIDE DEF q, id
<1>3. CASE q.projector \in Configured
  BY <1>1, <1>2, <1>3 DEF q, id
<1>4. CASE q.projector \notin Configured
  BY <1>1, <1>2, <1>4 DEF q, id
<1> QED
  BY <1>3, <1>4

LEMMA Growth ==
    ASSUME [RegistrationNext]_registrationVars
    PROVE  RowsGrow
<1>1. ASSUME NEW o \in Operator, Commit(o)
      PROVE  RowsGrow
  <2>1. CASE Taken(o)
    BY <1>1, <2>1 DEF Commit, RowsGrow
  <2>2. CASE ~Taken(o)
    BY <1>1, <2>2, Committed DEF RowsGrow
  <2> QED
    BY <2>1, <2>2
<1>2. ASSUME UNCHANGED << checkpoints, configs >>
      PROVE  RowsGrow
  BY <1>2 DEF RowsGrow
<1> QED
  BY <1>1, <1>2 DEF RegistrationNext, registrationVars, Call, ReadDependencies,
                    ReadExisting, ReadClaim,
                    ReadCheckpoint, ReadAgain

\* A call's position and request, and what a step does to it.
LEMMA Moves ==
    ASSUME TypeOK, NEW o \in Operator,
           \/ \E request \in Request : Call(o, request)
           \/ ReadDependencies(o) \/ ReadExisting(o) \/ ReadClaim(o)
           \/ ReadCheckpoint(o) \/ Commit(o) \/ ReadAgain(o)
    PROVE  \A p \in Operator \ {o} : call'[p] = call[p]
  BY DEF TypeOK, Call, ReadDependencies, ReadExisting, ReadClaim,
         ReadCheckpoint, Commit, ReadAgain, Goto, Answer

-----------------------------------------------------------------------------

\* The growth of the rows disturbs nothing.
LEMMA StillStanding ==
    ASSUME RowsGrow, NEW o \in Operator, call'[o].request = call[o].request,
           DependenciesStand(o)
    PROVE  DependenciesStand(o)'
  BY DEF RowsGrow, DependenciesStand, Dependencies, Bound, Asked

\* What an operator was told stays true: rows stay, and once a commit of its
\* was refused less is compared.
LEMMA StillTold ==
    ASSUME RowsGrow, NEW o \in Operator,
           call'[o].request = call[o].request,
           call[o].raced => call'[o].raced,
           Told(o)
    PROVE  Told(o)'
<1>1. Asked(o)' = Asked(o)
  BY DEF Asked
<1>2. Compared(o)' \subseteq Compared(o)
  BY <1>1 DEF Compared, BoundAfterRefusal, Bound
<1>3. Identity(Asked(o))' = Identity(Asked(o))
  BY <1>1 DEF Identity
<1> QED
  BY <1>1, <1>2, <1>3 DEF RowsGrow, Told, Holds, Agrees

LEMMA StillWellFounded ==
    ASSUME RowsGrow, NEW id \in DOMAIN configs, WellFounded(id)
    PROVE  WellFounded(id)'
  BY DEF RowsGrow, WellFounded

\* Dependencies: read before, or in this step.
LEMMA DependenciesStep ==
    ASSUME IInv, [RegistrationNext]_registrationVars, NEW o \in Operator,
           Standing(o)'
    PROVE  DependenciesStand(o)'
<1> USE DEF IInv
<1>1. RowsGrow
  BY Growth
<1>2. CASE call'[o] = call[o]
  BY <1>1, <1>2, StillStanding DEF Standing, Asked
<1>3. CASE call'[o] # call[o]
  <2>1. \/ \E request \in Request : Call(o, request)
        \/ ReadDependencies(o) \/ ReadExisting(o) \/ ReadClaim(o)
        \/ ReadCheckpoint(o) \/ Commit(o) \/ ReadAgain(o)
    BY <1>3, Moves DEF RegistrationNext, registrationVars
  <2>2. CASE \E request \in Request : Call(o, request)
    BY <2>2 DEF Call, Standing, Configured, TypeOK, Asked
  <2>3. CASE ReadDependencies(o)
    <3>1. call[o] \in OpenCall
      BY <2>3, Begun DEF ReadDependencies
    <3>2. call'[o].request = call[o].request
      BY <2>3, <3>1 DEF ReadDependencies, Answer, Goto, TypeOK, OpenCall
    <3>3. call'[o].step # "idle"
      BY DEF Standing
    <3>4. Goto(o, "existing")
      BY <2>3, <3>1, <3>3 DEF ReadDependencies, Answer, TypeOK, OpenCall
    <3>5. DependenciesStand(o)
      BY <2>3, <3>3, <3>1 DEF ReadDependencies, Answer, TypeOK, OpenCall,
                    DependenciesStand, DifferentGraph
    <3> QED
      BY <1>1, <3>2, <3>5, StillStanding
  <2>4. CASE ReadExisting(o) \/ ReadClaim(o) \/ ReadCheckpoint(o)
              \/ Commit(o) \/ ReadAgain(o)
    <3>1. call[o].step \in {"existing", "claim", "checkpoint", "commit",
                            "again"}
      BY <2>4 DEF ReadExisting, ReadClaim, ReadCheckpoint, Commit, ReadAgain
    <3>2. call[o] \in OpenCall
      BY <3>1, Begun
    <3>3. call'[o].request = call[o].request
      BY <2>4, <3>2 DEF ReadExisting, ReadClaim, ReadCheckpoint, Commit,
                        ReadAgain, Goto, Answer, TypeOK, OpenCall
    <3>4. Standing(o)
      BY <3>1, <3>3 DEF Standing, Asked
    <3> QED
      BY <1>1, <3>3, <3>4, StillStanding
  <2> QED
    BY <2>1, <2>2, <2>3, <2>4
<1> QED
  BY <1>2, <1>3
-----------------------------------------------------------------------------

\* Who is told of success is told the truth.
LEMMA RegisteredStep ==
    ASSUME IInv, [RegistrationNext]_registrationVars, NEW o \in Operator,
           call'[o].reply = "registered"
    PROVE  Told(o)'
<1> USE DEF IInv
<1>1. RowsGrow
  BY Growth
<1>2. CASE call'[o] = call[o]
  BY <1>1, <1>2, StillTold
<1>3. CASE call'[o] # call[o]
  <2>1. \/ \E request \in Request : Call(o, request)
        \/ ReadDependencies(o) \/ ReadExisting(o) \/ ReadClaim(o)
        \/ ReadCheckpoint(o) \/ Commit(o) \/ ReadAgain(o)
    BY <1>3, Moves DEF RegistrationNext, registrationVars
  <2>2. ASSUME call[o] \in OpenCall, \E step \in Step : Goto(o, step)
        PROVE  Told(o)'
    <3>1. /\ call'[o].reply = call[o].reply
          /\ call'[o].request = call[o].request
          /\ call'[o].raced = call[o].raced
      BY <2>2 DEF Goto, TypeOK, OpenCall
    <3> QED
      BY <1>1, <3>1, StillTold
  <2>3. ASSUME call[o] \in OpenCall, Answer(o, "registered"),
               Identity(Asked(o)) \in checkpoints',
               Asked(o).projector \in Configured =>
                  /\ Identity(Asked(o)) \in DOMAIN configs'
                  /\ \A f \in Compared(o) :
                        configs'[Identity(Asked(o))][f] = Asked(o)[f]
        PROVE  Told(o)'
    <3>1. call'[o].request = call[o].request /\ call'[o].raced = call[o].raced
      BY <2>3 DEF Answer, TypeOK, OpenCall
    <3>2. Asked(o)' = Asked(o) /\ Identity(Asked(o))' = Identity(Asked(o))
      BY <3>1 DEF Asked, Identity
    <3>3. Compared(o)' = Compared(o)
      BY <3>1, <3>2 DEF Compared, BoundAfterRefusal, Bound
    <3> QED
      BY <2>3, <3>2, <3>3 DEF Told, Holds, Agrees
  <2>4. ASSUME call[o] \in OpenCall, Answer(o, call'[o].reply),
               call'[o].reply # "registered"
        PROVE  FALSE
    BY <2>4
  <2>5. CASE \E request \in Request : Call(o, request)
    BY <2>5 DEF Call, TypeOK
  <2>6. CASE ~ \E request \in Request : Call(o, request)
    <3>1. call[o] \in OpenCall
      BY <2>1, <2>6, Begun DEF ReadDependencies, ReadExisting, ReadClaim,
                  ReadCheckpoint, Commit, ReadAgain
    <3>2. ASSUME NEW reply \in Reply, reply # "registered", Answer(o, reply)
          PROVE  FALSE
      BY <3>1, <3>2 DEF Answer, TypeOK, OpenCall
    <3>3. CASE ReadDependencies(o)
      BY <2>2, <3>1, <3>2, <3>3 DEF ReadDependencies, Step, Reply
    <3>4. CASE ReadExisting(o)
      <4>1. CASE /\ Identity(Asked(o)) \in DOMAIN configs
                 /\ Agrees(configs[Identity(Asked(o))], Asked(o),
                           Bound(Asked(o)))
                 /\ Identity(Asked(o)) \in checkpoints
        <5>1. Answer(o, "registered") /\ UNCHANGED << checkpoints, configs >>
          BY <3>4, <4>1 DEF ReadExisting
        <5> QED
          BY <2>3, <3>1, <4>1, <5>1 DEF Agrees, Compared, BoundAfterRefusal
      <4>2. CASE ~(/\ Identity(Asked(o)) \in DOMAIN configs
                   /\ Agrees(configs[Identity(Asked(o))], Asked(o),
                             Bound(Asked(o)))
                   /\ Identity(Asked(o)) \in checkpoints)
        <5>1. Goto(o, "claim") \/ Answer(o, "conflict")
          BY <3>4, <4>2 DEF ReadExisting
        <5> QED
          BY <2>2, <3>1, <3>2, <5>1 DEF Step, Reply
      <4> QED
        BY <4>1, <4>2
    <3>5. CASE ReadClaim(o)
      BY <2>2, <3>1, <3>2, <3>5 DEF ReadClaim, Step, Reply
    <3>6. CASE ReadCheckpoint(o)
      <4>1. CASE /\ Identity(Asked(o)) \in checkpoints
                 /\ Asked(o).projector \notin Configured
        BY <1>1, <2>3, <3>1, <3>6, <4>1 DEF ReadCheckpoint, RowsGrow
      <4>2. CASE ~(/\ Identity(Asked(o)) \in checkpoints
                   /\ Asked(o).projector \notin Configured)
        <5>1. /\ call'[o].reply = call[o].reply
              /\ call'[o].request = call[o].request
              /\ call'[o].raced = call[o].raced
          BY <3>1, <3>6, <4>2 DEF ReadCheckpoint, TypeOK, OpenCall
        <5> QED
          BY <1>1, <5>1, StillTold
      <4> QED
        BY <4>1, <4>2
    <3>7. CASE Commit(o)
      <4>1. CASE Taken(o)
        <5>1. /\ call'[o].reply = call[o].reply
              /\ call'[o].request = call[o].request
              /\ call'[o].raced
          BY <3>1, <3>7, <4>1 DEF Commit, TypeOK, OpenCall
        <5> QED
          BY <1>1, <5>1, StillTold
      <4>2. CASE ~Taken(o)
        <5>1. Answer(o, "registered")
          BY <3>7, <4>2, Committed
        <5>2. Identity(Asked(o)) \in checkpoints'
          BY <3>7, <4>2, Committed
        <5>3. Asked(o).projector \in Configured =>
                  /\ Identity(Asked(o)) \in DOMAIN configs'
                  /\ \A f \in Compared(o) :
                        configs'[Identity(Asked(o))][f] = Asked(o)[f]
          <6>1. Compared(o) \subseteq Bound(Asked(o))
            BY DEF Compared, BoundAfterRefusal
          <6> QED
            BY <3>7, <4>2, <6>1, Committed
        <5> QED
          BY <2>3, <3>1, <5>1, <5>2, <5>3
      <4> QED
        BY <4>1, <4>2
    <3>8. CASE ReadAgain(o)
      <4>1. CASE AgreesAgain(Identity(Asked(o)), Asked(o))
        <5>1. Answer(o, "registered") /\ UNCHANGED << checkpoints, configs >>
          BY <3>8, <4>1 DEF ReadAgain
        <5>2. Asked(o).projector \in Configured =>
                  /\ Identity(Asked(o)) \in DOMAIN configs
                  /\ \A f \in Compared(o) :
                        configs[Identity(Asked(o))][f] = Asked(o)[f]
          BY <3>8, <4>1
             DEF ReadAgain, AgreesAgain, Agrees, Configured, Compared,
                 BoundAfterRefusal
        <5>3. Identity(Asked(o)) \in checkpoints
          BY <4>1, <5>2 DEF AgreesAgain, Configured, Stored, WellFounded
        <5> QED
          BY <2>3, <3>1, <5>1, <5>2, <5>3
      <4>2. CASE ~AgreesAgain(Identity(Asked(o)), Asked(o))
        BY <3>1, <3>2, <3>8, <4>2 DEF ReadAgain, Reply
      <4> QED
        BY <4>1, <4>2
    <3> QED
      BY <2>1, <2>6, <3>3, <3>4, <3>5, <3>6, <3>7, <3>8
  <2> QED
    BY <2>5, <2>6
<1> QED
  BY <1>2, <1>3

\* A new configuration is well-founded, its relationship graph its own.
LEMMA CommitStep ==
    ASSUME IInv, NEW o \in Operator, Commit(o), ~Taken(o)
    PROVE  /\ \A id \in DOMAIN configs' : WellFounded(id)'
           /\ \A i, j \in DOMAIN configs' :
                 /\ i[1] = "correlation" /\ j[1] = "correlation"
                 /\ configs'[i].relationship = configs'[j].relationship
                 => i = j
<1>1. RowsGrow
  BY Committed DEF RowsGrow
<1> PICK q \in Request : q = Asked(o)
  BY Begun DEF IInv, Commit
<1> PICK id : id = Identity(q)
  OBVIOUS
<1>3. CASE q.projector \notin Configured
  <2>1. configs' = configs
    BY <1>3, Committed
  <2> QED
    BY <1>1, <2>1, StillWellFounded DEF IInv, Stored, OneEach
<1>4. CASE q.projector \in Configured
  <2>1. /\ DOMAIN configs' = DOMAIN configs \cup {id}
        /\ configs'[id] = [f \in Bound(q) |-> q[f]]
        /\ id \in checkpoints'
        /\ id \notin DOMAIN configs
    BY <1>4, Committed
  <2>2. DependenciesStand(o)
    BY <1>4 DEF IInv, Standing, Commit
  <2>3. /\ q.projector = "correlation" =>
              Bound(q) = {"relationship", "ruleset", "ontology"}
        /\ q.projector = "scene" =>
              Bound(q) = {"entity", "relationship", "correlation", "policy"}
    BY RequestAssumption
  <2>4. id[1] = q.projector
    BY DEF Identity
  <2>5. configs'[id].relationship = q.relationship
    BY <1>4, <2>1, <2>3 DEF Configured
  <2>6. << "relationship", q.relationship >> \in checkpoints'
    BY <1>1, <1>4, <2>2, <2>3
       DEF RowsGrow, DependenciesStand, Dependencies, Configured
  <2>7. q.projector = "scene" =>
          /\ configs'[id].entity = q.entity
          /\ configs'[id].correlation = q.correlation
          /\ << "entity", q.entity >> \in checkpoints'
          /\ << "correlation", q.correlation >> \in DOMAIN configs'
          /\ configs'[<< "correlation", q.correlation >>].relationship
                = q.relationship
    <3>1. q.projector = "scene" =>
            << "entity", q.entity >> \in Dependencies(q)
      BY <2>3 DEF Dependencies
    <3> QED
      BY <1>1, <2>1, <2>2, <2>3, <3>1 DEF RowsGrow, DependenciesStand
  <2>8. WellFounded(id)'
    BY <2>1, <2>4, <2>5, <2>6, <2>7 DEF WellFounded
  <2>9. \A i \in DOMAIN configs' : WellFounded(i)'
    BY <1>1, <2>1, <2>8, StillWellFounded DEF IInv, Stored, OneEach
  <2>10. q.projector = "correlation" =>
           \A i \in DOMAIN configs :
              i[1] = "correlation" =>
                 configs[i].relationship # q.relationship
    BY DEF Taken, Claimants
  <2> QED
    BY <1>1, <2>1, <2>4, <2>5, <2>9, <2>10
       DEF IInv, OneEach, RowsGrow
<1> QED
  BY <1>3, <1>4

LEMMA ConfigStep ==
    ASSUME IInv, [RegistrationNext]_registrationVars
    PROVE  /\ \A id \in DOMAIN configs' : WellFounded(id)'
           /\ \A i, j \in DOMAIN configs' :
                 /\ i[1] = "correlation" /\ j[1] = "correlation"
                 /\ configs'[i].relationship = configs'[j].relationship
                 => i = j
<1>1. CASE \E o \in Operator : Commit(o) /\ ~Taken(o)
  BY <1>1, CommitStep
<1>2. CASE ~ \E o \in Operator : Commit(o) /\ ~Taken(o)
  <2>1. UNCHANGED << checkpoints, configs >>
    BY <1>2 DEF RegistrationNext, registrationVars, Call, ReadDependencies,
                    ReadExisting, ReadClaim,
                ReadCheckpoint, Commit, ReadAgain
  <2> QED
    BY <2>1 DEF IInv, Stored, OneEach, WellFounded
<1> QED
  BY <1>1, <1>2

\* What was read again had been refused.
LEMMA RacedStep ==
    ASSUME IInv, [RegistrationNext]_registrationVars, NEW o \in Operator,
           call'[o].step = "again"
    PROVE  call'[o].raced
<1> USE DEF IInv
<1>1. CASE call'[o] = call[o]
  BY <1>1
<1>2. CASE call'[o] # call[o]
  <2>1. \/ \E request \in Request : Call(o, request)
        \/ ReadDependencies(o) \/ ReadExisting(o) \/ ReadClaim(o)
        \/ ReadCheckpoint(o) \/ Commit(o) \/ ReadAgain(o)
    BY <1>2, Moves DEF RegistrationNext, registrationVars
  <2>2. ASSUME NEW step, Goto(o, step)
        PROVE  call'[o].step = step
    BY <2>2 DEF Goto, TypeOK, OpenCall, NewCall
  <2>3. ASSUME NEW reply, Answer(o, reply)
        PROVE  call'[o].step = "idle"
    BY <2>3 DEF Answer, TypeOK, OpenCall, NewCall
  <2>4. CASE Commit(o)
    <3>1. call[o] \in OpenCall
      BY <2>4, Begun DEF Commit
    <3>2. Taken(o)
      BY <2>3, <2>4 DEF Commit
    <3> QED
      BY <2>4, <3>1, <3>2 DEF Commit, TypeOK, OpenCall
  <2>5. CASE \E request \in Request : Call(o, request)
    BY <2>5 DEF Call, TypeOK
  <2>6. CASE ReadCheckpoint(o)
    <3>1. call[o] \in OpenCall
      BY <2>6, Begun DEF ReadCheckpoint
    <3> QED
      BY <2>3, <2>6, <3>1 DEF ReadCheckpoint, TypeOK, OpenCall
  <2>7. CASE ReadDependencies(o) \/ ReadExisting(o) \/ ReadClaim(o)
    BY <2>2, <2>3, <2>7 DEF ReadDependencies, ReadExisting, ReadClaim
  <2>8. CASE ReadAgain(o)
    BY <2>3, <2>8 DEF ReadAgain
  <2> QED
    BY <2>1, <2>4, <2>5, <2>6, <2>7, <2>8
<1> QED
  BY <1>1, <1>2

LEMMA FromRequestsStep ==
    ASSUME IInv, [RegistrationNext]_registrationVars
    PROVE  FromRequests'
<1>1. CASE \E o \in Operator : Commit(o) /\ ~Taken(o)
  <2>1. PICK o \in Operator : Commit(o) /\ ~Taken(o)
    BY <1>1
  <2>2. Asked(o) \in Request
    BY <2>1, Begun DEF IInv, Commit
  <2>3. CASE Asked(o).projector \in Configured
    <3>1. PICK q \in Request : q = Asked(o)
      BY <2>2
    <3>2. /\ DOMAIN configs' = DOMAIN configs \cup {Identity(q)}
          /\ configs'[Identity(q)] = [f \in Bound(q) |-> q[f]]
          /\ \A id \in DOMAIN configs : configs'[id] = configs[id]
      BY <2>1, <2>3, <3>1, Committed
    <3> QED
      BY <3>2 DEF IInv, FromRequests
  <2>4. CASE Asked(o).projector \notin Configured
    BY <2>1, <2>4, Committed DEF IInv, FromRequests
  <2> QED
    BY <2>3, <2>4
<1>2. CASE ~ \E o \in Operator : Commit(o) /\ ~Taken(o)
  <2>1. UNCHANGED << checkpoints, configs >>
    BY <1>2 DEF RegistrationNext, registrationVars, Call, ReadDependencies,
                ReadExisting, ReadClaim, ReadCheckpoint, Commit, ReadAgain
  <2> QED
    BY <2>1 DEF IInv, FromRequests
<1> QED
  BY <1>1, <1>2

LEMMA Inductive ==
    IInv /\ [RegistrationNext]_registrationVars => IInv'
<1> SUFFICES ASSUME IInv, [RegistrationNext]_registrationVars
             PROVE  IInv'
  OBVIOUS
<1>1. TypeOK'
  BY TypeStep DEF IInv
<1>2. \A o \in Operator : Standing(o)' => DependenciesStand(o)'
  BY DependenciesStep
<1>3. \A o \in Operator : call'[o].step = "again" => call'[o].raced
  BY RacedStep
<1>4. \A o \in Operator : call'[o].reply = "registered" => Told(o)'
  BY RegisteredStep
<1>5. Stored' /\ OneEach'
  BY ConfigStep DEF Stored, OneEach
<1>6. FromRequests'
  BY FromRequestsStep
<1> QED
  BY <1>1, <1>2, <1>3, <1>4, <1>5, <1>6 DEF IInv

-----------------------------------------------------------------------------

(***************************************************************************)
(* However many operators race, whoever is told that a projector version is*)
(* registered finds it bound to what was asked for, but for the ontology of*)
(* a correlation configuration after a lost race; configurations have their*)
(* dependencies; no relationship graph serves two correlations             *)
(* (register_projection).                                                  *)
(***************************************************************************)
THEOREM RegistrationCorrect == RegistrationSpec => []RegistrationsAgree
<1>1. IInv => RegistrationsAgree
  BY DEF IInv, RegistrationsAgree, Told, Compared, AsAsked, OntologyForgotten,
         Stored, OneEach
<1> QED
  BY Initially, Inductive, <1>1, PTL DEF RegistrationSpec

(***************************************************************************)
(* Two versions of the software that come with different ontologies are the*)
(* only cause of the exception: where all correlation registrations name   *)
(* one ontology, whoever is told of success has everything asked for.      *)
(***************************************************************************)
THEOREM OneOntologyIsEnough ==
    ASSUME \A p, q \in Request :
              p.projector = "correlation" /\ q.projector = "correlation"
              => p.ontology = q.ontology
    PROVE  RegistrationSpec => []RegisteredAsAsked
<1>1. ASSUME IInv
      PROVE  RegisteredAsAsked
  <2> SUFFICES ASSUME NEW o \in Operator, call[o].reply = "registered"
               PROVE  AsAsked(o)
    BY DEF RegisteredAsAsked
  <2>1. Told(o)
    BY <1>1 DEF IInv
  <2>2. CASE Compared(o) = Bound(Asked(o))
    BY <2>1, <2>2 DEF Told, AsAsked
  <2>3. CASE Compared(o) # Bound(Asked(o))
    <3>1. PICK p \in Request : p = Asked(o)
      BY <1>1, Begun DEF IInv
    <3>2. p.projector = "correlation" /\ Holds(o, BoundAfterRefusal(p))
      BY <2>1, <2>3, <3>1 DEF Told, Compared
    <3>3. Identity(p) \in DOMAIN configs
      BY <3>1, <3>2 DEF Holds, Configured
    <3>4. PICK q \in Request :
             /\ Identity(p) = Identity(q)
             /\ configs[Identity(p)] = [f \in Bound(q) |-> q[f]]
      BY <1>1, <3>3 DEF IInv, FromRequests
    <3>5. q.projector = "correlation"
      BY <3>2, <3>4 DEF Identity
    <3>6. q.ontology = p.ontology /\ "ontology" \in Bound(q)
      BY <3>2, <3>5, RequestAssumption
    <3>7. configs[Identity(p)]["ontology"] = p["ontology"]
      BY <3>4, <3>6
    <3>8. \A f \in Bound(p) : configs[Identity(p)][f] = p[f]
      BY <3>1, <3>2, <3>7 DEF Holds, Agrees, BoundAfterRefusal, Configured
    <3> QED
      BY <3>1, <3>2, <3>8 DEF AsAsked, Holds, Agrees
  <2> QED
    BY <2>2, <2>3
<1>2. IInv => RegisteredAsAsked
  BY <1>1
<1> QED
  BY Initially, Inductive, <1>2, PTL DEF RegistrationSpec

=============================================================================
