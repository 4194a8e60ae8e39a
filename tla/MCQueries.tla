------------------------------ MODULE MCQueries ------------------------------
(***************************************************************************)
(* The attack of MCProjectionPipeline without its login and without the    *)
(* event that confuses an asset: four observations, two of them at one     *)
(* time.  Readers page through what the projectors write; and, beside      *)
(* them, operators register the projectors.                                *)
(*                                                                         *)
(* The rows of registrations are written before any projector runs, and no *)
(* projector changes them.  Each part moves while the other is as it was   *)
(* at first, which reaches every state of both without the product of the  *)
(* two.                                                                    *)
(***************************************************************************)
EXTENDS Queries, MCProjectionPipeline, MCRegistration

CONSTANTS sensors, hosts

QueriedPayloads == {Finding, Exploit, Repeat, Shell}

Observations == << "repeat", "exploit", "finding", "shell" >>

EntityIdentifiers == << web, attacker, cve, db >>

SensorSources ==
    [obs \in {"finding", "exploit", "repeat", "shell"} |->
        IF obs = "shell" THEN hosts ELSE sensors]

QueryOrRegister ==
    \/ QueriesNext /\ RegistrationInit /\ UNCHANGED registrationVars
    \/ RegistrationNext /\ QueriesInit /\ UNCHANGED queryVars

OperationsInit == QueriesInit /\ RegistrationInit

OperationsSpec ==
    OperationsInit /\ [][QueryOrRegister]_<< queryVars, registrationVars >>

=============================================================================
