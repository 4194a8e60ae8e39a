------------------------ MODULE MCProjectionPipeline ------------------------
(***************************************************************************)
(* An attack of up to five observations in every order: a finding, two     *)
(* exploit attempts, a suspicious process and a login to the next asset.   *)
(* The flag of the process may be a string; in place of the second attempt *)
(* there may be an event that confuses the next asset with an identity.    *)
(* Event times are not in the order of the attack.                         *)
(***************************************************************************)
EXTENDS ProjectionPipeline

CONSTANTS web, db, attacker, blank, cve, e1, e2, e3

Named(id, type, claim, keys) ==
    [id |-> id, type |-> type, claim |-> claim, keys |-> keys]

Web(claim) == Named(web, "asset", claim, {"hostname"})
Database == Named(db, "asset", "first", {})
Attacker == Named(attacker, "ip_address", "first", {"address"})
Weakness == Named(cve, "vulnerability", "first", {})

Quiet == [relationship |-> {}, activity |-> "other", class |-> "other",
          suspicious_child |-> "falsy", attack_source |-> {},
          confidence |-> 70]

Observed(obs, time, subject, object, evidence, rest) ==
    [f \in DOMAIN rest \cup {"obs", "time", "subject", "object", "evidence"} |->
        CASE f = "obs" -> obs
          [] f = "time" -> time
          [] f = "subject" -> subject
          [] f = "object" -> object
          [] f = "evidence" -> evidence
          [] OTHER -> rest[f]]

Finding ==
    Observed("finding", 3, Web("first"), {Weakness}, {e1},
        [Quiet EXCEPT !.relationship = {"has_vulnerability"},
                      !.class = "exposure_finding"])

Exploit ==
    Observed("exploit", 1, Attacker, {Web("second")}, {e1, e2},
        [Quiet EXCEPT !.activity = "exploit_attempt"])

\* A second attempt, which its sensor reports as a relationship.
Repeat ==
    Observed("repeat", 3, Attacker, {Web("first")}, {e2},
        [Quiet EXCEPT !.activity = "exploit_attempt",
                      !.relationship = {"exploited"}, !.confidence = 90])

Shell ==
    Observed("shell", 2, Web("third"), {Web("third")}, {e2, e3},
        [Quiet EXCEPT !.class = "process_activity",
                      !.suspicious_child = "true",
                      !.attack_source = {attacker}])

\* The same observation from a sensor that sends "true" as a string.
StringShell == [Shell EXCEPT !.suspicious_child = "truthy"]

\* An attacker whose identifier is blank, and the process it starts.
BlankExploit ==
    [Exploit EXCEPT !.subject = [Attacker EXCEPT !.id = blank]]

BlankShell == [Shell EXCEPT !.attack_source = {blank}]

Login ==
    Observed("login", 2, Web("second"), {Database}, {e3},
        [Quiet EXCEPT !.relationship = {"authenticated_to"},
                      !.class = "authentication"])

\* Arrives in place of the repeated attempt, under its identifier.  Confuses
\* the second asset with an identity: a type conflict for entities, and an
\* edge the ontology does not admit.
Confused ==
    Observed("repeat", 1, Weakness, {Named(db, "identity", "second", {})},
        {e1}, [Quiet EXCEPT !.relationship = {"targeted"}])

AttackPayloads ==
    {Finding, Exploit, Repeat, Shell, StringShell, Login, Confused}

\* Two sensors disagree about what the target of a login is; each of the two
\* edges is one the ontology admits.
DisagreeingPayloads ==
    {Login,
     Observed("relogin", 3, Web("second"),
        {Named(db, "application", "first", {})}, {e2},
        [Quiet EXCEPT !.relationship = {"authenticated_to"},
                      !.class = "authentication"])}

\* Sensors that send another value than True, or a blank attack source.
LoosePayloads == {Finding, Exploit, StringShell, BlankExploit, BlankShell}

=============================================================================
