------------------------- MODULE VerificationVerdict -------------------------
(***************************************************************************)
(* What one verification task does between reading the release and saving  *)
(* the result: it fetches the artifacts through their connectors, has the  *)
(* engine evaluate the active rules of the profile, looks up the connector *)
(* behind each rule, marks as not evaluated the rules that have none, and  *)
(* recomputes the verdict.  The connectors are read from the database four *)
(* times on the way, and their owners may delete them in between.          *)
(*                                                                         *)
(* ReleaseVerification has this as the single action CallEngine, with any  *)
(* verdict for an answer.                                                  *)
(***************************************************************************)
EXTENDS RuleCatalogue

CONSTANTS
    Connectors,     \* connector instances of the organization
    ConnectorType,  \* the type of each of them
    Profiles,       \* profiles to verify with: sequences of rules
    Releases        \* releases to verify: sequences of artifacts

\* Rules and artifacts, as far as a task looks at them.
RuleRow ==
    [template : STRING, severity : STRING, active : BOOLEAN,
     connector : Connectors \union {None}, type : ArtifactTypes \union {None},
     operator : STRING, master : STRING]
ArtifactRow ==
    [id : STRING, ref : STRING, type : ArtifactTypes, connector : Connectors,
     value : Values, cites : STRING, plan : STRING, declares : SUBSET STRING,
     accessible : STRING]

ASSUME CatalogueAssumption ==
    /\ Profiles \subseteq Seq(RuleRow)
    /\ Releases \subseteq Seq(ArtifactRow)

VARIABLES
    profile, artifacts,        \* read when the task starts
    connectors,                \* rows of table connector_instance
    referenced,                \* connectors that a stored artifact or rule names
    stage,                     \* the next step of the task
    payload, failed,           \* artifacts fetched, and not
    evaluations, engine,       \* the engine's answer: statuses and verdict
    names, types, kinds,       \* the three connector maps
    rows, verdict              \* the result to be saved

vars == <<profile, artifacts, connectors, referenced, stage, payload, failed,
          evaluations, engine, names, types, kinds, rows, verdict>>

Stages   == {"fetch", "names", "types", "kinds", "recompute", "save"}
Verdicts == {"VALIDA", "CON_ADVERTENCIAS", "NO_VALIDA"}
Row      == [template : {profile[i].template : i \in DOMAIN profile}
                         \union {"artifact_fetch_error"},
             status : Evaluations \union {"WARNING"}, linked : BOOLEAN]

\* Every variable is in its range.
TypeOK ==
    /\ profile \in Profiles
    /\ artifacts \in Releases
    /\ connectors \subseteq Connectors
    /\ referenced \subseteq connectors
    /\ stage \in Stages
    /\ Len(payload) + Len(failed) <= Len(artifacts)
    /\ evaluations \in Seq(Evaluations)
    /\ engine \in Verdicts
    /\ names \subseteq Connectors
    /\ types \subseteq ArtifactTypes
    /\ kinds \subseteq {ConnectorType[c] : c \in Connectors}
    /\ \A i \in DOMAIN rows : rows[i] \in Row
    /\ verdict \in Verdicts \union {None}

Init ==
    /\ profile \in Profiles
    /\ artifacts \in Releases
    /\ connectors = Connectors
    /\ referenced = Connectors \intersect
                      ({profile[i].connector : i \in DOMAIN profile}
                       \union {artifacts[i].connector : i \in DOMAIN artifacts})
    /\ stage = "fetch"
    /\ payload = <<>> /\ failed = <<>>
    /\ evaluations = <<>> /\ engine = "VALIDA"
    /\ names = {} /\ types = {} /\ kinds = {}
    /\ rows = <<>>
    /\ verdict = None

-----------------------------------------------------------------------------
(* The profile.                                                            *)

\* severity_to_rule_severity
Severity(rule) ==
    IF rule.severity \in {"CRITICAL", "HIGH"} THEN "OBLIGATORIA" ELSE "OPCIONAL"

\* The rules sent to the engine, in the profile's order.
Active(rules) ==
    LET kept[n \in 0..Len(rules)] ==
            IF n = 0 THEN <<>>
            ELSE IF rules[n].active THEN Append(kept[n - 1], rules[n]) ELSE kept[n - 1]
    IN  kept[Len(rules)]

ActiveRules == Active(profile)

\* rule_lookup: of the rules with the same template, active or not, the last.
rule_lookup(template) ==
    profile[CHOOSE i \in DOMAIN profile :
               /\ profile[i].template = template
               /\ \A j \in (i + 1)..Len(profile) : profile[j].template # template]

RequiredTypes(template) ==
    CASE template = "RV-02" -> {"GESTOR_TAREAS", "REPO_CODIGO"}
      [] template = "RV-07" -> {"GESTOR_TAREAS", "GESTION_CAMBIOS", "HERRAMIENTA_PLANIFICACION"}
      [] template = "RV-08" -> {"GESTOR_TAREAS", "HERRAMIENTA_PLANIFICACION"}
      [] template \in {"RV-03", "RV-04"}          -> {"GESTOR_TAREAS"}
      [] template \in {"RV-05", "RV-06", "RV-10"} -> {"SISTEMA_DOCUMENTAL"}
      [] template = "RV-09"                       -> {"REPO_CODIGO"}
      [] OTHER                                    -> {}

-----------------------------------------------------------------------------
(* Verdicts.  The engine and the worker aggregate in the same way: results *)
(* and rules are matched by position, up to the shorter of the two.        *)

aggregate(statuses, rules) ==
    LET scored(i) == i \in DOMAIN statuses \intersect DOMAIN rules
    IN  IF \E i \in DOMAIN rules : scored(i) /\ statuses[i] = "ERROR"
                                   /\ Severity(rules[i]) = "OBLIGATORIA"
        THEN "NO_VALIDA"
        ELSE IF \E i \in DOMAIN rules : scored(i) /\ statuses[i] \in {"ERROR", "WARNING"}
                                        /\ Severity(rules[i]) = "OPCIONAL"
        THEN "CON_ADVERTENCIAS"
        ELSE "VALIDA"

\* Variant: the severity of a result is that of the first rule with its template.
FirstOf(rules, template) ==
    rules[CHOOSE i \in DOMAIN rules :
             rules[i].template = template /\ \A j \in 1..(i - 1) : rules[j].template # template]

RecomputeByTemplate(results, rules) ==
    aggregate([i \in DOMAIN rules |-> results[i].status],
              [i \in DOMAIN rules |-> FirstOf(rules, results[i].template)])

\* _recompute_verdict
recompute_verdict(results, rules) ==
    aggregate([i \in DOMAIN results |-> results[i].status], rules)

-----------------------------------------------------------------------------
(* The connector behind a rule.                                            *)

\* _get_connector_types_fallback: RV-07 is content with any of its types.
TypesPresent(template) ==
    IF template = "RV-07" THEN RequiredTypes(template) \intersect kinds # {}
    ELSE RequiredTypes(template) \subseteq kinds

\* _get_connector_for_rule finds a connector.
Linked(template) ==
    LET rule == rule_lookup(template)
    IN  \/ rule.connector \in names
        \/ Cardinality(RequiredTypes(template)) > 1 /\ TypesPresent(template)
        \/ Cardinality(RequiredTypes(template)) <= 1 /\ TypeOf(rule) \in types

\* Variant: RV-01 is treated like any other rule.
EnrichedAll(row) ==
    IF row.template = "artifact_fetch_error" THEN row
    ELSE IF Linked(row.template) \/ row.status = "NO_EVALUADA"
    THEN [row EXCEPT !.linked = Linked(row.template)]
    ELSE [row EXCEPT !.status = "NO_EVALUADA"]

\* _enrich_rule_results, on one result.  RV-01 needs no connector, and a
\* fetch error is shown with the connector that failed, if it still exists.
Enriched(row) ==
    CASE row.template = "RV-01" -> row
      [] row.template = "artifact_fetch_error" -> row
      [] OTHER -> IF Linked(row.template) THEN [row EXCEPT !.linked = TRUE]
                  ELSE [row EXCEPT !.status = "NO_EVALUADA"]

-----------------------------------------------------------------------------
(* The task.                                                               *)

\* Variant: an artifact that could not be fetched is sent all the same.
FetchAnyway ==
    /\ stage = "fetch"
    /\ Len(payload) + Len(failed) < Len(artifacts)
    /\ LET artifact == artifacts[Len(payload) + Len(failed) + 1]
       IN  /\ payload' = Append(payload, artifact)
           /\ failed' = IF artifact.connector \in connectors THEN failed
                        ELSE Append(failed, artifact)
    /\ UNCHANGED <<profile, artifacts, connectors, referenced, stage, evaluations, engine,
                   names, types, kinds, rows, verdict>>

\* _fetch_artifacts, one artifact.  One whose connector is gone is an error,
\* and so is whatever goes wrong with the tool; the others go on.
Fetch ==
    /\ stage = "fetch"
    /\ Len(payload) + Len(failed) < Len(artifacts)
    /\ LET artifact == artifacts[Len(payload) + Len(failed) + 1]
       IN  \/ /\ artifact.connector \in connectors
              /\ payload' = Append(payload, artifact)
              /\ UNCHANGED failed
           \/ /\ failed' = Append(failed, artifact)
              /\ UNCHANGED payload
    /\ UNCHANGED <<profile, artifacts, connectors, referenced, stage, evaluations, engine,
                   names, types, kinds, rows, verdict>>

\* The engine evaluates and aggregates; fetch errors follow its results.
CallEngine ==
    /\ stage = "fetch"
    /\ Len(payload) + Len(failed) = Len(artifacts)
    /\ evaluations' = [i \in DOMAIN ActiveRules |-> evaluate(payload, ActiveRules[i])]
    /\ engine' = aggregate(evaluations', ActiveRules)
    /\ rows' = [i \in DOMAIN ActiveRules |->
                   [template |-> ActiveRules[i].template,
                    status   |-> evaluations'[i],
                    linked   |-> FALSE]]
               \o [i \in DOMAIN failed |->
                   [template |-> "artifact_fetch_error",
                    status   |-> "WARNING",
                    linked   |-> FALSE]]
    /\ stage' = "names"
    /\ UNCHANGED <<profile, artifacts, connectors, referenced, payload, failed, names, types,
                   kinds, verdict>>

\* _build_connector_names, _build_artifact_type_connector_map and
\* _build_connector_type_map each ask the database again.
ReadNames ==
    /\ stage = "names"
    /\ names' = connectors \intersect
                  ({profile[i].connector : i \in DOMAIN profile}
                   \union {artifacts[i].connector : i \in DOMAIN artifacts})
    /\ stage' = "types"
    /\ UNCHANGED <<profile, artifacts, connectors, referenced, payload, failed, evaluations,
                   engine, types, kinds, rows, verdict>>

ReadTypes ==
    /\ stage = "types"
    /\ types' = {artifacts[i].type : i \in {j \in DOMAIN artifacts :
                                              artifacts[j].connector \in connectors}}
    /\ stage' = "kinds"
    /\ UNCHANGED <<profile, artifacts, connectors, referenced, payload, failed, evaluations,
                   engine, names, kinds, rows, verdict>>

ReadKinds ==
    /\ stage = "kinds"
    /\ kinds' = {ConnectorType[c] : c \in connectors \intersect
                                       {artifacts[i].connector : i \in DOMAIN artifacts}}
    /\ stage' = "recompute"
    /\ UNCHANGED <<profile, artifacts, connectors, referenced, payload, failed, evaluations,
                   engine, names, types, rows, verdict>>

\* Enrichment and verdict, with no await in between.
Recompute ==
    /\ stage = "recompute"
    /\ rows' = [i \in DOMAIN rows |-> Enriched(rows[i])]
    /\ verdict' = recompute_verdict(SubSeq(rows', 1, Len(ActiveRules)), ActiveRules)
    /\ stage' = "save"
    /\ UNCHANGED <<profile, artifacts, connectors, referenced, payload, failed, evaluations,
                   engine, names, types, kinds>>

-----------------------------------------------------------------------------
(* Meanwhile, in the connector API.                                        *)

\* Artifacts are removed and rules deleted until none names the connector; the
\* task goes on with the copies it has read.
unlink(c) ==
    /\ c \in referenced
    /\ stage # "save"
    /\ referenced' = referenced \ {c}
    /\ UNCHANGED <<profile, artifacts, connectors, stage, payload, failed, evaluations, engine,
                   names, types, kinds, rows, verdict>>

\* The foreign keys of artifacts and rules refuse it before that.
delete_connector(c) ==
    /\ c \in connectors \ referenced
    /\ stage # "save"
    /\ connectors' = connectors \ {c}
    /\ UNCHANGED <<profile, artifacts, referenced, stage, payload, failed, evaluations, engine,
                   names, types, kinds, rows, verdict>>

Task == Fetch \/ CallEngine \/ ReadNames \/ ReadTypes \/ ReadKinds \/ Recompute

Next ==
    \/ Task
    \/ \E c \in Connectors : unlink(c) \/ delete_connector(c)

Spec == Init /\ [][Next]_vars

-----------------------------------------------------------------------------
(* Properties                                                              *)

Rank(v) == CASE v = "VALIDA" -> 0 [] v = "CON_ADVERTENCIAS" -> 1 [] v = "NO_VALIDA" -> 2

\* "A rule that flips to NO_EVALUADA must stop counting": whichever connectors
\* disappear, the verdict the worker saves is never harsher than the engine's.
NeverHarsher ==
    stage = "save" => Rank(verdict) <= Rank(engine)

\* A release is rejected exactly when a mandatory rule failed in the engine
\* and has a connector to answer for it, or needs none.
RejectionExplained ==
    stage = "save" =>
        (verdict = "NO_VALIDA" <=>
            \E i \in DOMAIN ActiveRules :
                /\ Severity(ActiveRules[i]) = "OBLIGATORIA"
                /\ evaluations[i] = "ERROR"
                /\ ActiveRules[i].template = "RV-01" \/ Linked(ActiveRules[i].template))

\* When every fetch fails, a profile that demands artifacts rejects.
EmptyHandedFails ==
    /\ stage = "save"
    /\ payload = <<>>
    /\ \E i \in DOMAIN ActiveRules : /\ ActiveRules[i].template = "RV-01"
                                     /\ Severity(ActiveRules[i]) = "OBLIGATORIA"
    => verdict = "NO_VALIDA"

\* RV-08: a release that passes has the planned tasks, all and no others.
PlanMatches ==
    \A i \in DOMAIN evaluations :
        ActiveRules[i].template = "RV-08" /\ evaluations[i] = "OK" =>
            \E m \in Masters(payload, ActiveRules[i]) : m.declares = TaskRefs(payload)

\* Artifacts come from the database in any order; the rules, but for RV-07,
\* evaluate the same.
OrderIndependent ==
    LET backwards == [i \in DOMAIN payload |-> payload[Len(payload) + 1 - i]]
    IN  \A i \in DOMAIN ActiveRules :
            ActiveRules[i].template # "RV-07" =>
                evaluate(payload, ActiveRules[i]) = evaluate(backwards, ActiveRules[i])
=============================================================================
