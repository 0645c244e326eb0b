----------------------- MODULE MCVerificationVerdict -----------------------
(***************************************************************************)
(* Instances of VerificationVerdict for TLC: a task manager, a code        *)
(* repository and a wiki; releases of up to three artifacts and profiles   *)
(* of up to three rules.                                                   *)
(***************************************************************************)
EXTENDS VerificationVerdict

Tools == {"jira", "git", "wiki"}

ToolType == [c \in Tools |-> CASE c = "jira" -> "GESTOR_TAREAS"
                               [] c = "git"  -> "REPO_CODIGO"
                               [] c = "wiki" -> "SISTEMA_DOCUMENTAL"]

Artifact(id, type, connector, value) ==
    [id |-> id, type |-> type, connector |-> connector, value |-> value,
     ref |-> id, cites |-> None, declares |-> {}, plan |-> None, accessible |-> "true"]

Task1   == Artifact("t1", "TAREA", "jira", "listed")
Task2   == Artifact("t2", "TAREA", "jira", "true")
Open    == Artifact("t3", "TAREA", "jira", "unlisted")
Commit  == [Artifact("k1", "CODIGO", "git", "listed") EXCEPT !.cites = "t1"]
Branch  == Artifact("k2", "CODIGO", "git", "unlisted")
Report  == Artifact("d1", "DOCUMENTO", "wiki", "listed")
Draft   == [Artifact("d2", "DOCUMENTO", "wiki", "unlisted") EXCEPT !.accessible = "false"]
Roadmap == [Artifact("p1", "PLAN", "jira", None)
               EXCEPT !.plan = "array", !.declares = {"t1"}]

SomeReleases ==
    {<<Task1>>, <<Open>>, <<Task1, Commit>>, <<Commit, Open>>, <<Task1, Branch>>, <<Open, Task2>>,
     <<Report, Draft>>, <<Draft, Report>>, <<Task1, Report>>, <<Roadmap, Task1>>,
     <<Roadmap, Task1, Task2>>, <<Task1, Commit, Report>>}

Rule(template, severity) ==
    [template |-> template, severity |-> severity, active |-> TRUE, connector |-> None,
     type |-> None, operator |-> "non_empty", master |-> None]

Bound(rule, connector) == [rule EXCEPT !.connector = connector]
Typed(rule, type)      == [rule EXCEPT !.type = type]

CustomRules == {[Typed(Rule("custom_field_check", "MEDIUM"), "TAREA") EXCEPT !.operator = op]
                   : op \in {"non_empty", "equals", "not_equals", "gte", "lt"}}

\* Every template alone, then mixtures; one template comes twice, with two
\* severities, and one profile has an inactive rule.
SomeProfiles ==
    {<<Rule(t, "HIGH")>> : t \in {"RV-01", "RV-02", "RV-03", "RV-04", "RV-05", "RV-06",
                                   "RV-08", "RV-09", "RV-10", "unknown"}}
    \union {<<rule>> : rule \in CustomRules}
    \union {<<Typed(Rule("RV-07", "CRITICAL"), t)>> : t \in {None, "TAREA", "PLAN", "CODIGO"}}
    \union {<<Rule("RV-03", "LOW"), Rule("RV-01", "CRITICAL")>>,
            <<Rule("RV-03", "HIGH"), Typed(Rule("RV-03", "LOW"), "CODIGO")>>,
            <<Rule("RV-05", "INFO"), Rule("RV-05", "HIGH")>>,
            <<Bound(Rule("RV-05", "HIGH"), "wiki"), Rule("RV-10", "LOW")>>,
            <<[Rule("RV-01", "HIGH") EXCEPT !.active = FALSE], Rule("RV-02", "HIGH"),
              Rule("RV-09", "LOW")>>,
            <<[Rule("RV-08", "HIGH") EXCEPT !.master = "p1"], Rule("RV-04", "MEDIUM")>>}
============================================================================
