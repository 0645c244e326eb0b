---------------------------- MODULE RuleCatalogue ----------------------------
(***************************************************************************)
(* The rules of the verification engine, as functions of the sequence of   *)
(* artifacts it receives and of one rule of the profile.                   *)
(*                                                                         *)
(* A rule reads one field of the metadata of an artifact, the one its      *)
(* parameters name.  `value' is what it finds there, one of Values, where  *)
(* "listed" is a string the rule accepts (an allowed state, the expected   *)
(* version, a well-formed link) and "unlisted" any other string.  Three    *)
(* rules read more: `cites' is the task a piece of code refers to,         *)
(* `declares' the tasks a plan lists (`plan' says how), and `accessible'   *)
(* a flag of its own.  `id' is the artifact's UUID in this system, `ref'   *)
(* its name in the tool it comes from.                                     *)
(***************************************************************************)
EXTENDS Naturals, Sequences, FiniteSets

None == "none"   \* an absent field, parameter or connector

ArtifactTypes == {"TAREA", "CODIGO", "DOCUMENTO", "CAMBIO", "PLAN"}
Values        == {None, "null", "empty", "true", "false", "listed", "unlisted",
                  "positive", "negative"}
Evaluations   == {"OK", "ERROR", "NO_EVALUADA"}

\* RULE_DEFAULT_ARTIFACT_TYPES, which are also the defaults of the engine's
\* rules; custom_field_check, there, has none.
DefaultType(template) ==
    CASE template \in {"RV-03", "RV-04", "custom_field_check"} -> "TAREA"
      [] template \in {"RV-05", "RV-06", "RV-10"} -> "DOCUMENTO"
      [] template = "RV-09"                       -> "CODIGO"
      [] OTHER                                    -> None

\* The type of artifact a rule is about: its parameter or the default.
TypeOf(rule) == IF rule.type = None THEN DefaultType(rule.template) ELSE rule.type

OfType(arts, t) == {arts[i] : i \in {j \in DOMAIN arts : arts[j].type = t}}

\* Iterator::find
FirstOfType(arts, t) ==
    arts[CHOOSE i \in DOMAIN arts :
            arts[i].type = t /\ \A j \in 1..(i - 1) : arts[j].type # t]

Pass(ok) == IF ok THEN "OK" ELSE "ERROR"

\* The guard of RV-02, 03, 04 and 06: nothing to look at.
UnlessEmpty(arts, status) == IF arts = <<>> THEN "NO_EVALUADA" ELSE status

-----------------------------------------------------------------------------
RV01(arts, rule) == Pass(arts # <<>>)

\* Every task that a piece of code refers to is the id of a task artifact.
RV02(arts, rule) ==
    UnlessEmpty(arts, Pass(\A a \in OfType(arts, "CODIGO") :
        a.cites # None => \E b \in OfType(arts, "TAREA") : b.id = a.cites))

\* Every artifact of the type is in an allowed state; a missing one is not.
RV03(arts, rule) ==
    UnlessEmpty(arts, Pass(\A a \in OfType(arts, TypeOf(rule)) : a.value = "listed"))

\* Estimates that are present are numbers, and not negative.
RV04(arts, rule) ==
    UnlessEmpty(arts, Pass(\A a \in OfType(arts, TypeOf(rule)) :
        a.value \in {None, "positive"}))

\* There are documents and all of them are accessible.
RV05(arts, rule) ==
    LET docs == OfType(arts, TypeOf(rule))
    IN  Pass(docs # {} /\ \A a \in docs : a.accessible = "true")

\* Every artifact of the type carries the expected version, in the attribute
\* or in its title; the release has a version when the profile sets none.
RV06(arts, rule) ==
    LET targets == OfType(arts, TypeOf(rule))
    IN  IF targets = {} THEN "NO_EVALUADA"
        ELSE Pass(\A a \in targets : a.value = "listed")

\* The first artifact of the type is a marker: a plan always is one.
RV07(arts, rule) ==
    IF rule.type = None THEN "NO_EVALUADA"
    ELSE Pass(/\ rule.type \in {"TAREA", "CAMBIO", "PLAN"}
              /\ OfType(arts, rule.type) # {}
              /\ \/ rule.type = "PLAN"
                 \/ FirstOfType(arts, rule.type).value = "true")

\* The master: the artifact the rule names, or the plans of the release.
Masters(arts, rule) ==
    IF rule.master = None THEN OfType(arts, "PLAN")
    ELSE {a \in {arts[i] : i \in DOMAIN arts} : a.id = rule.master}

\* The master declares a list of tasks; RV-08 compares it with this set.
Declares(m)   == m.plan \in {"array", "text"}
TaskRefs(arts) == {a.ref : a \in OfType(arts, "TAREA")}

\* Variant: only the missing tasks are looked for.
RV08Missing(arts, rule) ==
    LET masters == Masters(arts, rule)
    IN  IF masters = {} /\ rule.master = None THEN "NO_EVALUADA"
        ELSE Pass(/\ Cardinality(masters) = 1
                  /\ \A m \in masters : Declares(m) /\ m.declares \subseteq TaskRefs(arts))

\* There is one master, it lists tasks, none of them is missing from the
\* payload and there are as many of them.
RV08(arts, rule) ==
    LET masters == Masters(arts, rule)
        actual  == TaskRefs(arts)
    IN  IF masters = {} /\ rule.master = None THEN "NO_EVALUADA"
        ELSE Pass(/\ Cardinality(masters) = 1
                  /\ \A m \in masters :
                        /\ Declares(m)
                        /\ m.declares \ actual = {}
                        /\ Cardinality(m.declares) = Cardinality(actual))

\* No link or branch is malformed and nothing is flagged as inaccessible.
RV09(arts, rule) ==
    Pass(\A a \in OfType(arts, TypeOf(rule)) :
            a.value \notin {"unlisted", "empty"} /\ a.accessible # "false")

\* Variant: the first artifact of the type is looked at, not any of them.
RV10First(arts, rule) ==
    Pass(/\ OfType(arts, TypeOf(rule)) # {}
         /\ FirstOfType(arts, TypeOf(rule)).value = "listed")

\* Some artifact of the type is in an approved state.
RV10(arts, rule) == Pass(\E a \in OfType(arts, TypeOf(rule)) : a.value = "listed")

\* field_matches: an absent field or null satisfies no operator.
field_matches(value, operator) ==
    CASE operator = "non_empty" -> value \notin {None, "null", "empty"}
      [] value \in {None, "null"} -> FALSE
      [] operator \in {"equals", "contains"} -> value = "listed"
      [] operator = "not_equals"            -> value # "listed"
      [] operator \in {"gt", "gte"}         -> value = "positive"
      [] operator \in {"lt", "lte"}         -> value = "negative"
      [] OTHER -> FALSE

custom_field_check(arts, rule) ==
    IF rule.type = None \/ OfType(arts, rule.type) = {} THEN "NO_EVALUADA"
    ELSE Pass(\A a \in OfType(arts, rule.type) : field_matches(a.value, rule.operator))

\* The dispatcher.  A template that is not in the catalogue is not evaluated;
\* severity EXCLUIDA, which no rule of a profile is ever mapped to, is left out.
evaluate(arts, rule) ==
    CASE rule.template = "RV-01" -> RV01(arts, rule)
      [] rule.template = "RV-02" -> RV02(arts, rule)
      [] rule.template = "RV-03" -> RV03(arts, rule)
      [] rule.template = "RV-04" -> RV04(arts, rule)
      [] rule.template = "RV-05" -> RV05(arts, rule)
      [] rule.template = "RV-06" -> RV06(arts, rule)
      [] rule.template = "RV-07" -> RV07(arts, rule)
      [] rule.template = "RV-08" -> RV08(arts, rule)
      [] rule.template = "RV-09" -> RV09(arts, rule)
      [] rule.template = "RV-10" -> RV10(arts, rule)
      [] rule.template = "custom_field_check" -> custom_field_check(arts, rule)
      [] OTHER -> "NO_EVALUADA"
=============================================================================
