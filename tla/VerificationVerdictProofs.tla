---------------------- MODULE VerificationVerdictProofs ----------------------
(***************************************************************************)
(* Proofs about VerificationVerdict and the rules of the catalogue: the    *)
(* results that a task saves stay aligned with the rules they are about,   *)
(* whatever is fetched, in whatever order, and whichever connectors go.    *)
(***************************************************************************)
EXTENDS VerificationVerdict, FiniteSetTheorems, SequenceTheorems, WellFoundedInduction, TLAPS

-----------------------------------------------------------------------------
(* Lists of rules.  WFMin has no operator for a parameter, which makes it   *)
(* the way to induction for the provers at hand.                            *)

LessThan == {p \in Nat \X Nat : p[1] < p[2]}

LEMMA LessThanIsWellFounded == IsWellFoundedOn(LessThan, Nat)
  BY NatLessThanWellFounded DEF OpToRel, LessThan

\* Induction: a set with 0 that is closed under successors has all numbers.
LEMMA Induction ==
  ASSUME NEW S, 0 \in S, \A n \in Nat : n \in S => n + 1 \in S
  PROVE  Nat \subseteq S
<1> DEFINE rest == Nat \ S
<1> SUFFICES ASSUME rest # {} PROVE FALSE
  OBVIOUS
<1>1. PICK n \in rest : \A m \in rest : <<m, n>> \notin LessThan
  <2> HIDE DEF rest
  <2>1. rest \subseteq Nat
    BY DEF rest
  <2> QED
    BY <2>1, LessThanIsWellFounded, WFMin
<1>2. n \in Nat /\ n # 0
  OBVIOUS
<1>3. n - 1 \in rest /\ <<n - 1, n>> \in LessThan
  BY <1>2 DEF LessThan
<1> QED
  BY <1>1, <1>3

\* What Active computes, up to the n-th rule.
Body(f, s, m) ==
    IF m = 0 THEN <<>> ELSE IF s[m].active THEN Append(f[m - 1], s[m]) ELSE f[m - 1]
Keeps(f, s, n) == f = [m \in 0..n |-> Body(f, s, m)]

LEMMA KeepsNext ==
  ASSUME NEW s, NEW n \in Nat, NEW f, Keeps(f, s, n)
  PROVE  \E g : Keeps(g, s, n + 1)
<1> DEFINE g == [m \in 0..(n + 1) |-> IF m = n + 1 THEN Body(f, s, m) ELSE f[m]]
<1>1. \A m \in 0..n : f[m] = Body(f, s, m)
  BY DEF Keeps
<1>2. ASSUME NEW m \in 0..(n + 1) PROVE g[m] = Body(g, s, m)
  <2>1. m # 0 => g[m - 1] = f[m - 1]
    OBVIOUS
  <2>2. Body(g, s, m) = Body(f, s, m)
    <3> HIDE DEF g
    <3> QED
      BY <2>1 DEF Body
  <2>3. CASE m = n + 1
    BY <2>2, <2>3
  <2>4. CASE m # n + 1
    <3>1. m \in 0..n /\ g[m] = f[m]
      BY <2>4
    <3> QED
      BY <3>1, <1>1, <2>2
  <2> QED
    BY <2>3, <2>4
<1>3. Keeps(g, s, n + 1)
  BY <1>2 DEF Keeps
<1> QED
  BY <1>3

LEMMA KeepsExists ==
  ASSUME NEW s, NEW n \in Nat
  PROVE  \E f : Keeps(f, s, n)
<1> DEFINE S == {m \in Nat : \E f : Keeps(f, s, m)}
<1>1. 0 \in S
  <2>1. Keeps([m \in 0..0 |-> <<>>], s, 0)
    BY DEF Keeps, Body
  <2> QED
    BY <2>1
<1>2. ASSUME NEW m \in Nat, m \in S PROVE m + 1 \in S
  BY <1>2, KeepsNext
<1>3. Nat \subseteq S
  <2> HIDE DEF S
  <2> QED
    BY <1>1, <1>2, Induction
<1> QED
  BY <1>3

\* The active rules of a list are a list of rules.
LEMMA ActiveIsList ==
  ASSUME NEW R, NEW s \in Seq(R)
  PROVE  Active(s) \in Seq(R)
<1> DEFINE kept == CHOOSE f : Keeps(f, s, Len(s))
<1>1. Len(s) \in Nat /\ \A m \in 1..Len(s) : s[m] \in R
  OBVIOUS
<1>2. Keeps(kept, s, Len(s))
  BY <1>1, KeepsExists
<1>3. Active(s) = kept[Len(s)]
  BY DEF Active, Keeps, Body
<1> HIDE DEF kept
<1> DEFINE S == {m \in Nat : m <= Len(s) => kept[m] \in Seq(R)}
<1>4. \A m \in 0..Len(s) : kept[m] = Body(kept, s, m)
  BY <1>2 DEF Keeps
<1>5. 0 \in S
  <2>1. kept[0] = <<>>
    BY <1>1, <1>4 DEF Body
  <2>2. kept[0] \in Seq(R)
    BY <2>1, EmptySeq
  <2> QED
    BY <2>2
<1>6. ASSUME NEW m \in Nat, m \in S PROVE m + 1 \in S
  <2> SUFFICES ASSUME m + 1 <= Len(s) PROVE kept[m + 1] \in Seq(R)
    OBVIOUS
  <2>1. kept[m] \in Seq(R) /\ s[m + 1] \in R
    BY <1>1, <1>6
  <2>2. kept[m + 1] = IF s[m + 1].active THEN Append(kept[m], s[m + 1]) ELSE kept[m]
    BY <1>1, <1>4 DEF Body
  <2> QED
    BY <2>1, <2>2
<1>7. Nat \subseteq S
  <2> HIDE DEF S
  <2> QED
    BY <1>5, <1>6, Induction
<1> QED
  BY <1>1, <1>3, <1>7

-----------------------------------------------------------------------------
(* Rules.                                                                  *)

LEMMA PassIsStatus ==
  ASSUME NEW ok, NEW arts
  PROVE  Pass(ok) \in Evaluations /\ UnlessEmpty(arts, Pass(ok)) \in Evaluations
BY DEF Pass, UnlessEmpty, Evaluations

\* Whatever the artifacts are, a rule has one of the three statuses.
LEMMA EvaluateIsStatus ==
  ASSUME NEW arts, NEW rule
  PROVE  evaluate(arts, rule) \in Evaluations
<1>1. "NO_EVALUADA" \in Evaluations
  BY DEF Evaluations
<1>2. RV01(arts, rule) \in Evaluations
  BY PassIsStatus DEF RV01
<1>3. RV02(arts, rule) \in Evaluations
  BY PassIsStatus DEF RV02
<1>4. RV03(arts, rule) \in Evaluations
  BY PassIsStatus DEF RV03
<1>5. RV04(arts, rule) \in Evaluations
  BY PassIsStatus DEF RV04
<1>6. RV05(arts, rule) \in Evaluations
  BY PassIsStatus DEF RV05
<1>7. RV06(arts, rule) \in Evaluations
  BY <1>1, PassIsStatus DEF RV06
<1>8. RV07(arts, rule) \in Evaluations
  BY <1>1, PassIsStatus DEF RV07
<1>9. RV08(arts, rule) \in Evaluations
  BY <1>1, PassIsStatus DEF RV08
<1>10. RV09(arts, rule) \in Evaluations
  BY PassIsStatus DEF RV09
<1>11. RV10(arts, rule) \in Evaluations
  BY PassIsStatus DEF RV10
<1>12. custom_field_check(arts, rule) \in Evaluations
  BY <1>1, PassIsStatus DEF custom_field_check
<1> QED
  BY <1>1, <1>2, <1>3, <1>4, <1>5, <1>6, <1>7, <1>8, <1>9, <1>10, <1>11, <1>12 DEF evaluate

LEMMA AggregateIsVerdict ==
  ASSUME NEW statuses, NEW rules
  PROVE  aggregate(statuses, rules) \in Verdicts
BY DEF aggregate, Verdicts

\* A result that passes RV-08 lists what the release has: nothing in the plan
\* is missing and there are as many of both.
LEMMA EqualCounts ==
  ASSUME NEW A, NEW B, IsFiniteSet(B), A \ B = {}, Cardinality(A) = Cardinality(B)
  PROVE  A = B
<1>1. A \subseteq B
  OBVIOUS
<1> QED
  BY <1>1, FS_Subset

LEMMA TaskRefsFinite ==
  ASSUME NEW arts \in Seq(ArtifactRow)
  PROVE  IsFiniteSet(TaskRefs(arts))
<1>1. Len(arts) \in Nat /\ DOMAIN arts = 1..Len(arts)
  OBVIOUS
<1>2. IsFiniteSet(DOMAIN arts)
  BY <1>1, FS_Interval
<1> DEFINE J == {j \in DOMAIN arts : arts[j].type = "TAREA"}
<1>3. IsFiniteSet(J)
  <2>1. J \subseteq DOMAIN arts
    OBVIOUS
  <2> QED
    BY <2>1, <1>2, FS_Subset
<1>4. TaskRefs(arts) = {arts[i].ref : i \in J}
  BY DEF TaskRefs, OfType
<1>5. IsFiniteSet({arts[i].ref : i \in J})
  <2> HIDE DEF J
  <2> DEFINE T == {arts[i].ref : i \in J}
             f == [i \in J |-> arts[i].ref]
  <2>1. f \in Surjection(J, T)
    BY DEF Surjection
  <2> HIDE DEF f, T
  <2>2. IsFiniteSet(T)
    BY <2>1, <1>3, FS_Surjection
  <2> QED
    BY <2>2 DEF T
<1> QED
  BY <1>4, <1>5

LEMMA PlanOfOK ==
  ASSUME NEW arts \in Seq(ArtifactRow), NEW rule,
         rule.template = "RV-08", evaluate(arts, rule) = "OK"
  PROVE  \E m \in Masters(arts, rule) : m.declares = TaskRefs(arts)
<1> DEFINE masters == Masters(arts, rule)
           actual  == TaskRefs(arts)
           ok == /\ Cardinality(masters) = 1
                 /\ \A m \in masters :
                       /\ Declares(m)
                       /\ m.declares \ actual = {}
                       /\ Cardinality(m.declares) = Cardinality(actual)
<1>1. RV08(arts, rule) = "OK"
  BY DEF evaluate
<1>2. ok
  BY <1>1 DEF RV08, Pass
<1>3. ASSUME masters = {} PROVE FALSE
  <2> HIDE DEF masters
  <2>1. Cardinality(masters) = 1
    BY <1>2 DEF masters
  <2>2. Cardinality({}) = 0
    BY FS_EmptySet
  <2> QED
    BY <1>3, <2>1, <2>2
<1>4. PICK m \in masters : TRUE
  BY <1>3
<1>5. m.declares = actual
  <2>1. m.declares \ actual = {} /\ Cardinality(m.declares) = Cardinality(actual)
    BY <1>2
  <2>2. IsFiniteSet(actual)
    BY TaskRefsFinite
  <2> HIDE DEF actual
  <2> QED
    BY <2>1, <2>2, EqualCounts
<1> QED
  BY <1>5

\* Only RV-07 looks at the first artifact of a type; the other rules see the
\* artifacts as a set, and evaluate them the same in the opposite order.
LEMMA EvaluateBackwards ==
  ASSUME NEW arts \in Seq(ArtifactRow), NEW rule, rule.template # "RV-07"
  PROVE  evaluate(arts, rule)
           = evaluate([i \in DOMAIN arts |-> arts[Len(arts) + 1 - i]], rule)
<1> DEFINE back == [i \in DOMAIN arts |-> arts[Len(arts) + 1 - i]]
<1>1. Len(arts) \in Nat /\ DOMAIN arts = 1..Len(arts) /\ DOMAIN back = DOMAIN arts
  OBVIOUS
<1>2. ASSUME NEW i \in DOMAIN arts
      PROVE  /\ \E j \in DOMAIN arts : arts[i] = back[j]
             /\ \E j \in DOMAIN arts : back[i] = arts[j]
  <2>1. Len(arts) + 1 - i \in DOMAIN arts
    BY <1>1
  <2>2. arts[i] = back[Len(arts) + 1 - i] /\ back[i] = arts[Len(arts) + 1 - i]
    BY <1>1, <2>1
  <2> QED
    BY <2>1, <2>2
<1>3. arts = <<>> <=> back = <<>>
  <2>1. arts = <<>> <=> Len(arts) = 0
    BY EmptySeq
  <2>2. back \in Seq({back[i] : i \in DOMAIN back}) /\ Len(back) = Len(arts)
    BY <1>1, IsASeq
  <2>3. back = <<>> <=> Len(back) = 0
    BY <2>2, EmptySeq
  <2> QED
    BY <2>1, <2>2, <2>3
<1> HIDE DEF back
<1>4. {arts[i] : i \in DOMAIN arts} = {back[i] : i \in DOMAIN back}
  BY <1>1, <1>2
<1>5. ASSUME NEW t PROVE OfType(arts, t) = OfType(back, t)
  <2>1. OfType(arts, t) = {a \in {arts[i] : i \in DOMAIN arts} : a.type = t}
    BY DEF OfType
  <2>2. OfType(back, t) = {a \in {back[i] : i \in DOMAIN back} : a.type = t}
    BY DEF OfType
  <2> QED
    BY <2>1, <2>2, <1>4
<1>6. Masters(arts, rule) = Masters(back, rule) /\ TaskRefs(arts) = TaskRefs(back)
  BY <1>4, <1>5 DEF Masters, TaskRefs
<1>7. OfType(arts, TypeOf(rule)) = OfType(back, TypeOf(rule))
  BY <1>5
<1>8. RV01(arts, rule) = RV01(back, rule)
  BY <1>3 DEF RV01
<1>9. RV02(arts, rule) = RV02(back, rule)
  <2>1. /\ OfType(arts, "CODIGO") = OfType(back, "CODIGO")
        /\ OfType(arts, "TAREA") = OfType(back, "TAREA")
    BY <1>5
  <2> QED
    BY <2>1, <1>3 DEF RV02, UnlessEmpty, Pass
<1>10. RV03(arts, rule) = RV03(back, rule)
  BY <1>7, <1>3 DEF RV03, UnlessEmpty, Pass
<1>11. RV04(arts, rule) = RV04(back, rule)
  BY <1>7, <1>3 DEF RV04, UnlessEmpty, Pass
<1>12. RV05(arts, rule) = RV05(back, rule)
  BY <1>7 DEF RV05
<1>13. RV06(arts, rule) = RV06(back, rule)
  BY <1>7 DEF RV06
<1>14. RV08(arts, rule) = RV08(back, rule)
  BY <1>6 DEF RV08
<1>15. RV09(arts, rule) = RV09(back, rule)
  BY <1>7 DEF RV09, Pass
<1>16. RV10(arts, rule) = RV10(back, rule)
  BY <1>7 DEF RV10, Pass
<1>17. custom_field_check(arts, rule) = custom_field_check(back, rule)
  BY <1>5 DEF custom_field_check
<1>18. evaluate(arts, rule) = evaluate(back, rule)
  BY <1>8, <1>9, <1>10, <1>11, <1>12, <1>13, <1>14, <1>15, <1>16, <1>17 DEF evaluate
<1> QED
  BY <1>18 DEF back

-----------------------------------------------------------------------------
(* The invariant.                                                          *)

\* The engine's answer, and the results made of it: those of the active rules
\* in their order, then the failed fetches.
Answers == [i \in DOMAIN ActiveRules |-> evaluate(payload, ActiveRules[i])]
Reported ==
    [i \in DOMAIN ActiveRules |->
        [template |-> ActiveRules[i].template, status |-> evaluations[i], linked |-> FALSE]]
    \o [i \in DOMAIN failed |->
        [template |-> "artifact_fetch_error", status |-> "WARNING", linked |-> FALSE]]

RangesOK ==
    /\ profile \in Profiles
    /\ artifacts \in Releases
    /\ connectors \subseteq Connectors
    /\ referenced \subseteq connectors
    /\ stage \in Stages
    /\ payload \in Seq(ArtifactRow)
    /\ failed \in Seq(ArtifactRow)
    /\ Len(payload) + Len(failed) <= Len(artifacts)
    /\ names \subseteq Connectors
    /\ types \subseteq ArtifactTypes
    /\ kinds \subseteq {ConnectorType[c] : c \in Connectors}

\* What each stage has made of the stages before it.
Aligned ==
    /\ stage = "fetch" => evaluations = <<>> /\ engine = "VALIDA" /\ rows = <<>>
    /\ stage # "fetch" => /\ evaluations = Answers
                          /\ engine = aggregate(evaluations, ActiveRules)
    /\ stage \notin {"fetch", "save"} => rows = Reported
    /\ stage # "save" => verdict = None
    /\ stage = "save" =>
          /\ rows = [i \in DOMAIN Reported |-> Enriched(Reported[i])]
          /\ verdict = recompute_verdict(SubSeq(rows, 1, Len(ActiveRules)), ActiveRules)

VerdictInv == RangesOK /\ Aligned

LEMMA RulesKnown ==
  ASSUME RangesOK
  PROVE  /\ ActiveRules \in Seq(RuleRow)
         /\ Len(ActiveRules) \in Nat
         /\ DOMAIN ActiveRules = 1..Len(ActiveRules)
         /\ artifacts \in Seq(ArtifactRow)
<1>1. profile \in Seq(RuleRow) /\ artifacts \in Seq(ArtifactRow)
  BY CatalogueAssumption DEF RangesOK
<1>2. ActiveRules \in Seq(RuleRow)
  BY <1>1, ActiveIsList DEF ActiveRules
<1> QED
  BY <1>1, <1>2

\* What the results are made of stays; so do they.
LEMMA AnswersFramed ==
  ASSUME UNCHANGED <<profile, payload, failed, evaluations>>
  PROVE  ActiveRules' = ActiveRules /\ Answers' = Answers /\ Reported' = Reported
<1>1. ActiveRules' = ActiveRules
  BY DEF ActiveRules
<1> QED
  BY <1>1 DEF Answers, Reported

LEMMA EnrichedFramed ==
  ASSUME UNCHANGED <<profile, names, types, kinds>>, NEW CONSTANT row
  PROVE  Enriched(row)' = Enriched(row)
<1>1. Linked(row.template)' = Linked(row.template)
  BY DEF Linked, TypesPresent, rule_lookup
<1> QED
  BY <1>1 DEF Enriched

LEMMA VerdictInit == Init => VerdictInv
<1> SUFFICES ASSUME Init PROVE VerdictInv
  OBVIOUS
<1>1. Len(artifacts) \in Nat
  BY CatalogueAssumption DEF Init
<1> QED
  BY <1>1 DEF Init, VerdictInv, RangesOK, Aligned, Stages

LEMMA FetchKeeps ==
  ASSUME VerdictInv, Fetch
  PROVE  VerdictInv'
<1>1. artifacts \in Seq(ArtifactRow)
  BY RulesKnown DEF VerdictInv
<1> DEFINE k == Len(payload) + Len(failed) + 1
<1>2. /\ payload \in Seq(ArtifactRow) /\ failed \in Seq(ArtifactRow)
      /\ k \in 1..Len(artifacts)
  BY <1>1 DEF Fetch, VerdictInv, RangesOK
<1>3. artifacts[k] \in ArtifactRow
  BY <1>1, <1>2
<1>4. /\ payload' \in Seq(ArtifactRow) /\ failed' \in Seq(ArtifactRow)
      /\ Len(payload') + Len(failed') = k
  <2>1. CASE payload' = Append(payload, artifacts[k]) /\ failed' = failed
    BY <2>1, <1>2, <1>3
  <2>2. CASE failed' = Append(failed, artifacts[k]) /\ payload' = payload
    BY <2>2, <1>2, <1>3
  <2> QED
    BY <2>1, <2>2 DEF Fetch
<1>5. RangesOK'
  BY <1>2, <1>4 DEF Fetch, VerdictInv, RangesOK
<1>6. Aligned'
  BY DEF Fetch, VerdictInv, Aligned
<1> QED
  BY <1>5, <1>6 DEF VerdictInv

LEMMA CallEngineKeeps ==
  ASSUME VerdictInv, CallEngine
  PROVE  VerdictInv'
<1>1. ActiveRules' = ActiveRules
  BY DEF CallEngine, ActiveRules
<1>2. evaluations' = Answers'
  BY <1>1 DEF CallEngine, Answers
<1>3. engine' = aggregate(evaluations', ActiveRules')
  BY <1>1 DEF CallEngine
<1>4. rows' = Reported'
  BY <1>1 DEF CallEngine, Reported
<1>5. Aligned'
  BY <1>2, <1>3, <1>4 DEF CallEngine, Aligned, VerdictInv
<1>6. RangesOK'
  BY DEF CallEngine, VerdictInv, RangesOK, Stages
<1> QED
  BY <1>5, <1>6 DEF VerdictInv

LEMMA ReadKeeps ==
  ASSUME VerdictInv, ReadNames \/ ReadTypes \/ ReadKinds
  PROVE  VerdictInv'
<1>1. /\ UNCHANGED <<profile, payload, failed, evaluations, engine, rows, verdict>>
      /\ stage \in {"names", "types", "kinds"}
      /\ stage' \in {"types", "kinds", "recompute"}
  BY DEF ReadNames, ReadTypes, ReadKinds
<1>2. ActiveRules' = ActiveRules /\ Answers' = Answers /\ Reported' = Reported
  BY <1>1, AnswersFramed
<1>3. Aligned'
  BY <1>1, <1>2 DEF VerdictInv, Aligned
<1>4. RangesOK'
  <2>1. \A i \in DOMAIN artifacts : artifacts[i] \in ArtifactRow
    BY RulesKnown DEF VerdictInv
  <2>2. CASE ReadNames
    BY <2>2 DEF ReadNames, VerdictInv, RangesOK, Stages
  <2>3. CASE ReadTypes
    <3>1. types' \subseteq ArtifactTypes
      BY <2>1, <2>3 DEF ReadTypes, ArtifactRow
    <3> QED
      BY <2>3, <3>1 DEF ReadTypes, VerdictInv, RangesOK, Stages
  <2>4. CASE ReadKinds
    <3>1. kinds' \subseteq {ConnectorType[c] : c \in Connectors}
      BY <2>4 DEF ReadKinds, VerdictInv, RangesOK
    <3> QED
      BY <2>4, <3>1 DEF ReadKinds, VerdictInv, RangesOK, Stages
  <2> QED
    BY <2>2, <2>3, <2>4
<1> QED
  BY <1>3, <1>4 DEF VerdictInv

LEMMA RecomputeKeeps ==
  ASSUME VerdictInv, Recompute
  PROVE  VerdictInv'
<1>1. UNCHANGED <<profile, payload, failed, evaluations, engine, names, types, kinds>>
  BY DEF Recompute
<1>2. ActiveRules' = ActiveRules /\ Answers' = Answers /\ Reported' = Reported
  BY <1>1, AnswersFramed
<1>3. rows = Reported
  BY DEF Recompute, VerdictInv, Aligned
<1>4. rows' = [i \in DOMAIN Reported |-> Enriched(Reported[i])]'
  BY <1>1, <1>2, <1>3, EnrichedFramed DEF Recompute
<1>5. verdict' = recompute_verdict(SubSeq(rows', 1, Len(ActiveRules')), ActiveRules')
  BY <1>2 DEF Recompute
<1>6. Aligned'
  BY <1>1, <1>2, <1>4, <1>5 DEF Recompute, VerdictInv, Aligned
<1>7. RangesOK'
  BY DEF Recompute, VerdictInv, RangesOK, Stages
<1> QED
  BY <1>6, <1>7 DEF VerdictInv

LEMMA MeanwhileKeeps ==
  ASSUME VerdictInv, NEW c \in Connectors, unlink(c) \/ delete_connector(c)
  PROVE  VerdictInv'
<1>1. /\ UNCHANGED <<profile, payload, failed, evaluations, engine, rows, verdict, stage>>
      /\ stage # "save"
  BY DEF unlink, delete_connector
<1>2. ActiveRules' = ActiveRules /\ Answers' = Answers /\ Reported' = Reported
  BY <1>1, AnswersFramed
<1>3. Aligned'
  BY <1>1, <1>2 DEF VerdictInv, Aligned
<1>4. RangesOK'
  BY DEF unlink, delete_connector, VerdictInv, RangesOK
<1> QED
  BY <1>3, <1>4 DEF VerdictInv

LEMMA VerdictIdle ==
  ASSUME VerdictInv, UNCHANGED vars
  PROVE  VerdictInv'
<1>1. UNCHANGED <<profile, payload, failed, evaluations, names, types, kinds>>
  BY DEF vars
<1>2. ActiveRules' = ActiveRules /\ Answers' = Answers /\ Reported' = Reported
  BY <1>1, AnswersFramed
<1>3. [i \in DOMAIN Reported |-> Enriched(Reported[i])]'
        = [i \in DOMAIN Reported |-> Enriched(Reported[i])]
  BY <1>1, <1>2, EnrichedFramed
<1>4. Aligned'
  BY <1>2, <1>3 DEF vars, VerdictInv, Aligned
<1>5. RangesOK'
  BY DEF vars, VerdictInv, RangesOK
<1> QED
  BY <1>4, <1>5 DEF VerdictInv

LEMMA VerdictStep == VerdictInv /\ [Next]_vars => VerdictInv'
BY FetchKeeps, CallEngineKeeps, ReadKeeps, RecomputeKeeps, MeanwhileKeeps, VerdictIdle
   DEF Next, Task

LEMMA VerdictInvariant == Spec => []VerdictInv
BY VerdictInit, VerdictStep, PTL DEF Spec

-----------------------------------------------------------------------------
(* What is saved.                                                          *)

\* A result per active rule, in the order of the rules, and one per failed fetch.
LEMMA ReportedRows ==
  ASSUME RangesOK, evaluations = Answers
  PROVE  /\ Reported \in Seq(Row)
         /\ Len(Reported) >= Len(ActiveRules)
         /\ \A i \in DOMAIN ActiveRules :
               Reported[i] = [template |-> ActiveRules[i].template,
                              status |-> evaluations[i], linked |-> FALSE]
<1> DEFINE n == Len(ActiveRules)
           ruled == [i \in DOMAIN ActiveRules |->
                       [template |-> ActiveRules[i].template, status |-> evaluations[i],
                        linked |-> FALSE]]
           lost == [i \in DOMAIN failed |->
                       [template |-> "artifact_fetch_error", status |-> "WARNING",
                        linked |-> FALSE]]
<1>1. n \in Nat /\ DOMAIN ActiveRules = 1..n /\ ActiveRules \in Seq(RuleRow)
  BY RulesKnown
<1>2. \A i \in 1..n : /\ ActiveRules[i].template \in {profile[j].template : j \in DOMAIN profile}
                     /\ evaluations[i] \in Evaluations
  <2>1. \A i \in 1..n : ActiveRules[i] \in {profile[j] : j \in DOMAIN profile}
    <3>1. profile \in Seq(RuleRow)
      BY CatalogueAssumption DEF RangesOK
    <3>2. profile \in Seq({profile[j] : j \in DOMAIN profile})
      BY <3>1
    <3>3. ActiveRules \in Seq({profile[j] : j \in DOMAIN profile})
      BY <3>2, ActiveIsList DEF ActiveRules
    <3> QED
      BY <3>3, <1>1
  <2>2. \A i \in 1..n : evaluations[i] = evaluate(payload, ActiveRules[i])
    BY <1>1 DEF Answers
  <2> QED
    BY <2>1, <2>2, EvaluateIsStatus
<1>3. ruled \in Seq(Row) /\ Len(ruled) = n
  BY <1>1, <1>2 DEF Row
<1>4. lost \in Seq(Row)
  <2>1. Len(failed) \in Nat /\ DOMAIN failed = 1..Len(failed)
    BY DEF RangesOK
  <2>2. [template |-> "artifact_fetch_error", status |-> "WARNING", linked |-> FALSE] \in Row
    BY DEF Row
  <2> QED
    BY <2>1, <2>2
<1>5. Reported = ruled \o lost
  BY DEF Reported
<1>6. \A i \in 1..n : ruled[i] = [template |-> ActiveRules[i].template,
                                  status |-> evaluations[i], linked |-> FALSE]
  BY <1>1
<1> HIDE DEF ruled, lost
<1>7. /\ Reported \in Seq(Row) /\ Len(Reported) >= n
      /\ \A i \in 1..n : Reported[i] = ruled[i]
  BY <1>1, <1>3, <1>4, <1>5
<1> QED
  BY <1>1, <1>6, <1>7

\* A rule counts if some connector answers for it, or needs none.  The rest of
\* the rules have the status NO_EVALUADA where the verdict is computed.
Counts(template) ==
    template \in {"RV-01", "artifact_fetch_error"} \/ Linked(template)
Judged ==
    [i \in DOMAIN ActiveRules |-> IF Counts(ActiveRules[i].template) THEN evaluations[i]
                                  ELSE "NO_EVALUADA"]

LEMMA EnrichedRow ==
  ASSUME NEW row \in Row
  PROVE  /\ Enriched(row) \in Row
         /\ Enriched(row).status = IF Counts(row.template) THEN row.status
                                   ELSE "NO_EVALUADA"
<1>1. CASE row.template \in {"RV-01", "artifact_fetch_error"}
  <2>1. Enriched(row) = row
    BY <1>1 DEF Enriched
  <2> QED
    BY <1>1, <2>1 DEF Counts
<1>2. CASE row.template \notin {"RV-01", "artifact_fetch_error"} /\ Linked(row.template)
  <2>1. Enriched(row) = [row EXCEPT !.linked = TRUE]
    BY <1>2 DEF Enriched
  <2> QED
    BY <1>2, <2>1 DEF Counts, Row
<1>3. CASE row.template \notin {"RV-01", "artifact_fetch_error"} /\ ~Linked(row.template)
  <2>1. Enriched(row) = [row EXCEPT !.status = "NO_EVALUADA"]
    BY <1>3 DEF Enriched
  <2> QED
    BY <1>3, <2>1 DEF Counts, Row, Evaluations
<1> QED
  BY <1>1, <1>2, <1>3

LEMMA SavedVerdict ==
  ASSUME VerdictInv, stage = "save"
  PROVE  /\ verdict = aggregate(Judged, ActiveRules)
         /\ engine = aggregate(evaluations, ActiveRules)
         /\ evaluations = Answers
         /\ \A i \in DOMAIN rows : rows[i] \in Row
<1> DEFINE n == Len(ActiveRules)
           results == SubSeq(rows, 1, n)
<1>1. n \in Nat /\ DOMAIN ActiveRules = 1..n
  BY RulesKnown DEF VerdictInv
<1>2. /\ evaluations = Answers /\ engine = aggregate(evaluations, ActiveRules)
      /\ rows = [i \in DOMAIN Reported |-> Enriched(Reported[i])]
      /\ verdict = recompute_verdict(results, ActiveRules)
  BY DEF VerdictInv, Aligned
<1>3. /\ Reported \in Seq(Row) /\ Len(Reported) >= n
      /\ \A i \in 1..n : Reported[i] = [template |-> ActiveRules[i].template,
                                         status |-> evaluations[i], linked |-> FALSE]
  BY <1>1, <1>2, ReportedRows DEF VerdictInv
<1>4. DOMAIN rows = 1..Len(Reported) /\ Len(Reported) \in Nat
  BY <1>2, <1>3
<1>5. ASSUME NEW i \in 1..Len(Reported)
      PROVE  rows[i] = Enriched(Reported[i]) /\ Reported[i] \in Row /\ rows[i] \in Row
  <2>1. Reported[i] \in Row
    BY <1>3
  <2>2. rows[i] = Enriched(Reported[i])
    BY <1>2, <1>4
  <2> QED
    BY <2>1, <2>2, EnrichedRow
<1>6. rows \in Seq(Row) /\ Len(rows) = Len(Reported)
  <2>1. rows \in [1..Len(Reported) -> Row]
    BY <1>2, <1>4, <1>5
  <2> QED
    BY <1>4, <2>1
<1>7. DOMAIN results = 1..n /\ \A i \in 1..n : results[i] = rows[i]
  BY <1>1, <1>3, <1>4, <1>6
<1>8. ASSUME NEW i \in 1..n PROVE results[i].status = Judged[i]
  <2>1. i \in 1..Len(Reported)
    BY <1>1, <1>3, <1>4
  <2>2. Reported[i].template = ActiveRules[i].template /\ Reported[i].status = evaluations[i]
    <3>1. Reported[i] = [template |-> ActiveRules[i].template, status |-> evaluations[i],
                         linked |-> FALSE]
      BY <1>3
    <3> HIDE DEF n
    <3> QED
      BY <3>1
  <2>3. results[i].status = IF Counts(Reported[i].template) THEN Reported[i].status
                            ELSE "NO_EVALUADA"
    BY <2>1, <1>5, <1>7, EnrichedRow
  <2> QED
    BY <1>1, <2>2, <2>3 DEF Judged
<1>9. [i \in DOMAIN results |-> results[i].status] = Judged
  <2> HIDE DEF results
  <2> QED
    BY <1>1, <1>7, <1>8 DEF Judged
<1>10. verdict = aggregate(Judged, ActiveRules)
  BY <1>2, <1>9 DEF recompute_verdict
<1> QED
  BY <1>2, <1>4, <1>5, <1>10

LEMMA RulesScored ==
  ASSUME VerdictInv, stage # "fetch"
  PROVE  /\ DOMAIN evaluations = DOMAIN ActiveRules
         /\ \A i \in DOMAIN ActiveRules :
               /\ evaluations[i] = evaluate(payload, ActiveRules[i])
               /\ evaluations[i] \in Evaluations
<1>1. evaluations = Answers
  BY DEF VerdictInv, Aligned
<1> QED
  BY <1>1, EvaluateIsStatus DEF Answers

LEMMA TypeOfInv == VerdictInv => TypeOK
<1> SUFFICES ASSUME VerdictInv PROVE TypeOK
  OBVIOUS
<1>1. Len(ActiveRules) \in Nat /\ DOMAIN ActiveRules = 1..Len(ActiveRules)
  BY RulesKnown DEF VerdictInv
<1>2. evaluations \in Seq(Evaluations) /\ engine \in Verdicts
  <2>1. CASE stage = "fetch"
    <3>1. evaluations = <<>> /\ engine = "VALIDA"
      BY <2>1 DEF VerdictInv, Aligned
    <3> QED
      BY <3>1 DEF Verdicts
  <2>2. CASE stage # "fetch"
    <3>1. evaluations = Answers /\ engine = aggregate(evaluations, ActiveRules)
      BY <2>2 DEF VerdictInv, Aligned
    <3>2. evaluations \in [1..Len(ActiveRules) -> Evaluations]
      BY <3>1, <1>1, EvaluateIsStatus DEF Answers
    <3> QED
      BY <1>1, <3>1, <3>2, AggregateIsVerdict
  <2> QED
    BY <2>1, <2>2
<1>3. (\A i \in DOMAIN rows : rows[i] \in Row) /\ verdict \in Verdicts \union {None}
  <2>1. CASE stage = "fetch"
    <3>1. rows = <<>> /\ verdict = None
      BY <2>1 DEF VerdictInv, Aligned
    <3> QED
      BY <3>1
  <2>2. CASE stage = "save"
    BY <2>2, SavedVerdict, AggregateIsVerdict
  <2>3. CASE stage \notin {"fetch", "save"}
    <3>1. evaluations = Answers /\ rows = Reported /\ verdict = None
      BY <2>3 DEF VerdictInv, Aligned
    <3>2. rows \in Seq(Row)
      BY <3>1, ReportedRows DEF VerdictInv
    <3> QED
      BY <3>1, <3>2
  <2> QED
    BY <2>1, <2>2, <2>3
<1> QED
  BY <1>2, <1>3 DEF VerdictInv, RangesOK, TypeOK

\* A task keeps its variables in their ranges: in particular the results it saves
\* are those of rules of the profile, and of fetches that failed.
THEOREM VerdictTypeCorrect == Spec => []TypeOK
BY VerdictInvariant, TypeOfInv, PTL

LEMMA JudgedKnown ==
  ASSUME VerdictInv, stage # "fetch", NEW i \in DOMAIN ActiveRules
  PROVE  /\ Judged[i] \in {evaluations[i], "NO_EVALUADA"}
         /\ Judged[i] = "ERROR" <=>
               evaluations[i] = "ERROR" /\ Counts(ActiveRules[i].template)
         /\ Judged[i] # "WARNING" /\ evaluations[i] # "WARNING"
<1>1. evaluations[i] \in {"OK", "ERROR", "NO_EVALUADA"}
  BY RulesScored DEF Evaluations
<1> QED
  BY <1>1 DEF Judged

\* Marking rules as not evaluated, because their connectors are gone, makes the
\* verdict that is saved no harsher than the one the engine gave.
THEOREM NeverHarsherHolds == Spec => []NeverHarsher
<1>1. VerdictInv => NeverHarsher
  <2> SUFFICES ASSUME VerdictInv, stage = "save" PROVE Rank(verdict) <= Rank(engine)
    BY DEF NeverHarsher
  <2>1. verdict = aggregate(Judged, ActiveRules) /\ engine = aggregate(evaluations, ActiveRules)
    BY SavedVerdict
  <2>2. DOMAIN evaluations = DOMAIN ActiveRules /\ DOMAIN Judged = DOMAIN ActiveRules
    BY RulesScored DEF Judged
  <2>3. \A i \in DOMAIN ActiveRules :
           /\ Judged[i] = "ERROR" => evaluations[i] = "ERROR"
           /\ Judged[i] # "WARNING"
    BY JudgedKnown
  <2>4. verdict = "NO_VALIDA" => engine = "NO_VALIDA"
    BY <2>1, <2>2, <2>3 DEF aggregate
  <2>5. verdict = "CON_ADVERTENCIAS" => engine \in {"NO_VALIDA", "CON_ADVERTENCIAS"}
    BY <2>1, <2>2, <2>3 DEF aggregate
  <2>6. verdict \in Verdicts /\ engine \in Verdicts
    BY <2>1, AggregateIsVerdict
  <2> QED
    BY <2>4, <2>5, <2>6 DEF Rank, Verdicts
<1> QED
  BY <1>1, VerdictInvariant, PTL

\* A release is rejected for a mandatory rule that failed in the engine and
\* counts, and for nothing else: results, rules and fetch errors stay aligned.
THEOREM RejectionsExplained == Spec => []RejectionExplained
<1>1. VerdictInv => RejectionExplained
  <2> SUFFICES ASSUME VerdictInv, stage = "save"
               PROVE  verdict = "NO_VALIDA" <=>
                        \E i \in DOMAIN ActiveRules :
                           /\ Severity(ActiveRules[i]) = "OBLIGATORIA"
                           /\ evaluations[i] = "ERROR"
                           /\ \/ ActiveRules[i].template = "RV-01"
                              \/ Linked(ActiveRules[i].template)
    BY DEF RejectionExplained
  <2>1. verdict = "NO_VALIDA" <=>
          \E i \in DOMAIN ActiveRules :
             Judged[i] = "ERROR" /\ Severity(ActiveRules[i]) = "OBLIGATORIA"
    BY SavedVerdict DEF aggregate, Judged
  <2>2. ASSUME NEW i \in DOMAIN ActiveRules, evaluations[i] = "ERROR"
        PROVE  ActiveRules[i].template # "artifact_fetch_error"
    <3> SUFFICES ASSUME ActiveRules[i].template = "artifact_fetch_error" PROVE FALSE
      OBVIOUS
    <3>1. evaluate(payload, ActiveRules[i]) = "NO_EVALUADA"
      BY DEF evaluate
    <3> QED
      BY <2>2, <3>1, RulesScored
  <2>3. \A i \in DOMAIN ActiveRules :
           Judged[i] = "ERROR" <=>
             /\ evaluations[i] = "ERROR"
             /\ ActiveRules[i].template = "RV-01" \/ Linked(ActiveRules[i].template)
    BY <2>2, JudgedKnown DEF Counts
  <2> QED
    BY <2>1, <2>3
<1> QED
  BY <1>1, VerdictInvariant, PTL

\* A release whose artifacts could not be fetched, all of them, is rejected where
\* the profile makes artifacts mandatory: RV-01 counts without a connector.
THEOREM EmptyHandedRejected == Spec => []EmptyHandedFails
<1>1. VerdictInv => EmptyHandedFails
  <2> SUFFICES ASSUME VerdictInv, stage = "save", payload = <<>>,
                      NEW i \in DOMAIN ActiveRules,
                      ActiveRules[i].template = "RV-01",
                      Severity(ActiveRules[i]) = "OBLIGATORIA"
               PROVE  verdict = "NO_VALIDA"
    BY DEF EmptyHandedFails
  <2>1. evaluate(payload, ActiveRules[i]) = "ERROR"
    BY DEF evaluate, RV01, Pass
  <2>2. evaluations[i] = "ERROR"
    BY <2>1, RulesScored
  <2>3. Judged[i] = "ERROR"
    BY <2>2, JudgedKnown DEF Counts
  <2> QED
    BY <2>3, SavedVerdict DEF aggregate, Judged
<1> QED
  BY <1>1, VerdictInvariant, PTL

\* Where RV-08 passes, the plan lists the tasks of the release and no others,
\* though the rule compares one difference and two counts.
THEOREM PlansMatch == Spec => []PlanMatches
<1>1. VerdictInv => PlanMatches
  <2> SUFFICES ASSUME VerdictInv, NEW i \in DOMAIN evaluations,
                      ActiveRules[i].template = "RV-08", evaluations[i] = "OK"
               PROVE  \E m \in Masters(payload, ActiveRules[i]) :
                         m.declares = TaskRefs(payload)
    BY DEF PlanMatches
  <2>1. stage # "fetch"
    <3> SUFFICES ASSUME stage = "fetch" PROVE FALSE
      OBVIOUS
    <3>1. evaluations = <<>>
      BY DEF VerdictInv, Aligned
    <3> QED
      BY <3>1
  <2>2. evaluate(payload, ActiveRules[i]) = "OK" /\ payload \in Seq(ArtifactRow)
    BY <2>1, RulesScored DEF VerdictInv, RangesOK
  <2> QED
    BY <2>2, PlanOfOK
<1> QED
  BY <1>1, VerdictInvariant, PTL

\* The order in which the artifacts were fetched does not matter to any rule but
\* RV-07.
THEOREM OrderIrrelevant == Spec => []OrderIndependent
<1>1. VerdictInv => OrderIndependent
  BY EvaluateBackwards DEF OrderIndependent, VerdictInv, RangesOK
<1> QED
  BY <1>1, VerdictInvariant, PTL
=============================================================================
