--------------------------- MODULE ValidationPolicy ---------------------------
(***************************************************************************)
(* What the evaluation service does with the answers of its language       *)
(* model: the validation plan is completed by a policy and then checked,   *)
(* and findings are checked against the blocks of the document that were   *)
(* sent.  Texts are only blank or not; a confidence is in its range or     *)
(* not.                                                                    *)
(***************************************************************************)
EXTENDS Naturals, Sequences, FiniteSets, SequencesExt

CONSTANT Areas       \* validationAreas

ASSUME AreasAssumption == {"context", "verifiability"} \subseteq Areas /\ IsFiniteSet(Areas)

Depths == {"basic", "standard", "deep"}

\* An item of a plan as the language model may answer it.
PlanItem ==
    [area : STRING, selected : BOOLEAN, depth : Depths \cup STRING, drivers : Seq(STRING),
     reason : BOOLEAN]

-----------------------------------------------------------------------------
(* CreateValidationPlan.  A request names assumptions, risks and           *)
(* dependencies, each with an id, and knows its country and domain or not. *)

AreaOf(dependency) ==
    CASE dependency = "permission" -> {"operations"}
      [] dependency \in {"data", "api", "technology", "resource"} -> {dependency}
      [] OTHER -> {}

Drivers(request) == {d.id : d \in request.drivers}

Serious(d) ==
    CASE d.sort = "assumption" -> d.critical
      [] d.sort = "risk" -> d.impact >= 70 \/ d.likelihood >= 70
      [] OTHER -> FALSE
RequiredDrivers(request) == {d.id : d \in {e \in request.drivers : Serious(e)}}

RequiredAreas(request) ==
    UNION {AreaOf(d.type) : d \in {e \in request.drivers : e.sort = "dependency"}}
        \cup (IF request.located THEN {} ELSE {"context"})

\* Only known drivers, each once.
knownDrivers(ids, drivers) ==
    FoldLeft(LAMBDA out, d : IF d \in drivers /\ d \notin ToSet(out) THEN Append(out, d)
                             ELSE out, <<>>, ids)

normalizePlanDrivers(items, drivers) ==
    [i \in DOMAIN items |->
        [items[i] EXCEPT !.drivers = knownDrivers(@, drivers),
                         !.reason = @ \/ ~(ToSet(items[i].drivers) \subseteq drivers)]]

RequireArea_Shallow(item, requiredAreas) ==
    IF item.area \in requiredAreas /\ ~item.selected
    THEN [item EXCEPT !.selected = TRUE, !.reason = TRUE] ELSE item

RequireArea(item, requiredAreas) ==
    IF item.area \in requiredAreas /\ ~item.selected
    THEN [item EXCEPT !.selected = TRUE, !.depth = "standard", !.reason = TRUE] ELSE item

\* Drivers that must be looked at and that no item names go to the last item
\* on verifiability, in the order in which a map is walked.
applyRequiredPlanPolicy(items, requiredDrivers, requiredAreas) ==
    LET result == [i \in DOMAIN items |-> RequireArea(items[i], requiredAreas)]
        used   == UNION {ToSet(items[i].drivers) : i \in DOMAIN items}
        last   == SelectLastInSeq(result, LAMBDA x : x.area = "verifiability")
        added  == result[last].drivers \o SetToSeq(requiredDrivers \ used)
    IN  IF last = 0 \/ added = <<>> THEN result
        ELSE [result EXCEPT ![last] = [@ EXCEPT !.drivers = added, !.selected = TRUE,
                                                !.depth = "deep", !.reason = TRUE]]

\* Each area once, with a reason and a depth that fits; known drivers only,
\* and every required one.
validatePlan(items, drivers, requiredDrivers, requiredAreas) ==
    /\ Len(items) = Cardinality(Areas)
    /\ {items[i].area : i \in DOMAIN items} = Areas
    /\ \A i \in DOMAIN items :
        /\ items[i].reason
        /\ IF items[i].selected THEN items[i].depth \in Depths ELSE items[i].depth = "none"
        /\ items[i].area \in requiredAreas => items[i].selected
        /\ ToSet(items[i].drivers) \subseteq drivers
    /\ requiredDrivers \subseteq UNION {ToSet(items[i].drivers) : i \in DOMAIN items}

\* The plan for a request, from what the language model answers.
CreateValidationPlan(request, answer) ==
    LET items == applyRequiredPlanPolicy(normalizePlanDrivers(answer, Drivers(request)),
                                         RequiredDrivers(request), RequiredAreas(request))
    IN  IF ~request.purposeGiven THEN [outcome |-> "invalid"]
        ELSE IF ~validatePlan(items, Drivers(request), RequiredDrivers(request),
                              RequiredAreas(request))
             THEN [outcome |-> "internal"]
             ELSE [outcome |-> "planned", items |-> items]

-----------------------------------------------------------------------------
(* Findings.  Every finding has a sort, a severity, a confidence, its      *)
(* texts and the blocks it cites.                                          *)

Finding == [sort : STRING, severity : STRING, scored : BOOLEAN, texts : BOOLEAN,
            cites : Seq(Nat), absence : BOOLEAN]

Severities == {"low", "medium", "high", "blocking"}
SortsOf(kind) ==
    CASE kind = "alignment" ->
             {"missing", "purposeless_feature", "logical_gap", "unmeasurable_goal"}
      [] kind = "contradiction" -> {"claim", "figure", "policy", "schedule", "requirement"}
      [] kind = "gap" ->
             {"normal_flow", "exception", "failure", "permission", "state", "boundary"}
      [] kind = "quality" -> {"research", "validation", "logic"}

WellFormed(kind, f) ==
    f.sort \in SortsOf(kind) /\ f.severity \in Severities /\ f.scored /\ f.texts

CitesOnce(f, blocks) == ToSet(f.cites) \subseteq blocks /\ IsInjective(f.cites)

validRequirementGap(f, blocks) ==
    WellFormed("gap", f) /\ f.cites # <<>> /\ CitesOnce(f, blocks)

validContradiction(f, blocks) ==
    WellFormed("contradiction", f) /\ Len(f.cites) >= 2 /\ CitesOnce(f, blocks)

validAlignmentFinding_Anywhere(f, blocks) ==
    /\ WellFormed("alignment", f)
    /\ f.absence \/ ToSet(f.cites) \subseteq blocks

\* What is missing from the document cites nothing, anything else something.
validAlignmentFinding(f, blocks) ==
    /\ WellFormed("alignment", f)
    /\ IF f.absence THEN f.cites = <<>>
       ELSE f.cites # <<>> /\ ToSet(f.cites) \subseteq blocks

unverifiableAlignmentFinding ==
    [sort |-> "missing", severity |-> "medium", scored |-> TRUE, texts |-> TRUE,
     cites |-> <<>>, absence |-> TRUE]

WorkStatuses == {"satisfied", "partially_satisfied", "not_satisfied", "unverified"}

\* The three dimensions, each once.
validWorkQuality(items, blocks) ==
    /\ Len(items) = 3
    /\ {items[i].sort : i \in DOMAIN items} = SortsOf("quality")
    /\ \A i \in DOMAIN items :
        /\ items[i].severity \in WorkStatuses /\ items[i].scored /\ items[i].texts
        /\ items[i].cites # <<>> /\ CitesOnce(items[i], blocks)

\* What is stored of a finding.  A gap always says that something is missing,
\* beside the blocks it is missed in; of the others only a finding on alignment
\* can say so, in the words of the language model.
Stored(kind, f) == IF kind = "alignment" THEN f ELSE [f EXCEPT !.absence = kind = "gap"]

\* What an evaluation keeps of the findings of the language model, or "none"
\* if it refuses them all.
Accept(kind, findings, blocks) ==
    LET kept(f) == Stored(kind, IF kind # "alignment" \/ validAlignmentFinding(f, blocks)
                                THEN f ELSE unverifiableAlignmentFinding)
        valid == CASE kind = "alignment" -> TRUE
                   [] kind = "contradiction" ->
                          \A i \in DOMAIN findings : validContradiction(findings[i], blocks)
                   [] kind = "gap" ->
                          \A i \in DOMAIN findings : validRequirementGap(findings[i], blocks)
                   [] kind = "quality" -> validWorkQuality(findings, blocks)
    IN  IF valid THEN [outcome |-> "kept",
                       findings |-> [i \in DOMAIN findings |-> kept(findings[i])]]
        ELSE [outcome |-> "internal"]
=============================================================================
