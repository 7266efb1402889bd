------------------------------ MODULE Verdicts ------------------------------
(***************************************************************************)
(* The verdicts of one document: the report every version gets             *)
(* (generation, domains/report), objections to its findings and revised    *)
(* versions (gateway, submitObjection and reviseReport), and the history   *)
(* of re-evaluations they leave (evaluation, domains/revision).  The       *)
(* verdict is computed by two services: Assemble makes the one of a        *)
(* report, deriveVerdict the one of a re-evaluation.                       *)
(* One action is one call of the gateway to another service; the gateway   *)
(* keeps nothing, and may be cut off between any two calls.                *)
(***************************************************************************)
EXTENDS Naturals, Sequences, FiniteSets

CONSTANTS
    Problem,     \* what the internal evaluations can find: kind, index, text
    Dimension,   \* dimensions of the work quality evaluation
    Detection,   \* how one of them can be found, in the words of the evaluation
    Objector,    \* POST /api/reports/{id}/objections calls
    Reviser,     \* POST /api/reports/{id}/revisions calls
    MaxCalls,    \* bound on the calls of a behaviour
    MaxVersions  \* bound on the versions of the document

Area == {"purpose", "consistency", "completeness", "work_quality"}
Severity == {"low", "medium", "high", "blocking"}

ASSUME Constants ==
    /\ MaxCalls \in Nat /\ MaxVersions \in Nat \ {0}
    /\ Problem \cap Dimension = {}
    /\ Objector \cap Reviser = {}
    /\ Detection \subseteq [area : Area, severity : Severity,
                            confidence : 0..100, located : BOOLEAN]

Call == Objector \cup Reviser
Version == 1..MaxVersions

VARIABLES
    versions,    \* versions of the document so far
    reports,     \* the report of each version
    comparisons, \* pairs of versions whose comparison is saved
    objections,  \* status of the objection each call has filed
    history,     \* saved re-evaluations, in order
    pc,          \* the next call of a request, or its outcome
    args,        \* what a request is about
    made         \* the version a revision has added

vars == <<versions, reports, comparisons, objections, history, pc, args, made>>

-----------------------------------------------------------------------------
(* From what an evaluation finds to a finding of the report.               *)

\* The area as the report receives it: the name of the protobuf constant.
AreaString(area) ==
    CASE area = "purpose" -> "VALIDATION_AREA_PURPOSE"
      [] area = "consistency" -> "VALIDATION_AREA_CONSISTENCY"
      [] area = "completeness" -> "VALIDATION_AREA_COMPLETENESS"
      [] area = "work_quality" -> "work_quality"

\* Percent, for the fractions of the code.
severityScore(severity) ==
    CASE severity = "blocking" -> 100
      [] severity = "high" -> 75
      [] severity = "medium" -> 50
      [] severity = "low" -> 25

\* Risk in thousandths; recovery cost and reversibility are never filled in.
Risk(d) == 3 * d.confidence + 4 * severityScore(d.severity) + 100

severity_NoDefault(d) ==
    IF Risk(d) >= 750 THEN "blocking"
    ELSE IF Risk(d) >= 550 THEN "high"
    ELSE IF Risk(d) >= 300 THEN "medium"
    ELSE "unspecified"

severity(d) ==
    IF Risk(d) >= 750 THEN "blocking"
    ELSE IF Risk(d) >= 550 THEN "high"
    ELSE IF Risk(d) >= 300 THEN "medium"
    ELSE "low"

\* A finding of an internal evaluation without a place in the document is
\* unverified; one about the quality of the work is open either way.
FindingStatus(d) ==
    IF d.located \/ d.area = "work_quality" THEN "open" ELSE "unverified"

FindingInput(d) ==
    [area |-> AreaString(d.area), severity |-> severity(d),
     status |-> FindingStatus(d),
     critical |-> d.severity = "blocking" /\ d.area # "work_quality"]

Finding == [area : {AreaString(a) : a \in Area}, severity : Severity,
            status : {"open", "unverified"}, critical : BOOLEAN]

\* The id of an internal finding is a hash over the version and what was
\* found; that of a quality finding only names its dimension.
identifier(v, p) == IF p \in Dimension THEN <<0, p>> ELSE <<v, p>>

FindingId == (0..MaxVersions) \X (Problem \cup Dimension)

\* Possible results of the evaluations: a way of being found for some things.
Evaluation ==
    {D \in UNION {[S -> Detection] : S \in SUBSET (Problem \cup Dimension)} :
        \A p \in DOMAIN D : p \in Dimension <=> D[p].area = "work_quality"}

findingInputs(v, D) ==
    [i \in {identifier(v, p) : p \in DOMAIN D} |-> FindingInput(D[i[2]])]

\* An open finding needs a place in the document; Assemble refuses others.
Acceptable(D) == \A p \in DOMAIN D : D[p].located \/ FindingStatus(D[p]) = "unverified"

-----------------------------------------------------------------------------
(* The two verdict rules.                                                  *)

Verdict == {"executable", "conditionally_executable", "rewrite_required",
            "not_executable"}

BroadAreas == {"purpose", "completeness", "consistency"}

HighIn(F) == {i \in DOMAIN F : F[i].severity = "high"}

\* The rule of a report: Assemble counts over all findings and assumptions.
CriticalUnverified(F, unverified) ==
    unverified \/ \E i \in DOMAIN F : F[i].critical /\ F[i].status = "unverified"

AssembledVerdict(F, unverified) ==
    LET broadRewrite == {i \in HighIn(F) : F[i].area \in BroadAreas} IN
    IF \E i \in DOMAIN F : F[i].severity = "blocking" THEN "not_executable"
    ELSE IF \E i, j \in broadRewrite : i # j THEN "rewrite_required"
    ELSE IF HighIn(F) # {} \/ CriticalUnverified(F, unverified)
         THEN "conditionally_executable"
    ELSE "executable"

Assemble(F, unverified) ==
    [findings |-> F, unverified |-> unverified,
     verdict |-> AssembledVerdict(F, unverified)]

\* What evaluate can say of the assumptions: there is one at least, as no
\* research is planned without, and it sends every one as unverified.
SentUnverified == {TRUE}

NoReport == [findings |-> <<>>, unverified |-> FALSE, verdict |-> "none"]
Exists(v) == reports[v].verdict # "none"

deriveVerdict_OpenOnly(F) ==
    LET live == {i \in DOMAIN F : F[i].status = "open"} IN
    IF \E i \in live : F[i].severity = "blocking" THEN "not_executable"
    ELSE IF \E i, j \in live \cap HighIn(F) :
               i # j /\ {F[i].area, F[j].area} \subseteq BroadAreas
         THEN "rewrite_required"
    ELSE IF live \cap HighIn(F) # {} THEN "conditionally_executable"
    ELSE "executable"

\* The rule of a re-evaluation: it passes over findings that are settled, and
\* is given no assumptions.
deriveVerdict(F) ==
    LET live == {i \in DOMAIN F : F[i].status \notin {"withdrawn", "resolved"}} IN
    IF \E i \in live : F[i].severity = "blocking" THEN "not_executable"
    ELSE IF \E i, j \in live \cap HighIn(F) :
               i # j /\ {F[i].area, F[j].area} \subseteq BroadAreas
         THEN "rewrite_required"
    ELSE IF live \cap HighIn(F) # {} THEN "conditionally_executable"
    ELSE "executable"

severityRank(s) ==
    CASE s = "blocking" -> 4 [] s = "high" -> 3 [] s = "medium" -> 2 [] s = "low" -> 1

\* What became of one finding; an objection's evidence can withdraw it.
FindingChange(previous, current, i, withdrawn) ==
    IF i \notin DOMAIN current
    THEN IF i \in withdrawn THEN "withdrawn_by_evidence" ELSE "resolved"
    ELSE IF i \notin DOMAIN previous THEN "new"
    ELSE IF severityRank(current[i].severity) > severityRank(previous[i].severity)
         THEN "worsened"
    ELSE IF \/ severityRank(current[i].severity) < severityRank(previous[i].severity)
            \/ current[i].status = "partially_resolved"
         THEN "partially_resolved"
    ELSE "unresolved"

Changes == {"new", "unresolved", "worsened", "partially_resolved", "resolved",
            "withdrawn_by_evidence"}

Reevaluate_Swapped(c, from, to, current, withdrawn) ==
    LET previous == reports[from].findings IN
    [call |-> c, from |-> from, to |-> to,
     previous |-> deriveVerdict(current), current |-> reports[from].verdict,
     changes |-> [i \in DOMAIN previous \cup DOMAIN current |->
                     FindingChange(previous, current, i, withdrawn)]]

\* From the report of version from to the findings current of version to.
Reevaluate(c, from, to, current, withdrawn) ==
    LET previous == reports[from].findings IN
    [call |-> c, from |-> from, to |-> to,
     previous |-> reports[from].verdict, current |-> deriveVerdict(current),
     changes |-> [i \in DOMAIN previous \cup DOMAIN current |->
                     FindingChange(previous, current, i, withdrawn)]]

-----------------------------------------------------------------------------
(* Objections.                                                             *)

\* What the LLM makes of the evidence: a status, a confidence of .7 or more,
\* and whether it cites any of the evidence submitted.
Review == [status : {"contradicts_finding", "supports_finding", "insufficient"},
           confident : BOOLEAN, cites : BOOLEAN]

NoArgs == [version |-> 1, finding |-> <<>>,
           review |-> [status |-> "insufficient", confident |-> FALSE, cites |-> FALSE]]

Upheld_AnyConfidence(review) == review.status = "contradicts_finding"
Upheld(review) == review.status = "contradicts_finding" /\ review.confident

\* One more call may begin.
MayBegin == Cardinality({c \in Call : pc[c] # "new"}) < MaxCalls

\* The report is read, the evidence fetched and reviewed; a request that names
\* no finding of the report or has no reachable evidence ends here.
ReviewObjection(c, v, i, review) ==
    /\ pc[c] = "new" /\ MayBegin /\ Exists(v) /\ i \in DOMAIN reports[v].findings
    /\ args' = [args EXCEPT ![c] = [version |-> v, finding |-> i, review |-> review]]
    /\ pc' = [pc EXCEPT ![c] = "submit"]
    /\ UNCHANGED <<versions, reports, comparisons, objections, history, made>>

SubmitObjection(c) ==
    /\ pc[c] = "submit"
    /\ objections' = [objections EXCEPT ![c] = "pending_reevaluation"]
    /\ pc' = [pc EXCEPT ![c] = "reevaluate"]
    /\ UNCHANGED <<versions, reports, comparisons, history, args, made>>

currentFindings_Accumulated(c) ==
    LET v == args[c].version
        F == reports[v].findings
        dropped == {args[d].finding : d \in
                       {e \in Objector : /\ args[e].version = v /\ Upheld(args[e].review)
                                         /\ e = c \/ objections[e] = "reevaluated"}}
    IN [i \in DOMAIN F \ dropped |-> F[i]]

\* The findings of the report, without the target when the objection is upheld.
currentFindings(c) ==
    LET F == reports[args[c].version].findings
        dropped == IF Upheld(args[c].review) THEN {args[c].finding} ELSE {}
    IN [i \in DOMAIN F \ dropped |-> F[i]]

ReevaluateObjection_MarkFirst(c) ==
    /\ pc[c] = "reevaluate"
    /\ objections' = [objections EXCEPT ![c] = "reevaluated"]
    /\ pc' = [pc EXCEPT ![c] = "mark"]
    /\ UNCHANGED <<versions, reports, comparisons, history, args, made>>

\* SaveReevaluation, the INSERT.
ReevaluateObjection(c) ==
    LET v == args[c].version
        withdrawn == IF args[c].review.cites THEN {args[c].finding} ELSE {}
    IN
    /\ pc[c] = "reevaluate"
    /\ history' = Append(history, Reevaluate(c, v, v, currentFindings(c), withdrawn))
    /\ pc' = [pc EXCEPT ![c] = "mark"]
    /\ UNCHANGED <<versions, reports, comparisons, objections, args, made>>

\* SaveReevaluation, the UPDATE: its error is ignored.
MarkObjection(c) ==
    /\ pc[c] = "mark"
    /\ \/ objections' = [objections EXCEPT ![c] = "reevaluated"]
       \/ UNCHANGED objections
    /\ pc' = [pc EXCEPT ![c] = "done"]
    /\ UNCHANGED <<versions, reports, comparisons, history, args, made>>

-----------------------------------------------------------------------------
(* Revisions.                                                              *)

ReviseReport(c, v) ==
    /\ pc[c] = "new" /\ MayBegin /\ Exists(v)
    /\ args' = [args EXCEPT ![c].version = v]
    /\ pc' = [pc EXCEPT ![c] = "version"]
    /\ UNCHANGED <<versions, reports, comparisons, objections, history, made>>

AddVersion_LastReport(c) ==
    LET n == CHOOSE n \in Version : Exists(n) /\ \A m \in Version : Exists(m) => m <= n
    IN
    /\ pc[c] = "version" /\ n < MaxVersions
    /\ versions' = n + 1
    /\ made' = [made EXCEPT ![c] = n + 1]
    /\ pc' = [pc EXCEPT ![c] = "report"]
    /\ UNCHANGED <<reports, comparisons, objections, history, args>>

\* The document row is locked while the next number is taken.
AddVersion(c) ==
    /\ pc[c] = "version" /\ versions < MaxVersions
    /\ versions' = versions + 1
    /\ made' = [made EXCEPT ![c] = versions + 1]
    /\ pc' = [pc EXCEPT ![c] = "report"]
    /\ UNCHANGED <<reports, comparisons, objections, history, args>>

\* The evaluation of the new version, up to its saved report.
CreateReport(c, D, unverified) ==
    /\ pc[c] = "report"
    /\ IF Acceptable(D)
       THEN /\ reports' = [reports EXCEPT ![made[c]] =
                              Assemble(findingInputs(made[c], D), unverified)]
            /\ pc' = [pc EXCEPT ![c] = "compare"]
       ELSE /\ pc' = [pc EXCEPT ![c] = "failed"]
            /\ UNCHANGED reports
    /\ UNCHANGED <<versions, comparisons, objections, history, args, made>>

\* Compare refuses a version that is not newer than the one it replaces; the
\* request then ends by Fail.
CompareVersions(c) ==
    /\ pc[c] = "compare" /\ made[c] > args[c].version
    /\ comparisons' = comparisons \cup {<<args[c].version, made[c]>>}
    /\ pc' = [pc EXCEPT ![c] = "reevaluate"]
    /\ UNCHANGED <<versions, reports, objections, history, args, made>>

ReevaluateRevision_TargetOnly(c) ==
    /\ pc[c] \in {"compare", "reevaluate"}
    /\ history' = Append(history, Reevaluate(c, args[c].version, made[c],
                                             reports[made[c]].findings, {}))
    /\ pc' = [pc EXCEPT ![c] = "done"]
    /\ UNCHANGED <<versions, reports, comparisons, objections, args, made>>

ReevaluateRevision(c) ==
    /\ pc[c] = "reevaluate"
    /\ history' = Append(history, Reevaluate(c, args[c].version, made[c],
                                             reports[made[c]].findings, {}))
    /\ pc' = [pc EXCEPT ![c] = "done"]
    /\ UNCHANGED <<versions, reports, comparisons, objections, args, made>>

\* A call fails, the client hangs up or the gateway dies: nothing is undone.
Fail(c) ==
    /\ pc[c] \notin {"new", "done", "failed"}
    /\ pc' = [pc EXCEPT ![c] = "failed"]
    /\ UNCHANGED <<versions, reports, comparisons, objections, history, args, made>>

-----------------------------------------------------------------------------
\* A document has been evaluated once.
Init ==
    /\ versions = 1
    /\ \E D \in Evaluation, unverified \in SentUnverified :
          /\ Acceptable(D)
          /\ reports = [v \in Version |->
                          IF v = 1 THEN Assemble(findingInputs(1, D), unverified)
                          ELSE NoReport]
    /\ comparisons = {}
    /\ objections = [c \in Objector |-> "none"]
    /\ history = <<>>
    /\ pc = [c \in Call |-> "new"]
    /\ args = [c \in Call |-> NoArgs]
    /\ made = [c \in Reviser |-> 1]

Objection(c) ==
    \/ \E v \in Version, review \in Review :
          \E i \in DOMAIN reports[v].findings : ReviewObjection(c, v, i, review)
    \/ SubmitObjection(c) \/ ReevaluateObjection(c) \/ MarkObjection(c)

Revision(c) ==
    \/ \E v \in Version : ReviseReport(c, v)
    \/ \E D \in Evaluation, unverified \in SentUnverified :
          CreateReport(c, D, unverified)
    \/ AddVersion(c) \/ CompareVersions(c) \/ ReevaluateRevision(c)

Next ==
    \/ \E c \in Objector : Objection(c)
    \/ \E c \in Reviser : Revision(c)
    \/ \E c \in Call : Fail(c)

Spec == Init /\ [][Next]_vars

-----------------------------------------------------------------------------
(* Invariants.                                                             *)

Pc == {"new", "submit", "reevaluate", "mark", "version", "report", "compare",
       "done", "failed"}

IsFindings(F) ==
    /\ F = [i \in DOMAIN F |-> F[i]]
    /\ DOMAIN F \subseteq FindingId
    /\ \A i \in DOMAIN F : F[i] \in Finding

TypeOK ==
    /\ versions \in Version
    /\ \A v \in Version :
          /\ IsFindings(reports[v].findings)
          /\ reports[v].unverified \in BOOLEAN
          /\ reports[v].verdict \in Verdict \cup {"none"}
    /\ comparisons \subseteq Version \X Version
    /\ objections \in [Objector -> {"none", "pending_reevaluation", "reevaluated"}]
    /\ \A n \in DOMAIN history :
          /\ history[n].call \in Call
          /\ history[n].from \in Version /\ history[n].to \in Version
          /\ history[n].previous \in Verdict /\ history[n].current \in Verdict
          /\ \A i \in DOMAIN history[n].changes : history[n].changes[i] \in Changes
    /\ pc \in [Call -> Pc]
    /\ made \in [Reviser -> Version]

\* The verdict of a report, given the one its findings alone justify.
Guarded(r, verdict) ==
    IF CriticalUnverified(r.findings, r.unverified) /\ verdict = "executable"
    THEN "conditionally_executable" ELSE verdict

\* The generation service and the evaluation service judge alike: the verdict
\* of a report is the one a re-evaluation derives from its findings, except
\* that unverified assumptions make executable conditional (rules.go of report
\* and of revision).
RulesAgree ==
    \A v \in Version :
        Exists(v) =>
            reports[v].verdict = Guarded(reports[v], deriveVerdict(reports[v].findings))

verdictRank ==
    [executable |-> 1, conditionally_executable |-> 2,
     rewrite_required |-> 3, not_executable |-> 4]

\* An objection never makes the recorded verdict worse, whatever its review
\* says and whatever else is going on (submitObjection, Reevaluate).
ObjectionsNeverHarm ==
    \A n \in DOMAIN history :
        history[n].call \in Objector =>
            verdictRank[history[n].current] <= verdictRank[history[n].previous]

\* An objection whose evidence does not contradict the finding with confidence
\* leaves every finding as it was and the verdict as well, except that the
\* assumptions no longer count (submitObjection).
RejectedObjectionsChangeNothing ==
    \A n \in DOMAIN history :
        LET row == history[n]
            review == args[row.call].review
        IN row.call \in Objector
           /\ (review.status # "contradicts_finding" \/ ~review.confident) =>
                /\ \A i \in DOMAIN row.changes : row.changes[i] = "unresolved"
                /\ row.previous = Guarded(reports[row.to], row.current)

RowsOf(c) == {n \in DOMAIN history : history[n].call = c}

\* An objection is marked re-evaluated only if exactly one re-evaluation of it
\* is saved, with cut-off requests and ignored errors (SaveReevaluation).
ReevaluatedHasRow ==
    \A c \in Objector :
        /\ objections[c] = "reevaluated" => RowsOf(c) # {}
        /\ \A m, n \in RowsOf(c) : m = n

\* An objection can only help, needs grounds, and is re-evaluated once; each one
\* is judged against the findings of the report, whatever others have achieved.
ObjectionsSound ==
    ObjectionsNeverHarm /\ RejectedObjectionsChangeNothing /\ ReevaluatedHasRow

\* A revision is recorded once, for a version only it has made, and only after
\* the comparison with the version it replaces is saved (reviseReport), also
\* when several revisions of one report are under way.
RevisionsCompared ==
    \A n \in DOMAIN history :
        history[n].call \in Reviser =>
            /\ <<history[n].from, history[n].to>> \in comparisons
            /\ \A m \in DOMAIN history :
                  history[m].call \in Reviser /\ history[m].to = history[n].to => m = n

\* A report is final: neither objections nor concurrent or broken-off
\* revisions ever change the report of a version (08-domain-model.md).
ReportsPreserved ==
    [][\A v \in Version : Exists(v) => reports'[v] = reports[v]]_vars

-----------------------------------------------------------------------------
(* What the documentation promises and the code does not keep.             *)

\* 08-domain-model.md: the verdict cannot be executable while a critical
\* assumption is unverified.
NeverExecutableUnverified ==
    \A n \in DOMAIN history :
        LET r == reports[history[n].to] IN
        CriticalUnverified(r.findings, r.unverified) =>
            history[n].current # "executable"
=============================================================================
