---------------------------- MODULE Evaluations ----------------------------
(***************************************************************************)
(* The evaluation of documents: runs of the gateway's handler (evaluate),  *)
(* each a chain of calls to the project, document, evaluation, research    *)
(* and generation services, with four of the evaluation calls in parallel. *)
(* A run is a request, or one attempt of a job of the queue: attempts of a *)
(* job make the same call, and may overlap, as a job is started again when *)
(* a gateway comes back.  One action is one call, with what the service    *)
(* stores; AddDocumentVersion is split at its statements.  The gateway     *)
(* keeps nothing but the run's own replies, and a call that has stored its *)
(* rows may still fail for the run: its reply is lost, its deadline over,  *)
(* or the gateway dies.                                                    *)
(***************************************************************************)
EXTENDS Naturals, Sequences, FiniteSets, SequencesExt

CONSTANTS
    Run,       \* runs of the handler
    Original,  \* contents of uploaded files
    Document,  \* documents that exist already, with one version each
    First,     \* the original of that version
    Calls,     \* what a run can be asked for
    OtherArea, \* areas of a validation plan without an evaluation of their own
    Answers,   \* what each of the four evaluations can find: severities in order
    Analyses,  \* which elements an analysis can find
    Selections,\* which areas a plan can select
    MaxFailed, \* bound on the runs that fail
    None

Part == {"purpose", "consistency", "completeness", "quality"}
Core == {"purpose", "consistency", "completeness"}
Area == Core \cup OtherArea
ElementType == {"purpose", "other"}
Severity == {"low", "medium", "high", "blocking"}
Status == {"satisfied", "partially_satisfied", "not_satisfied", "unverified",
           "not_applicable"}
Summary == [results : [Area -> Status], defects : SUBSET Area, scored : SUBSET Area,
            excluded : SUBSET Area]
Report == [version : (Document \cup Run) \X Nat, areas : [Area -> Status],
           findings : [Part -> Seq(Severity)]]

ASSUME Constants ==
    /\ First \in Original
    /\ Document \cap Run = {}
    /\ Core \cap OtherArea = {}
    /\ Calls \subseteq [original : Original, document : Document \cup {None},
                        project : BOOLEAN]
    /\ \A p \in Part : Answers[p] \subseteq Seq(Severity)
    /\ Analyses \subseteq SUBSET ElementType
    /\ Selections \subseteq SUBSET Area
    /\ MaxFailed \in Nat
    /\ None \notin Document \cup Run \cup Original \cup Summary \cup Report
    /\ \A p \in Part : None \notin Answers[p]

VARIABLES
    call,        \* what each run is asked for
    pc,          \* its next call, or its outcome
    number,      \* the version number it has computed, 0 for none
    replies,     \* its replies from the document and evaluation services
    inFlight,    \* its evaluation calls that are not answered
    projects,    \* project service: projects created by runs
    blobs,       \* document service: the originals in the object store
    versions,    \* document service: the versions of every document, in order
    locked,      \* document service: who holds the row of a document
    elements,    \* document service: rows of document_elements
    requirements,\* document service: rows of document_requirements
    rows,        \* rows of the other tables, by kind and run
    evaluated,   \* evaluation service: what the stored evaluations found
    summary,     \* evaluation service: validation_result_summaries
    report       \* generation service: evaluation_reports

documentStore == <<blobs, versions, locked, elements, requirements>>
results == <<rows, evaluated, summary, report>>
vars == <<call, pc, number, replies, inFlight, projects, documentStore, results>>

-----------------------------------------------------------------------------
(* Types.                                                                  *)

Table == {"analysis", "plan", "research_plan", "research_report"}

\* A document made by a run is named after it: its id is random.
DocumentId == Document \cup Run
DocumentOf(r) == IF call[r].document = None THEN r ELSE call[r].document
VersionOf_Latest(r) == <<DocumentOf(r), Len(versions[DocumentOf(r)])>>
VersionOf(r) == <<DocumentOf(r), number[r]>>

NoReplies == [elements |-> {}, requirements |-> FALSE, assumptions |-> FALSE,
              selected |-> {}, failed |-> FALSE]

NotEvaluated == [p \in Part |-> None]
Outcome == {"done", "error"}
Chain == {"project", "original", "number", "insert", "elements", "requirements",
          "identify", "plan", "evaluating", "plan_research", "research",
          "record", "report"}

Running(r) == pc[r] \in Chain

Init ==
    /\ call \in [Run -> Calls]
    /\ pc = [r \in Run |-> IF call[r].document = None /\ ~call[r].project
                           THEN "project" ELSE "original"]
    /\ number = [r \in Run |-> 0]
    /\ replies = [r \in Run |-> NoReplies]
    /\ inFlight = [r \in Run |-> {}]
    /\ projects = {}
    /\ blobs = {First}
    /\ versions = [d \in DocumentId |->
                      IF d \in Document THEN <<[original |-> First, by |-> None]>> ELSE <<>>]
    /\ locked = [d \in Document |-> None]
    /\ elements = {} /\ requirements = {}
    /\ rows = {}
    /\ evaluated = [r \in Run |-> NotEvaluated]
    /\ summary = [r \in Run |-> None]
    /\ report = [r \in Run |-> None]

-----------------------------------------------------------------------------
(* The chain of calls.                                                     *)

Failing == {r \in Run : pc[r] = "error" \/ replies[r].failed}
MayFail(r) == Cardinality(Failing \cup {r}) <= MaxFailed

\* The service has done its part: the run goes on, or its call fails anyway.
Answered(r, next) ==
    \/ pc' = [pc EXCEPT ![r] = next]
    \/ MayFail(r) /\ pc' = [pc EXCEPT ![r] = "error"]

CreateProject(r) ==
    /\ pc[r] = "project"
    /\ projects' = projects \cup {r}
    /\ Answered(r, "original")
    /\ UNCHANGED <<call, number, replies, inFlight, documentStore, results>>

\* The original is put under the hash of its content before a version names it.
PutOriginal(r) ==
    /\ pc[r] = "original"
    /\ blobs' = blobs \cup {call[r].original}
    /\ pc' = [pc EXCEPT ![r] = "number"]
    /\ UNCHANGED <<call, number, replies, inFlight, projects, versions, locked,
                   elements, requirements, results>>

NextNumber(d) == Len(versions[d]) + 1

NumberVersion_NoLock(r) ==
    /\ pc[r] = "number"
    /\ number' = [number EXCEPT ![r] = NextNumber(DocumentOf(r))]
    /\ pc' = [pc EXCEPT ![r] = "insert"]
    /\ UNCHANGED <<call, replies, inFlight, projects, documentStore, results>>

\* AddVersion locks the row of the document until it commits and reads the
\* highest number; Create inserts a new document, which nobody else can see.
NumberVersion(r) ==
    /\ pc[r] = "number"
    /\ call[r].document # None => locked[call[r].document] = None
    /\ locked' = [d \in Document |-> IF d = call[r].document THEN r ELSE locked[d]]
    /\ number' = [number EXCEPT ![r] = NextNumber(DocumentOf(r))]
    /\ pc' = [pc EXCEPT ![r] = "insert"]
    /\ UNCHANGED <<call, replies, inFlight, projects, blobs, versions, elements,
                   requirements, results>>

\* Neither a commit nor a rollback leaves the row locked.
Unlocked(r) == [d \in Document |-> IF locked[d] = r THEN None ELSE locked[d]]

\* The number is part of the primary key.
InsertVersion(r) ==
    /\ pc[r] = "insert" /\ number[r] = NextNumber(DocumentOf(r))
    /\ versions' = [versions EXCEPT ![DocumentOf(r)] =
                       Append(@, [original |-> call[r].original, by |-> r])]
    /\ locked' = Unlocked(r)
    /\ Answered(r, "elements")
    /\ UNCHANGED <<call, number, replies, inFlight, projects, blobs, elements,
                   requirements, results>>

\* ReplaceElements and ReplaceRequirements delete the rows of the version and
\* insert the new ones in one transaction.
Replace(table, r, items) ==
    {row \in table : row.version # VersionOf(r)}
        \cup {[version |-> VersionOf(r), by |-> r, item |-> i] : i \in items}

AnalyzeDocumentVersion(r) ==
    /\ pc[r] = "elements"
    /\ \E found \in Analyses :
        /\ elements' = Replace(elements, r, found)
        /\ replies' = [replies EXCEPT ![r].elements = found]
    /\ Answered(r, "requirements")
    /\ UNCHANGED <<call, number, inFlight, projects, blobs, versions, locked,
                   requirements, results>>

AnalyzeRequirements(r) ==
    /\ pc[r] = "requirements"
    /\ \E found \in SUBSET {"requirement"} :
        /\ requirements' = Replace(requirements, r, found)
        /\ replies' = [replies EXCEPT ![r].requirements = found # {}]
    /\ Answered(r, "identify")
    /\ UNCHANGED <<call, number, inFlight, projects, blobs, versions, locked,
                   elements, results>>

\* A stored row of another table.
Insert(table, r) == rows' = rows \cup {<<table, r>>}

IdentifyAssumptionsAndRisks(r) ==
    /\ pc[r] = "identify" /\ replies[r].elements # {}
    /\ \E found \in BOOLEAN : replies' = [replies EXCEPT ![r].assumptions = found]
    /\ Insert("analysis", r)
    /\ Answered(r, "plan")
    /\ UNCHANGED <<call, number, inFlight, projects, documentStore, evaluated,
                   summary, report>>

\* The plan has every area; the four evaluations start when it is back.
CreateValidationPlan(r) ==
    /\ pc[r] = "plan" /\ "purpose" \in replies[r].elements
    /\ \E selected \in Selections :
           replies' = [replies EXCEPT ![r].selected = selected]
    /\ Insert("plan", r)
    /\ Answered(r, "evaluating")
    /\ inFlight' = [inFlight EXCEPT ![r] = IF pc'[r] = "evaluating" THEN Part ELSE {}]
    /\ UNCHANGED <<call, number, projects, documentStore, evaluated, summary, report>>

-----------------------------------------------------------------------------
(* The four parallel evaluations.                                          *)

\* What the services refuse to evaluate.
Evaluable(r, p) ==
    CASE p = "completeness" -> replies[r].requirements
      [] p = "consistency" -> \/ replies[r].elements = ElementType
                              \/ replies[r].elements # {} /\ replies[r].requirements
      [] OTHER -> replies[r].elements # {}

\* An evaluation is stored, whether or not the run is still waiting for it.
Evaluate(r, p) ==
    /\ p \in inFlight[r] /\ Evaluable(r, p)
    /\ \E found \in Answers[p] : evaluated' = [evaluated EXCEPT ![r][p] = found]
    /\ \/ UNCHANGED replies
       \/ MayFail(r) /\ replies' = [replies EXCEPT ![r].failed = TRUE]
    /\ inFlight' = [inFlight EXCEPT ![r] = @ \ {p}]
    /\ UNCHANGED <<call, pc, number, projects, documentStore, rows, summary, report>>

EvaluationFails(r, p) ==
    /\ p \in inFlight[r] /\ MayFail(r)
    /\ replies' = [replies EXCEPT ![r].failed = TRUE]
    /\ inFlight' = [inFlight EXCEPT ![r] = @ \ {p}]
    /\ UNCHANGED <<call, pc, number, projects, documentStore, results>>

Join_Three(r) ==
    /\ pc[r] = "evaluating" /\ inFlight[r] \subseteq {"quality"}
    /\ pc' = [pc EXCEPT ![r] = IF replies[r].failed THEN "error" ELSE "plan_research"]
    /\ UNCHANGED <<call, number, replies, inFlight, projects, documentStore, results>>

Join_NoErrors(r) ==
    /\ pc[r] = "evaluating" /\ inFlight[r] = {}
    /\ pc' = [pc EXCEPT ![r] = "plan_research"]
    /\ UNCHANGED <<call, number, replies, inFlight, projects, documentStore, results>>

\* The run waits for all four, failed or not, and goes on if none failed.
Join(r) ==
    /\ pc[r] = "evaluating" /\ inFlight[r] = {}
    /\ pc' = [pc EXCEPT ![r] = IF replies[r].failed THEN "error" ELSE "plan_research"]
    /\ UNCHANGED <<call, number, replies, inFlight, projects, documentStore, results>>

-----------------------------------------------------------------------------
(* Research, results and report.                                           *)

\* Every assumption is a task of the plan; there is no plan without one.
PlanResearch(r) ==
    /\ pc[r] = "plan_research" /\ replies[r].assumptions
    /\ Insert("research_plan", r)
    /\ Answered(r, "research")
    /\ UNCHANGED <<call, number, replies, inFlight, projects, documentStore,
                   evaluated, summary, report>>

ExecuteResearch(r) ==
    /\ pc[r] = "research"
    /\ Insert("research_report", r)
    /\ Answered(r, "record")
    /\ UNCHANGED <<call, number, replies, inFlight, projects, documentStore,
                   evaluated, summary, report>>

AfterFinding_Last(status, severity) ==
    IF severity \in {"high", "blocking"} THEN "not_satisfied" ELSE "partially_satisfied"

\* The status of an evaluation, one finding after the other.
AfterFinding(status, severity) ==
    IF severity \in {"high", "blocking"} THEN "not_satisfied"
    ELSE IF status = "satisfied" THEN "partially_satisfied" ELSE status

\* An evaluation that is not back has no status.
StatusOf(found) ==
    IF found = None THEN "unspecified" ELSE FoldLeft(AfterFinding, "satisfied", found)

\* An area with an evaluation has its status, selected by the plan or not; the
\* others have not been looked at.
AreaStatus(r, a) ==
    IF a \in Core THEN StatusOf(evaluated[r][a])
    ELSE IF a \in replies[r].selected THEN "unverified" ELSE "not_applicable"

AreaStatuses(r) == [a \in Area |-> AreaStatus(r, a)]

With(status, statuses) == {a \in DOMAIN status : status[a] \in statuses}

Summarize(status) ==
    [results  |-> status,
     defects  |-> With(status, {"partially_satisfied", "not_satisfied"}),
     scored   |-> With(status, {"satisfied", "partially_satisfied", "not_satisfied",
                                "unverified"}),
     excluded |-> With(status, {"not_applicable"})]

RecordValidationResults(r) ==
    /\ pc[r] = "record" /\ \A a \in Area : AreaStatus(r, a) \in Status
    /\ summary' = [summary EXCEPT ![r] = Summarize(AreaStatuses(r))]
    /\ Answered(r, "report")
    /\ UNCHANGED <<call, number, replies, inFlight, projects, documentStore, rows,
                   evaluated, report>>

CreateReport(r) ==
    /\ pc[r] = "report"
    /\ report' = [report EXCEPT ![r] = [version |-> VersionOf(r), areas |-> AreaStatuses(r),
                                        findings |-> evaluated[r]]]
    /\ Answered(r, "done")
    /\ UNCHANGED <<call, number, replies, inFlight, projects, documentStore, rows,
                   evaluated, summary>>

Fail_CleansUp(r) ==
    /\ Running(r) /\ MayFail(r)
    /\ pc' = [pc EXCEPT ![r] = "error"]
    /\ locked' = Unlocked(r)
    /\ blobs' = blobs \ {call[r].original}
    /\ UNCHANGED <<call, number, replies, inFlight, projects, versions, elements,
                   requirements, results>>

Fail_KeepsLock(r) ==
    /\ Running(r) /\ MayFail(r)
    /\ pc' = [pc EXCEPT ![r] = "error"]
    /\ UNCHANGED <<call, number, replies, inFlight, projects, documentStore, results>>

Fail_AfterAnswer(r) ==
    /\ pc[r] # "error" /\ MayFail(r)
    /\ pc' = [pc EXCEPT ![r] = "error"]
    /\ locked' = Unlocked(r)
    /\ UNCHANGED <<call, number, replies, inFlight, projects, blobs, versions,
                   elements, requirements, results>>

\* A call fails without having stored anything, as every service can and has
\* to when what the LLM returns is invalid, or the gateway dies between two.
Fail(r) ==
    /\ Running(r) /\ MayFail(r)
    /\ pc' = [pc EXCEPT ![r] = "error"]
    /\ locked' = Unlocked(r)
    /\ UNCHANGED <<call, number, replies, inFlight, projects, blobs, versions,
                   elements, requirements, results>>

Next == \E r \in Run :
    \/ CreateProject(r) \/ PutOriginal(r) \/ NumberVersion(r) \/ InsertVersion(r)
    \/ AnalyzeDocumentVersion(r) \/ AnalyzeRequirements(r)
    \/ IdentifyAssumptionsAndRisks(r) \/ CreateValidationPlan(r)
    \/ \E p \in Part : Evaluate(r, p) \/ EvaluationFails(r, p)
    \/ Join(r) \/ PlanResearch(r) \/ ExecuteResearch(r)
    \/ RecordValidationResults(r) \/ CreateReport(r) \/ Fail(r)

Spec == Init /\ [][Next]_vars

-----------------------------------------------------------------------------
(* Properties.                                                             *)

\* Every variable has its type.
TypeOK ==
    /\ call \in [Run -> Calls]
    /\ pc \in [Run -> Chain \cup Outcome]
    /\ number \in [Run -> Nat]
    /\ replies \in [Run -> [elements : SUBSET ElementType, requirements : BOOLEAN,
                            assumptions : BOOLEAN, selected : Selections \cup {{}},
                            failed : BOOLEAN]]
    /\ inFlight \in [Run -> SUBSET Part]
    /\ projects \subseteq Run
    /\ blobs \subseteq Original
    /\ DOMAIN versions = DocumentId
    /\ \A d \in DocumentId :
           versions[d] \in Seq([original : Original, by : Run \cup {None}])
    /\ locked \in [Document -> Run \cup {None}]
    /\ elements \subseteq [version : DocumentId \X Nat, by : Run, item : ElementType]
    /\ requirements \subseteq [version : DocumentId \X Nat, by : Run, item : {"requirement"}]
    /\ rows \subseteq Table \X Run
    /\ \A r \in Run, p \in Part : evaluated[r][p] \in Answers[p] \cup {None}
    /\ summary \in [Run -> Summary \cup {None}]
    /\ report \in [Run -> Report \cup {None}]

\* A run about to insert a version holds a number that is still the next one:
\* two revisions of a document at a time never conflict on the primary key,
\* and its versions have no gaps.
NumbersFree ==
    \A r \in Run : pc[r] = "insert" => number[r] = NextNumber(DocumentOf(r))

\* The row of a document is locked only by a run between the two statements,
\* so a run that fails cannot keep later revisions waiting.
RowsUnlocked ==
    \A d \in Document : locked[d] # None =>
        pc[locked[d]] = "insert" /\ call[locked[d]].document = d

\* The analysis of a version comes from the run that added it and no other,
\* though each analysis replaces what is there for its version.
OwnRows ==
    \A row \in elements \cup requirements :
        LET version == versions[row.version[1]] IN
        /\ row.version[2] \in DOMAIN version
        /\ version[row.version[2]].by = row.by

\* The original of every version can be read back, whatever became of the
\* other runs that were given the same file.
VersionsReadable ==
    \A d \in DocumentId : \A n \in DOMAIN versions[d] : versions[d][n].original \in blobs

\* Concurrent and broken-off runs keep the versions of a document and what
\* was read out of them in order (AddVersion, ReplaceElements, the document
\* service).
VersionsSound == NumbersFree /\ RowsUnlocked /\ OwnRows /\ VersionsReadable

\* A report is about a version of the run's own file with its elements, a
\* purpose, requirements and assumptions among them, all four evaluations, a
\* research and a summary of the results.
ReportsComplete ==
    \A r \in Run : report[r] # None =>
        LET version == report[r].version
            Items(table) == {row.item : row \in {t \in table : t.version = version}} IN
        /\ versions[version[1]][version[2]] = [original |-> call[r].original, by |-> r]
        /\ "purpose" \in Items(elements) /\ Items(requirements) # {}
        /\ Table \X {r} \subseteq rows /\ replies[r].assumptions
        /\ \A p \in Part : report[r].findings[p] # None
        /\ summary[r] # None /\ summary[r].results = report[r].areas

\* What a report rests on stays as it was when the report was made.
FoundationsFixed ==
    [][\A r \in Run : report[r] # None =>
          /\ evaluated'[r] = evaluated[r] /\ summary'[r] = summary[r]
          /\ \A row \in (elements \cup requirements \cup elements' \cup requirements') :
                row.version = report[r].version =>
                    /\ row \in elements <=> row \in elements'
                    /\ row \in requirements <=> row \in requirements']_vars

IsDefect(found) == \E i \in DOMAIN found : found[i] \in {"high", "blocking"}

\* An area counts as a defect exactly if its evaluation found something, is
\* not satisfied exactly if one finding, in whatever place, is high or
\* blocking, and nothing found is hidden by an area the plan left out.
DefectsCounted ==
    \A r \in Run : summary[r] # None =>
        /\ summary[r].defects = {a \in Core : evaluated[r][a] # <<>>}
        /\ \A a \in Core :
              summary[r].results[a] = "not_satisfied" <=> IsDefect(evaluated[r][a])
        /\ summary[r].excluded = Area \ summary[r].scored
        /\ summary[r].excluded = OtherArea \ replies[r].selected

\* The run is the handler of EvaluationHandler.
Handler == INSTANCE EvaluationHandler WITH
    stored <- {r \in Run : report[r] # None},
    answer <- [r \in Run |-> IF pc[r] = "done" THEN "report"
                             ELSE IF pc[r] = "error" THEN "error" ELSE "none"]

ImplementsHandler == Handler!Spec
=============================================================================
