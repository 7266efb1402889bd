------------------------------- MODULE Requests -------------------------------
(***************************************************************************)
(* The handlers that compute their answer from the request alone: each     *)
(* takes one of the inputs it can be given, a language model's answer      *)
(* among them, and the properties compare what it answers with what it     *)
(* promises.                                                               *)
(***************************************************************************)
EXTENDS Comparison, ValidationPolicy, Improvement, QualityGate, ResearchPlan

CONSTANTS
    Reports, Versions, Orders, \* reports, pairs of versions, orders of a map
    PlanRequests, PlanAnswers, \* requests for a validation plan, answers to them
    Blocks, Findings,          \* blocks of a document, findings by their kind
    Defects, Plans, Claims,    \* findings of a report, plans to improve, claims
    CaseLists, Minima,         \* golden cases, the minima they must reach
    Assumptions, Limits        \* what is to be researched, within which limits

\* What can be sent: texts are texts, sizes are numbers, and where the program
\* gives the parts of a request their ids, each has its own.  An order of a map
\* walks all of it, no place twice.
ASSUME Inputs ==
    /\ Versions \subseteq Nat \X Nat
    /\ \A r \in Reports :
          /\ r.findings \in Seq(ToSet(r.findings))
          /\ \A i \in DOMAIN r.findings : r.findings[i].content.words \in Seq(Nat)
          /\ \A k \in DOMAIN r.summary : r.summary[k].words \in Seq(Nat)
    /\ \A o \in Orders : \A i \in {1, 2} :
          /\ o[i] \in Seq(ToSet(o[i])) /\ IsInjective(o[i])
          /\ \A r \in Reports : DOMAIN r.summary \subseteq ToSet(o[i])
    /\ \A r \in Reports, v \in Versions, o \in Orders, i \in {1, 2} :
          NoItem \notin ToSet(reportVersionItems(r, v[i], o[i]))
    /\ \A r \in PlanRequests : IsFiniteSet(r.drivers) /\ \A d \in r.drivers : d.id \in STRING
    /\ PlanAnswers \subseteq Seq(PlanItem)
    /\ DOMAIN Findings \subseteq {"alignment", "contradiction", "gap", "quality"}
    /\ \A kind \in DOMAIN Findings : Findings[kind] \subseteq Seq(Finding)
    /\ \A d \in Defects : d \in Seq(ToSet(d)) /\ \A i \in DOMAIN d : d[i].id \in STRING
    /\ Plans \subseteq Seq(Section)
    /\ \A c \in Claims :
          /\ c \in Seq(ToSet(c))
          /\ \A i \in DOMAIN c : c[i].id \in STRING /\ c[i].evidence \in SUBSET STRING
    /\ CaseLists \subseteq Seq(Case)
    /\ Minima \subseteq [Metrics -> Nat] \cup {NoMinima}
    /\ \A a \in Assumptions :
          /\ a \in Seq(ToSet(a))
          /\ \A i \in DOMAIN a : a[i].kinds \in Seq(STRING) /\ a[i].likelihood \in Nat
          /\ \A i, j \in DOMAIN a : a[i].id = a[j].id => i = j
    /\ Limits \subseteq [DOMAIN Defaults -> Nat]

VARIABLES request, answer
exchange == <<request, answer>>

Idle == [handler |-> "none"]
Unanswered == [outcome |-> "none"]
Free == request = Idle /\ answer = Unanswered

Handle(r, a) == request' = r /\ answer' = a

CompareVersions ==
    /\ request = Idle
    /\ \E p, c \in Reports, v \in Versions, order \in Orders :
           LET previous == reportVersionItems(p, v[1], order[1])
               current  == reportVersionItems(c, v[2], order[2])
           IN  Handle([handler |-> "compare", reports |-> <<p, c>>, previous |-> previous,
                       current |-> current],
                      Compare(v[1], v[2], previous, current))

PlanValidation ==
    /\ request = Idle
    /\ \E r \in PlanRequests, a \in PlanAnswers :
           Handle([handler |-> "plan", plan |-> r, given |-> a], CreateValidationPlan(r, a))

KeepFindings ==
    /\ request = Idle
    /\ \E kind \in DOMAIN Findings :
           \E f \in Findings[kind] :
               Handle([handler |-> "findings", kind |-> kind, given |-> f],
                      Accept(kind, f, Blocks))

ImproveExistingPlan ==
    /\ request = Idle
    /\ \E d \in Defects, p \in Plans, c \in Claims :
           Handle([handler |-> "improve", given |-> d, original |-> p, claims |-> c],
                  improveExistingPlan(d, p, c))

RecordQuality ==
    /\ request = Idle
    /\ \E cases \in CaseLists, m \in Minima, b \in {"none", "missing", "stored"} :
           Handle([handler |-> "quality", cases |-> cases, minima |-> m],
                  RecordQualityRun(cases, m, b))

PlanResearch ==
    /\ request = Idle
    /\ \E a \in Assumptions, l \in Limits :
           Handle([handler |-> "research", given |-> a, limit |-> l], BuildPlan(a, l))

\* The caller has its answer.
Leave == request # Idle /\ request' = Idle /\ answer' = Unanswered

Serve == \/ CompareVersions \/ PlanValidation \/ KeepFindings \/ ImproveExistingPlan
         \/ RecordQuality \/ PlanResearch \/ Leave
Service == Free /\ [][Serve]_exchange

-----------------------------------------------------------------------------
Answered(handler, outcome) == request.handler = handler /\ answer.outcome = outcome

\* What a comparison of the items of two reports must tell.
Compared(reports, previous, current, result) ==
    LET changes == result.changes
        of(item) == {i \in DOMAIN changes : changes[i].previous = item}
    IN  /\ DOMAIN current \subseteq DOMAIN changes
        /\ \A i \in DOMAIN changes :
            changes[i].current = IF i \in DOMAIN current THEN current[i] ELSE NoItem
        /\ \A p \in ToSet(previous) :
            /\ Cardinality(of(p)) = 1
            /\ \A c \in ToSet(current) :
                c.id = p.id => \E i \in of(p) : changes[i].current = c
            /\ \/ p.related \subseteq result.affectedFindings
               \/ \E i \in of(p) : changes[i].kind \in Preserved
        /\ reports[1] = reports[2] => result.affectedAreas = {} /\ result.researchFirst = {}

(* Compare with the items of two reports: every item of the later one has  *)
(* one change, in its order, before those of what is removed, and every    *)
(* item of the earlier one is the former state of exactly one change; the  *)
(* parts of the summary are compared with their own former state; an       *)
(* earlier finding goes on with its meaning or is evaluated again; and a   *)
(* report that is compared with one that says the same has nothing         *)
(* evaluated again.                                                        *)
ComparisonSound ==
    Answered("compare", "compared") =>
        Compared(request.reports, request.previous, request.current, answer)

\* The language model did what it was asked for: every area once, with a
\* reason and a depth that fits.
WellFormedPlan(items) ==
    /\ Len(items) = Cardinality(Areas)
    /\ {items[i].area : i \in DOMAIN items} = Areas
    /\ \A i \in DOMAIN items :
        /\ items[i].reason
        /\ IF items[i].selected THEN items[i].depth \in Depths ELSE items[i].depth = "none"

(* The policy of CreateValidationPlan makes up for everything the language *)
(* model may leave out: a well-formed plan is never refused, whatever      *)
(* drivers it names; and in every plan that is answered the required areas *)
(* are selected, every serious driver is named, no unknown one is, and     *)
(* what is not selected has no depth.                                      *)
PolicySufficient ==
    request.handler = "plan" =>
        /\ request.plan.purposeGiven /\ WellFormedPlan(request.given)
               => answer.outcome = "planned"
        /\ answer.outcome = "planned" =>
            LET items == answer.items
                known == UNION {ToSet(items[i].drivers) : i \in DOMAIN items}
            IN  /\ WellFormedPlan(items)
                /\ \A i \in DOMAIN items :
                    items[i].area \in RequiredAreas(request.plan) => items[i].selected
                /\ RequiredDrivers(request.plan) \subseteq known
                /\ known \subseteq Drivers(request.plan)

(* Findings are kept only if they can be traced to the document.  One on   *)
(* alignment says that something is missing or cites blocks that were      *)
(* sent, never both; where that fails it is turned into an open question   *)
(* and never counts as serious.  Everything else cites blocks that were    *)
(* sent, a gap too, which says beside them that something is missing; the  *)
(* answer is refused as a whole where that fails.  Nothing is added or     *)
(* dropped, and what is kept says what was found.                          *)
FindingsTraceable ==
    request.handler = "findings" =>
        LET given == request.given
            kept  == answer.findings
            kind  == request.kind
            traced(f) ==
                /\ ToSet(f.cites) \subseteq Blocks
                /\ IF kind = "alignment" THEN f.absence <=> f.cites = <<>>
                   ELSE f.cites # <<>> /\ (f.absence <=> kind = "gap")
        IN  /\ answer.outcome = "kept" =>
                /\ DOMAIN kept = DOMAIN given
                /\ \A i \in DOMAIN kept :
                    /\ traced(kept[i])
                    /\ \/ kept[i] = [given[i] EXCEPT !.absence = kept[i].absence]
                       \/ kind = "alignment" /\ kept[i].severity \notin {"high", "blocking"}
                    /\ kind = "contradiction" => Cardinality(ToSet(kept[i].cites)) > 1
            /\ answer.outcome = "internal" => kind # "alignment"
            /\ kind = "alignment" /\ (\A i \in DOMAIN given : traced(given[i])
                    /\ WellFormed("alignment", given[i])) => kept = given

(* What the language model answers reaches a plan or a report only sound:  *)
(* PolicySufficient and FindingsTraceable.                                 *)
ValidationSound == PolicySufficient /\ FindingsTraceable

\* The text that change i, of section s, must have found: that of the last
\* change of the section before it, or the original one.
TextBefore(original, changes, s, i) ==
    LET earlier == {j \in DOMAIN changes : j < i /\ changes[j].section = s}
    IN  IF earlier = {} THEN original[s].content ELSE changes[Max(earlier)].after

Improved(given, original, claims, result) ==
    LET changes == result.changes
        ids     == {f.id : f \in ToSet(given)}
        severe(id) == \E f \in ToSet(given) : f.id = id /\ f.severity = "blocking"
    IN  /\ Len(changes) + Len(result.unresolved) = Cardinality(ids)
        /\ \A id \in ids :
            /\ (\E c \in ToSet(claims) :
                   c.verified /\ c.evidence # {} /\ c.text /\ id \in c.findings)
                  <=> \E i \in DOMAIN changes : changes[i].finding = id
            /\ id \in ToSet(result.unresolved)
                  <=> \A i \in DOMAIN changes : changes[i].finding # id
        /\ \A i, j \in DOMAIN changes :
            i < j /\ severe(changes[j].finding) => severe(changes[i].finding)
        /\ \A i \in DOMAIN changes :
            LET s == changes[i].section
            IN  /\ changes[i].before = TextBefore(original, changes, s, i)
                /\ changes[i].finding \in result.sections[s].findings
        /\ \A s \in DOMAIN original :
            /\ result.sections[s].content
                  = TextBefore(original, changes, s, Len(changes) + 1)
            /\ (\A i \in DOMAIN changes : changes[i].section # s)
                  => result.sections[s] = original[s]

(* Improve: every finding is resolved by one change or stays unresolved,   *)
(* and it is resolved if and only if a verified claim with evidence is     *)
(* about it; the changes of a section follow on one another from its       *)
(* original to its final text; a section without a change stays as it      *)
(* was; blocking findings come first.                                      *)
ImprovementSound ==
    Answered("improve", "improved") =>
        Improved(request.given, request.original, request.claims, answer)

(* The release gate of a quality run opens only if every metric was        *)
(* measured at least once and reaches a minimum above zero, over cases of  *)
(* all required categories; whether there is a baseline never opens it.    *)
GateSound ==
    Answered("quality", "recorded") =>
        LET minima == IF request.minima = NoMinima THEN DefaultThresholds ELSE request.minima
            sum(m, what) == FoldLeft(LAMBDA n, c : n + c[what][m], 0, request.cases)
        IN  /\ answer.passed <=>
                \A m \in Metrics :
                    /\ minima[m] > 0 /\ sum(m, "checks") > 0
                    /\ 100 * sum(m, "good") >= minima[m] * sum(m, "checks")
            /\ Len(request.cases) >= 10
            /\ \A k \in RequiredCategories : \E i \in DOMAIN request.cases :
                request.cases[i].category = k

Planned(given, tasks, limit) ==
    LET place(id) == CHOOSE i \in DOMAIN given : given[i].id = id
        count(id) == Cardinality({i \in DOMAIN tasks : tasks[i].assumption = id})
        kinds(a)  == ToSet(a.kinds) \ {""}
    IN  /\ \A f \in DOMAIN limit : limit[f] > 0
        /\ \A a \in ToSet(given) :
            count(a.id) = IF kinds(a) = {} THEN 1 ELSE Cardinality(kinds(a))
        /\ \A i, j \in DOMAIN tasks : i < j =>
            \/ tasks[i].priority > tasks[j].priority
            \/ /\ tasks[i].priority = tasks[j].priority
               /\ place(tasks[i].assumption) <= place(tasks[j].assumption)
        /\ \A i \in DOMAIN tasks :
            (tasks[i].depth = "deep") <=> given[place(tasks[i].assumption)].likelihood >= 700

(* BuildPlan: every kind of dependency of every assumption has one task,   *)
(* an assumption without any has one all the same; tasks come by priority  *)
(* and, with the same priority, in the order of the assumptions; what is   *)
(* likely to block is looked at deeply; and every limit is above zero.     *)
ResearchPlanned ==
    Answered("research", "planned") => Planned(request.given, answer.tasks, answer.limit)
=============================================================================
