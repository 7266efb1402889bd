----------------------------- MODULE QualityGate -----------------------------
(***************************************************************************)
(* Quality runs: the results of the golden cases are added up to five      *)
(* shares, and a release passes if each reaches its minimum.  A minimum is *)
(* a number of hundredths.                                                 *)
(***************************************************************************)
EXTENDS Naturals, Sequences, FiniteSets, SequencesExt

CONSTANT NoMinima    \* a request without thresholds

Metrics == {"blocking_recall", "finding_precision", "evidence_accuracy",
            "citation_accuracy", "verdict_consistency"}
RequiredCategories == {"normal", "partial", "not_executable", "before", "after"}

DefaultThresholds ==
    [m \in Metrics |-> CASE m = "finding_precision" -> 80
                         [] m \in {"blocking_recall", "verdict_consistency"} -> 90
                         [] OTHER -> 95]

\* A case has, for each metric, how many checks were made and how many came
\* out well; precision counts the findings that were reported.
Measurement == [Metrics -> Nat]
Case == [category : STRING, good : Measurement, checks : Measurement, exception : BOOLEAN]

ValidCase(c) ==
    /\ c.category # ""
    /\ \A m \in Metrics \ {"finding_precision"} : c.good[m] <= c.checks[m]

Sum(cases, part, m) == FoldLeft(LAMBDA n, c : n + c[part][m], 0, cases)

Totals(cases) ==
    [m \in Metrics |-> [good |-> Sum(cases, "good", m),
                        checks |-> Sum(cases, "checks", m)]]

Reached_Empty(total, minimum) == 100 * total.good >= minimum * total.checks

\* Of nothing checked the share is zero.
Reached(total, minimum) ==
    IF total.checks = 0 THEN minimum = 0
    ELSE 100 * total.good >= minimum * total.checks

\* baseline is what the store answers for the run to compare with: "none" if
\* there is no such run to compare with, "missing" if it is not there.
Evaluate(run, baseline) ==
    LET totals == Totals(run.cases)
        failed == {m \in Metrics : run.minima[m] = 0 \/ ~Reached(totals[m], run.minima[m])}
    IN  IF baseline = "missing" THEN [outcome |-> "not found"]
        ELSE IF \/ Len(run.cases) < 10
                \/ \E i \in DOMAIN run.cases : ~ValidCase(run.cases[i])
                \/ ~(RequiredCategories \subseteq
                       {run.cases[i].category : i \in DOMAIN run.cases})
             THEN [outcome |-> "invalid"]
             ELSE [outcome |-> "recorded", totals |-> totals, passed |-> failed = {},
                   failures |-> failed,
                   exceptions |-> {i \in DOMAIN run.cases : run.cases[i].exception},
                   compared |-> baseline # "none"]

\* Minima that are not given are the default ones.
RecordQualityRun(cases, minima, baseline) ==
    Evaluate([cases |-> cases,
              minima |-> IF minima = NoMinima THEN DefaultThresholds ELSE minima], baseline)
=============================================================================
