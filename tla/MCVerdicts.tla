----------------------------- MODULE MCVerdicts -----------------------------
(* Instances of Verdicts for TLC. *)
EXTENDS Verdicts, TLC

\* One detection for every branch of the rules: blocking in the report and high,
\* both without a place in the document, blocking for the evaluation but medium
\* in the report, and work quality, medium and low, with a place and without.
Found(area, level, confidence, located) ==
    [area |-> area, severity |-> level, confidence |-> confidence,
     located |-> located]

Detections ==
    {Found("purpose", "blocking", 90, FALSE),
     Found("consistency", "high", 60, FALSE),
     Found("completeness", "blocking", 10, TRUE),
     Found("work_quality", "medium", 90, TRUE),
     Found("work_quality", "low", 20, TRUE),
     Found("work_quality", "low", 90, FALSE)}

Symmetry == Permutations(Objector) \cup Permutations(Reviser)
                \cup Permutations(Problem)
=============================================================================
