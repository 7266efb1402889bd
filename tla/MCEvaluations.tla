--------------------------- MODULE MCEvaluations ---------------------------
(* Instances of Evaluations for TLC. *)
EXTENDS Evaluations, TLC

CONSTANTS d1, o1, o2

\* A revision of a document, and a first document with the same file.
RevisionCalls ==
    {[original |-> o2, document |-> d1, project |-> TRUE],
     [original |-> o2, document |-> None, project |-> FALSE]}

\* Nothing, and a finding that is worse than the one after it.
SomeAnswers == [p \in Part |->
    CASE p = "purpose" -> {<<>>, <<"high", "low">>}
      [] p = "consistency" -> {<<"low">>}
      [] OTHER -> {<<"medium">>}]

\* Elements with and without the purpose of the plan.
SomeAnalyses == {{"other"}, {"purpose"}}

\* A selection without an area that has an evaluation, and one of all areas.
SomeSelections == {{"completeness"}, Area}

Symmetry == Permutations(Run)
=============================================================================
