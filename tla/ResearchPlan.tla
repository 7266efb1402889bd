----------------------------- MODULE ResearchPlan -----------------------------
(***************************************************************************)
(* The plan of a research: one task for each kind of dependency of each    *)
(* assumption, the likeliest to block first.  A likelihood is a number of  *)
(* thousandths.                                                            *)
(***************************************************************************)
EXTENDS Naturals, Sequences, SequencesExt, StableSort

Defaults == [queries |-> 20, sources |-> 30, seconds |-> 300, saturation |-> 3]

\* A limit that is not given, 0, is the default one.
WithDefaults(limit) ==
    [f \in DOMAIN Defaults |-> IF limit[f] = 0 THEN Defaults[f] ELSE limit[f]]

\* The kinds that are named, each once; at least one.
named(kinds) ==
    FoldLeft(LAMBDA out, k : IF k = "" \/ k \in ToSet(out) THEN out ELSE Append(out, k),
             <<>>, kinds)
unique(kinds) == IF named(kinds) = <<>> THEN <<"general">> ELSE named(kinds)

Kinds == {"public_data", "api", "technology", "paper", "statistic", "quantitative_claim",
          "benchmark"}
normalized(kind) == IF kind \in Kinds THEN kind ELSE "general"

sourceTypes(kind) ==
    CASE kind = "public_data" -> <<"official_dataset", "license_terms">>
      [] kind \in {"api", "technology"} ->
             <<"official_documentation", "pricing", "terms", "deprecation_notice">>
      [] kind \in {"paper", "statistic", "quantitative_claim"} ->
             <<"original_paper_or_statistics", "independent_source">>
      [] kind = "benchmark" -> <<"official_service", "pricing", "independent_source">>
      [] OTHER -> <<"official_primary_source", "independent_source">>

\* The question is told by its assumption, and the queries by the question
\* and the kind: for the original, for prices and terms, for what speaks against it.
queries(assumption, kind) ==
    <<[about |-> assumption, for |-> "original"], [about |-> assumption, for |-> kind],
      [about |-> assumption, for |-> "contrary"]>>

TasksOf(a) ==
    LET kinds == unique(a.kinds)
    IN  [i \in DOMAIN kinds |->
            [assumption |-> a.id, sources |-> sourceTypes(kinds[i]), priority |-> a.likelihood,
             depth |-> IF a.likelihood >= 700 THEN "deep" ELSE "standard",
             kind |-> normalized(kinds[i]), queries |-> queries(a.id, normalized(kinds[i]))]]

ByPriority(tasks) == Sorted(tasks, [i \in DOMAIN tasks |-> tasks[i].priority])

Listed(assumptions) == FoldLeft(LAMBDA out, a : out \o TasksOf(a), <<>>, assumptions)

BuildPlan(assumptions, limit) ==
    IF \/ assumptions = <<>>
       \/ \E i \in DOMAIN assumptions :
            \/ assumptions[i].id = "" \/ ~assumptions[i].stated
            \/ assumptions[i].likelihood > 1000
    THEN [outcome |-> "invalid"]
    ELSE [outcome |-> "planned", tasks |-> ByPriority(Listed(assumptions)),
          limit |-> WithDefaults(limit)]
=============================================================================
