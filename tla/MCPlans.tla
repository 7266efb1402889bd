------------------------------ MODULE MCPlans ------------------------------
(* Instances of Plans for TLC. *)
EXTENDS Plans

Ask(context, facts, selected, reasoned) ==
    [context |-> context, facts |-> facts, selected |-> selected, reasoned |-> reasoned]

\* With facts of the user's own; with too many alternatives, one of them without
\* a reason, and nothing known.
SomePlanRequests == {Ask("open", {TRUE}, 1, TRUE), Ask("complete", {}, 2, FALSE)}
=============================================================================
