----------------------------- MODULE Improvement -----------------------------
(***************************************************************************)
(* The tasks that are made of the findings of a report, and a plan that is *)
(* improved by them.  The text of a section is the sequence of what has    *)
(* been written into it; an action is known by the section titles it       *)
(* mentions and whether it asks for research.                              *)
(***************************************************************************)
EXTENDS Naturals, Sequences, SequencesExt, StableSort

Section == [title : STRING, content : Seq(STRING), findings : SUBSET STRING,
            evidence : SUBSET STRING]

\* Blocking tasks first, the others after them, each in the order of the findings.
BlockingFirst(tasks) ==
    Sorted(tasks, [i \in DOMAIN tasks |-> IF tasks[i].blocking THEN 1 ELSE 0])

Task(f) ==
    [finding |-> f.id, mentions |-> f.mentions, blocking |-> f.severity = "blocking",
     research |-> f.investigate]

\* The gateway gives every finding an action and a way to verify it; the
\* findings of one report have ids of their own.
BuildImprovementPlan(findings) ==
    LET tasks == [i \in DOMAIN findings |-> Task(findings[i])]
        ids   == [i \in DOMAIN findings |-> findings[i].id]
    IN  IF findings = <<>> \/ ~IsInjective(ids) THEN [outcome |-> "invalid"]
        ELSE [outcome |-> "planned", tasks |-> BlockingFirst(tasks)]

\* The first section whose title the action mentions, or else the first.
sectionForTask(sections, task) ==
    LET titled == SelectInSeq(sections, LAMBDA s : s.title \in task.mentions)
    IN  IF titled = 0 THEN 1 ELSE titled

\* A claim that can resolve a task: verified, with evidence, about its finding.
Grounds(claim, task) ==
    claim.verified /\ claim.evidence # {} /\ claim.text /\ task.finding \in claim.findings

\* The first claim that can, or 0.
claimFor(claims, task) == SelectInSeq(claims, LAMBDA c : Grounds(c, task))

Apply_Original(original, claims, acc, task) ==
    LET claim   == claimFor(claims, task)
        place   == sectionForTask(acc.sections, task)
        section == original[place]
        text    == Append(section.content, claims[claim].id)
        changed == [section EXCEPT !.content = text, !.findings = @ \cup {task.finding},
                                   !.evidence = @ \cup claims[claim].evidence]
    IN  IF claim = 0 THEN [acc EXCEPT !.unresolved = Append(@, task.finding)]
        ELSE [acc EXCEPT
                !.sections = [@ EXCEPT ![place] = changed],
                !.changes = Append(@, [section |-> place, finding |-> task.finding,
                                       before |-> section.content, after |-> text])]

\* One task: the first claim that grounds it is added to its section, or its
\* finding stays unresolved.
Apply(original, claims, acc, task) ==
    LET claim   == claimFor(claims, task)
        place   == sectionForTask(acc.sections, task)
        section == acc.sections[place]
        text    == Append(section.content, claims[claim].id)
        changed == [section EXCEPT !.content = text, !.findings = @ \cup {task.finding},
                                   !.evidence = @ \cup claims[claim].evidence]
    IN  IF claim = 0 THEN [acc EXCEPT !.unresolved = Append(@, task.finding)]
        ELSE [acc EXCEPT
                !.sections = [@ EXCEPT ![place] = changed],
                !.changes = Append(@, [section |-> place, finding |-> task.finding,
                                       before |-> section.content, after |-> text])]

Improve(original, tasks, claims) ==
    IF original = <<>> \/ tasks = <<>> THEN [outcome |-> "invalid"]
    ELSE FoldLeft(LAMBDA acc, t : Apply(original, claims, acc, t),
                  [outcome |-> "improved", sections |-> original, changes |-> <<>>,
                   unresolved |-> <<>>], tasks)

\* The gateway makes the tasks anew from the report, whatever the request says.
improveExistingPlan(findings, original, claims) ==
    LET plan == BuildImprovementPlan(findings)
    IN  IF plan.outcome = "invalid" THEN plan ELSE Improve(original, plan.tasks, claims)
=============================================================================
