----------------------------- MODULE PlansProofs -----------------------------
(***************************************************************************)
(* Proofs about Plans, for any users, ids and requests: what the stores    *)
(* and the calls under way hold is well typed, what is executable has      *)
(* earned it, and every answer is the user's own.                          *)
(***************************************************************************)
EXTENDS Plans, TLAPS

Asked == [context : {"complete", "open", "missing"}, facts : SUBSET BOOLEAN,
          selected : 0..2, reasoned : BOOLEAN]
Severities == {{}, {"other"}, {"blocking", "other"}}

\* A plan that is not evaluated yet.
Composed(p) ==
    /\ p.evaluation = {"not evaluated"}
    /\ p.verdict = selfVerdict(p.findings, p.blockers)
    /\ p.blockers # {} <=> p.facts # {TRUE} \/ p.selected # 1 \/ p.decoded = FALSE
    /\ p.blockers = {} => (p.findings = {} <=> p.reasoned = TRUE)
    /\ "evaluation" \notin p.blockers

-----------------------------------------------------------------------------
(* The verdict of a plan.                                                  *)

\* planning.Generate, and the finding for an answer that could not be decoded
\* (ComposePlan).
LEMMA ComposedPlan ==
    ASSUME NEW u \in Users, NEW r \in Asked, NEW decoded \in BOOLEAN
    PROVE  LET plan == Generated(u, r, decoded)
               made == IF decoded THEN plan ELSE MergeSelfEvaluation(plan, "output", {"blocking"})
           IN  made \in Plan /\ made.owner = u /\ Composed(made)
  <1> DEFINE plan == Generated(u, r, decoded)
             made == IF decoded THEN plan
                     ELSE MergeSelfEvaluation(plan, "output", {"blocking"})
  <1>1. plan \in Plan /\ plan.owner = u
    BY DEF Generated, Plan, Asked, selfVerdict
  <1>2. /\ plan.evaluation = {"not evaluated"} /\ plan.decoded = decoded
        /\ plan.facts = r.facts /\ plan.selected = r.selected /\ plan.reasoned = r.reasoned
        /\ plan.verdict = selfVerdict(plan.findings, plan.blockers)
        /\ plan.blockers # {} <=> r.facts # {TRUE} \/ r.selected # 1
        /\ plan.blockers = {} => (plan.findings = {} <=> r.reasoned = TRUE)
        /\ "evaluation" \notin plan.blockers
    <2> DEFINE findings == (IF FALSE \in r.facts THEN {"fact"} ELSE {})
                           \cup (IF r.reasoned THEN {} ELSE {"alternative"})
               blockers == (IF FALSE \in r.facts THEN {"fact"} ELSE {})
                           \cup (IF r.facts = {} THEN {"research-missing"} ELSE {})
                           \cup (IF r.selected = 1 THEN {} ELSE {"alternative-selection"})
    <2>1. /\ plan.evaluation = {"not evaluated"} /\ plan.decoded = decoded
          /\ plan.facts = r.facts /\ plan.selected = r.selected /\ plan.reasoned = r.reasoned
          /\ plan.findings = findings /\ plan.blockers = blockers
          /\ plan.verdict = selfVerdict(findings, blockers)
      BY DEF Generated
    <2>2. r.facts # {TRUE} <=> FALSE \in r.facts \/ r.facts = {}
      BY DEF Asked
    <2>3. r.reasoned \in BOOLEAN
      BY DEF Asked
    <2>4. blockers # {} <=> r.facts # {TRUE} \/ r.selected # 1
      BY <2>2
    <2>5. blockers = {} => (findings = {} <=> r.reasoned = TRUE)
      BY <2>2, <2>3
    <2>6. "evaluation" \notin blockers
      OBVIOUS
    <2> HIDE DEF findings, blockers, plan
    <2> QED
      BY <2>1, <2>4, <2>5, <2>6
  <1>3. CASE decoded = TRUE
    <2>1. made = plan
      BY <1>3
    <2>2. plan.decoded # FALSE
      BY <1>2, <1>3
    <2>3. Composed(plan)
      BY <1>2, <2>2 DEF Composed
    <2> QED
      BY <1>1, <2>1, <2>3
  <1>4. CASE decoded = FALSE
    <2>1. /\ made.blockers = plan.blockers \cup {"output"}
          /\ made.findings = plan.findings \cup {"output"}
          /\ made.verdict = selfVerdict(made.findings, made.blockers)
          /\ made.owner = plan.owner /\ made.evaluation = plan.evaluation
          /\ made.facts = plan.facts /\ made.selected = plan.selected
          /\ made.reasoned = plan.reasoned /\ made.decoded = plan.decoded
      BY <1>1, <1>4 DEF MergeSelfEvaluation, Plan
    <2>2. made \in Plan
      <3>1. made = [plan EXCEPT !.findings = made.findings, !.blockers = made.blockers,
                                !.verdict = made.verdict]
        BY <1>1, <1>4, <2>1 DEF MergeSelfEvaluation, Plan
      <3>2. made.verdict \in {"executable", "rewrite_required", "not_executable"}
        BY <2>1 DEF selfVerdict
      <3>3. /\ made.findings \in SUBSET {"fact", "alternative", "output", "evaluation"}
            /\ made.blockers \in SUBSET {"fact", "research-missing", "alternative-selection",
                                         "output", "evaluation"}
        BY <1>1, <2>1 DEF Plan
      <3> HIDE DEF made, plan
      <3> QED
        BY <1>1, <3>1, <3>2, <3>3 DEF Plan
    <2>3. Composed(made)
      BY <1>2, <1>4, <2>1 DEF Composed
    <2> QED
      BY <1>1, <2>1, <2>2, <2>3
  <1> QED
    BY <1>3, <1>4

\* MergeSelfEvaluation with the findings of the evaluation (EvaluatePlan).
LEMMA EvaluatedPlan ==
    ASSUME NEW p \in Plan, Composed(p), NEW s \in Severities
    PROVE  LET made == [MergeSelfEvaluation(p, "evaluation", s) EXCEPT !.evaluation = s]
           IN  made \in Plan /\ made.owner = p.owner /\ PlanEarned(made)
  <1> DEFINE findings == p.findings \cup (IF s = {} THEN {} ELSE {"evaluation"})
             blockers == p.blockers \cup (IF "blocking" \in s THEN {"evaluation"} ELSE {})
             made == [MergeSelfEvaluation(p, "evaluation", s) EXCEPT !.evaluation = s]
  <1>1. made = [p EXCEPT !.findings = findings, !.blockers = blockers,
                         !.verdict = selfVerdict(findings, blockers), !.evaluation = s]
    BY DEF MergeSelfEvaluation, Plan
  <1>2. made \in Plan /\ made.owner = p.owner
    <2>1. selfVerdict(findings, blockers) \in {"executable", "rewrite_required", "not_executable"}
      BY DEF selfVerdict
    <2>2. s \in SUBSET {"blocking", "other", "not evaluated"}
      BY DEF Severities
    <2>3. /\ findings \in SUBSET {"fact", "alternative", "output", "evaluation"}
          /\ blockers \in SUBSET {"fact", "research-missing", "alternative-selection",
                                  "output", "evaluation"}
      BY DEF Plan
    <2> HIDE DEF findings, blockers
    <2> QED
      BY <1>1, <2>1, <2>2, <2>3 DEF Plan
  <1>3. /\ made.evaluation = s /\ made.blockers = blockers /\ made.findings = findings
        /\ made.verdict = selfVerdict(findings, blockers)
        /\ made.facts = p.facts /\ made.selected = p.selected
        /\ made.reasoned = p.reasoned /\ made.decoded = p.decoded
    BY <1>1 DEF Plan
  <1>4. s \subseteq {"blocking", "other"} /\ ("blocking" \in s => s # {})
    BY DEF Severities
  <1>5. PlanEarned(made)
    <2>1. blockers # {} <=> p.facts # {TRUE} \/ p.selected # 1 \/ p.decoded = FALSE
                            \/ "blocking" \in s
      BY DEF Composed
    <2>2. blockers = {} => (findings = {} <=> p.reasoned = TRUE /\ s = {})
      BY DEF Composed
    <2>3. "evaluation" \in blockers <=> "blocking" \in s
      BY DEF Composed
    <2>4. p.decoded \in BOOLEAN /\ p.reasoned \in BOOLEAN
      BY DEF Plan
    <2>5. made.verdict = "not_executable" <=> blockers # {}
      BY <1>3 DEF selfVerdict
    <2>6. made.verdict = "executable" <=> blockers = {} /\ findings = {}
      BY <1>3 DEF selfVerdict
    <2> HIDE DEF findings, blockers, made
    <2> QED
      BY <1>3, <1>4, <2>1, <2>2, <2>3, <2>4, <2>5, <2>6 DEF PlanEarned
  <1> QED
    BY <1>2, <1>5

-----------------------------------------------------------------------------
(* The calls under way.                                                    *)

\* What a call has made is its user's own and, when it is about to be saved,
\* has earned its verdict.
DraftsMade == \A u \in Users :
    /\ at[u] = "evaluate" => draft[u] \in Plan /\ draft[u].owner = u /\ Composed(draft[u])
    /\ at[u] = "save" => draft[u] \in Plan /\ draft[u].owner = u /\ PlanEarned(draft[u])
    /\ at[u] = "wait" => draft[u] \in Design /\ draft[u].owner = u
    /\ at[u] = "validate" =>
           draft[u] \in Design /\ draft[u].owner = u /\ draft[u].ran = TRUE
    /\ at[u] = "saveDesign" =>
           draft[u] \in Design /\ draft[u].owner = u /\ DesignEarned(draft[u])

\* A call that composes a plan has its request, and counts the answers that
\* could not be decoded up to the last it may ask for.
RequestsRead == \A u \in Users :
    /\ at[u] \in {"research", "prompt", "compose"} => asked[u] \in Asked
    /\ at[u] = "prompt" => attempts[u] < MaxAttempts
    /\ at[u] \notin {"prompt", "compose"} => attempts[u] = 0

IInv == TypeOK /\ DraftsMade /\ RequestsRead /\ ExecutableIsEarned /\ OwnAnswers

LEMMA InitIInv == Init => IInv
  BY Constants DEF Init, IInv, TypeOK, DraftsMade, RequestsRead, ExecutableIsEarned, OwnAnswers,
     MaxAttempts, Asked

\* The end of a call keeps the invariant, if what it answers with is the
\* user's own.
LEMMA AnswerIInv ==
    ASSUME IInv, NEW u \in Users, NEW s \in {u, Error}, Answer(u, s), TypeOK',
           ExecutableIsEarned', attempts'[u] = 0,
           \A v \in Users \ {u} : asked'[v] = asked[v] /\ attempts'[v] = attempts[v]
    PROVE  IInv'
  <1> USE DEF IInv, Answer, Goto
  <1>2. DraftsMade'
    BY DEF TypeOK, DraftsMade
  <1>3. RequestsRead'
    BY DEF TypeOK, RequestsRead, MaxAttempts
  <1>4. OwnAnswers'
    BY DEF TypeOK, OwnAnswers
  <1> QED
    BY <1>2, <1>3, <1>4

\* A call that goes on from one place to the next.
LEMMA MoveIInv ==
    ASSUME IInv, NEW u \in Users, NEW l \in {"research", "prompt", "compose", "evaluate", "save",
                                          "wait", "validate", "saveDesign"},
           Goto(u, l), UNCHANGED <<id, reply, plans, designs>>, TypeOK',
           \A v \in Users \ {u} : /\ draft'[v] = draft[v] /\ asked'[v] = asked[v]
                                 /\ attempts'[v] = attempts[v],
           l \in {"research", "prompt", "compose"} => asked'[u] \in Asked,
           l = "prompt" => attempts'[u] < MaxAttempts,
           l \notin {"prompt", "compose"} => attempts'[u] = 0,
           l \in {"evaluate", "save"} =>
               /\ draft'[u] \in Plan /\ draft'[u].owner = u
               /\ IF l = "evaluate" THEN Composed(draft'[u]) ELSE PlanEarned(draft'[u]),
           l \in {"wait", "validate", "saveDesign"} =>
               /\ draft'[u] \in Design /\ draft'[u].owner = u
               /\ l = "validate" => draft'[u].ran = TRUE
               /\ l = "saveDesign" => DesignEarned(draft'[u])
    PROVE  IInv'
  <1> USE DEF IInv, Goto
  <1>0. \A v \in Users : at'[v] = IF v = u THEN l ELSE at[v]
    BY DEF TypeOK
  <1>1. DraftsMade'
    BY <1>0 DEF DraftsMade
  <1>2. RequestsRead'
    BY <1>0 DEF RequestsRead
  <1>3. OwnAnswers' /\ ExecutableIsEarned'
    BY DEF OwnAnswers, ExecutableIsEarned
  <1> QED
    BY <1>1, <1>2, <1>3
LEMMA NextIInv == IInv /\ [Next]_vars => IInv'
  <1> SUFFICES ASSUME IInv, [Next]_vars PROVE IInv'
    OBVIOUS
  <1> USE DEF stores
  <1>1. TypeOK /\ DraftsMade /\ RequestsRead /\ ExecutableIsEarned /\ OwnAnswers
    BY DEF IInv
  <1>2. CASE UNCHANGED vars
    BY <1>1, <1>2 DEF vars, IInv, TypeOK, DraftsMade, RequestsRead, ExecutableIsEarned, OwnAnswers
  <1>3. ASSUME NEW u \in Users, Leave(u) PROVE IInv'
    <2>1. TypeOK'
      BY <1>1, <1>3 DEF Leave, Goto, TypeOK
    <2>2. DraftsMade' /\ RequestsRead' /\ ExecutableIsEarned' /\ OwnAnswers'
      BY <1>1, <1>3 DEF Leave, Goto, TypeOK, DraftsMade, RequestsRead, ExecutableIsEarned,
         OwnAnswers
    <2> QED
      BY <2>1, <2>2 DEF IInv
  <1>4. ASSUME NEW u \in Users, RequestPlan(u) PROVE IInv'
    <2>1. PICK r \in PlanRequests :
              /\ asked' = [asked EXCEPT ![u] = r]
              /\ Goto(u, IF r.facts = {} THEN "research" ELSE "prompt")
      BY <1>4 DEF RequestPlan
    <2>2. r \in Asked /\ attempts[u] = 0
      BY <1>1, <1>4, Constants DEF RequestPlan, RequestsRead, Asked
    <2>3. TypeOK'
      BY <1>1, <1>4, <2>1, <2>2 DEF RequestPlan, Goto, TypeOK, Asked
    <2>4. asked'[u] = r /\ \A v \in Users \ {u} : asked'[v] = asked[v]
      BY <1>1, <2>1 DEF TypeOK
    <2>5. /\ attempts'[u] = 0 /\ attempts'[u] < MaxAttempts
          /\ UNCHANGED <<draft, attempts, id, reply, plans, designs>>
      BY <1>4, <2>2 DEF RequestPlan, MaxAttempts
    <2>6. PICK l \in {"research", "prompt"} : Goto(u, l)
      BY <2>1
    <2> QED
      BY <1>1, <2>2, <2>3, <2>4, <2>5, <2>6, MoveIInv DEF IInv
  <1>5. ASSUME NEW u \in Users, ResearchIdea(u) PROVE IInv'
    <2>1. asked[u] \in Asked /\ attempts[u] = 0
      BY <1>1, <1>5 DEF ResearchIdea, RequestsRead
    <2>2. CASE Answer(u, Error) /\ asked' = [asked EXCEPT ![u] = None]
      <3>1. TypeOK' /\ ExecutableIsEarned'
        BY <1>1, <1>5, <2>2 DEF ResearchIdea, Answer, Goto, TypeOK, ExecutableIsEarned
      <3>2. \A v \in Users \ {u} : asked'[v] = asked[v] /\ attempts'[v] = attempts[v]
        BY <1>1, <1>5, <2>2 DEF ResearchIdea, TypeOK
      <3> QED
        BY <1>1, <1>5, <2>1, <2>2, <3>1, <3>2, AnswerIInv DEF ResearchIdea, IInv
    <2>3. CASE asked' = [asked EXCEPT ![u].facts = {FALSE}] /\ Goto(u, "prompt")
               /\ UNCHANGED <<reply, draft>>
      <3>1. asked'[u] \in Asked /\ \A v \in Users \ {u} : asked'[v] = asked[v]
        BY <1>1, <2>1, <2>3 DEF TypeOK, Asked
      <3>2. TypeOK'
        BY <1>1, <1>5, <2>3, <3>1 DEF ResearchIdea, Goto, TypeOK, Asked
      <3>3. /\ attempts'[u] = 0 /\ attempts'[u] < MaxAttempts
            /\ UNCHANGED <<attempts, id, plans, designs>>
        BY <1>5, <2>1 DEF ResearchIdea, MaxAttempts
      <3> QED
        BY <1>1, <2>3, <3>1, <3>2, <3>3, MoveIInv DEF IInv
    <2> QED
      BY <1>5, <2>2, <2>3 DEF ResearchIdea
  <1>6. ASSUME NEW u \in Users, Prompt(u) PROVE IInv'
    <2>1. asked[u] \in Asked /\ attempts[u] < MaxAttempts
      BY <1>1, <1>6 DEF Prompt, RequestsRead
    <2>2. CASE /\ Answer(u, Error)
               /\ asked' = [asked EXCEPT ![u] = None]
               /\ attempts' = [attempts EXCEPT ![u] = 0]
      <3>1. TypeOK' /\ ExecutableIsEarned'
        BY <1>1, <1>6, <2>2 DEF Prompt, Answer, Goto, TypeOK, ExecutableIsEarned, MaxAttempts
      <3>2. /\ attempts'[u] = 0
            /\ \A v \in Users \ {u} : asked'[v] = asked[v] /\ attempts'[v] = attempts[v]
        BY <1>1, <2>2 DEF TypeOK
      <3> QED
        BY <1>1, <2>2, <3>1, <3>2, AnswerIInv DEF IInv
    <2>3. ASSUME NEW a \in Answers,
                 asked' = [asked EXCEPT ![u].context =
                             IF @ = "open" /\ a.aims THEN "complete" ELSE @],
                 attempts' = [attempts EXCEPT ![u] = IF a.decoded THEN @ ELSE @ + 1],
                 Goto(u, IF ~a.decoded /\ AsksAgain(u) THEN "prompt" ELSE "compose"),
                 UNCHANGED <<reply, draft>>
          PROVE  IInv'
      <3>1. asked'[u] \in Asked /\ \A v \in Users \ {u} : asked'[v] = asked[v]
        BY <1>1, <2>1, <2>3 DEF TypeOK, Asked
      <3>2. /\ attempts[u] \in 0..1 /\ attempts'[u] \in 0..MaxAttempts
            /\ ~a.decoded /\ AsksAgain(u) => attempts'[u] < MaxAttempts
            /\ \A v \in Users \ {u} : attempts'[v] = attempts[v]
        BY <1>1, <2>1, <2>3 DEF TypeOK, MaxAttempts, AsksAgain
      <3>3. asked' \in [Users -> {None} \cup Asked] /\ attempts' \in [Users -> 0..MaxAttempts]
        BY <1>1, <2>3, <3>1, <3>2 DEF TypeOK, Asked
      <3>4. TypeOK'
        BY <1>1, <1>6, <2>3, <3>3 DEF Prompt, Goto, TypeOK, Asked
      <3> QED
        BY <1>1, <1>6, <2>3, <3>1, <3>2, <3>4, MoveIInv DEF Prompt, IInv
    <2> QED
      BY <1>6, <2>2, <2>3 DEF Prompt
  <1>7. ASSUME NEW u \in Users, ComposePlan(u) PROVE IInv'
    <2>1. asked[u] \in Asked
      BY <1>1, <1>7 DEF ComposePlan, RequestsRead
    <2>2. /\ attempts'[u] = 0
          /\ \A v \in Users \ {u} : asked'[v] = asked[v] /\ attempts'[v] = attempts[v]
      BY <1>1, <1>7 DEF ComposePlan, TypeOK
    <2>3. CASE MissingQuestions(asked[u]) /\ Answer(u, Error)
      <3>1. TypeOK' /\ ExecutableIsEarned'
        BY <1>1, <1>7, <2>3 DEF ComposePlan, Answer, Goto, TypeOK, ExecutableIsEarned, MaxAttempts
      <3> QED
        BY <1>1, <2>2, <2>3, <3>1, AnswerIInv DEF IInv
    <2>4. CASE ~MissingQuestions(asked[u])
      <3> DEFINE decoded == attempts[u] < MaxAttempts
                 plan == Generated(u, asked[u], decoded)
                 made == IF decoded THEN plan
                         ELSE MergeSelfEvaluation(plan, "output", {"blocking"})
      <3>1. made \in Plan /\ made.owner = u /\ Composed(made)
        <4>1. decoded \in BOOLEAN
          OBVIOUS
        <4> HIDE DEF decoded
        <4> QED
          BY <2>1, <4>1, ComposedPlan
      <3>2. CASE /\ draft' = [draft EXCEPT ![u] = made]
                 /\ Goto(u, "evaluate")
                 /\ UNCHANGED reply
        <4> HIDE DEF made
        <4>1. draft'[u] = made /\ \A v \in Users \ {u} : draft'[v] = draft[v]
          BY <1>1, <3>2 DEF TypeOK
        <4>2. TypeOK'
          BY <1>1, <1>7, <3>1, <3>2 DEF ComposePlan, Goto, TypeOK, MaxAttempts
        <4> QED
          BY <1>1, <1>7, <2>2, <3>1, <3>2, <4>1, <4>2, MoveIInv DEF ComposePlan, IInv
      <3> QED
        BY <1>7, <2>4, <3>2 DEF ComposePlan
    <2> QED
      BY <1>7, <2>3, <2>4 DEF ComposePlan
  <1>8. ASSUME NEW u \in Users, EvaluatePlan(u) PROVE IInv'
    <2>1. draft[u] \in Plan /\ draft[u].owner = u /\ Composed(draft[u]) /\ attempts[u] = 0
      BY <1>1, <1>8 DEF EvaluatePlan, DraftsMade, RequestsRead
    <2>2. CASE Answer(u, Error)
      <3>1. TypeOK' /\ ExecutableIsEarned'
        BY <1>1, <1>8, <2>2 DEF EvaluatePlan, Answer, Goto, TypeOK, ExecutableIsEarned
      <3> QED
        BY <1>1, <1>8, <2>1, <2>2, <3>1, AnswerIInv DEF EvaluatePlan, IInv
    <2>3. ASSUME NEW severities \in Severities,
                 draft' = [draft EXCEPT ![u] =
                    [MergeSelfEvaluation(@, "evaluation", severities)
                         EXCEPT !.evaluation = severities]],
                 Goto(u, "save"), UNCHANGED reply
          PROVE  IInv'
      <3> DEFINE made == [MergeSelfEvaluation(draft[u], "evaluation", severities)
                              EXCEPT !.evaluation = severities]
      <3>1. made \in Plan /\ made.owner = u /\ PlanEarned(made)
        BY <2>1, EvaluatedPlan
      <3>2. draft' = [draft EXCEPT ![u] = made]
        BY <2>3
      <3> HIDE DEF made
      <3>3. draft'[u] = made /\ \A v \in Users \ {u} : draft'[v] = draft[v]
        BY <1>1, <3>2 DEF TypeOK
      <3>4. TypeOK'
        BY <1>1, <1>8, <2>3, <3>1, <3>2 DEF EvaluatePlan, Goto, TypeOK
      <3> QED
        BY <1>1, <1>8, <2>1, <2>3, <3>1, <3>3, <3>4, MoveIInv DEF EvaluatePlan, IInv
    <2> QED
      BY <1>8, <2>2, <2>3 DEF EvaluatePlan, Severities
  <1>9. ASSUME NEW u \in Users, SavePlan(u) PROVE IInv'
    <2>1. draft[u] \in Plan /\ draft[u].owner = u /\ PlanEarned(draft[u]) /\ attempts[u] = 0
      BY <1>1, <1>9 DEF SavePlan, DraftsMade, RequestsRead
    <2>2. PICK s \in {u, Error} : Answer(u, s)
      BY <1>9, <2>1 DEF SavePlan
    <2>3. plans' = plans \/ plans' = [plans EXCEPT ![id[u]] = draft[u]]
      BY <1>9 DEF SavePlan, Upsert
    <2>4. TypeOK'
      BY <1>1, <1>9, <2>1, <2>2, <2>3 DEF SavePlan, Answer, Goto, TypeOK
    <2>5. ExecutableIsEarned'
      BY <1>1, <1>9, <2>1, <2>3 DEF SavePlan, ExecutableIsEarned, TypeOK
    <2> QED
      BY <1>1, <1>9, <2>1, <2>2, <2>4, <2>5, AnswerIInv DEF SavePlan, IInv
  <1>10. ASSUME NEW u \in Users, GetPlan(u) \/ GetDesign(u) PROVE IInv'
    <2>1. attempts[u] = 0
      BY <1>1, <1>10 DEF GetPlan, GetDesign, RequestsRead
    <2>2. PICK s \in {u, Error} : Answer(u, s)
      BY <1>10 DEF GetPlan, GetDesign, Own
    <2>3. TypeOK' /\ ExecutableIsEarned'
      BY <1>1, <1>10, <2>2 DEF GetPlan, GetDesign, Answer, Goto, TypeOK, ExecutableIsEarned
    <2> QED
      BY <1>1, <1>10, <2>1, <2>2, <2>3, AnswerIInv DEF GetPlan, GetDesign, IInv
  <1>11. ASSUME NEW u \in Users, RequestDesign(u) PROVE IInv'
    <2>1. attempts[u] = 0
      BY <1>1, <1>11 DEF RequestDesign, RequestsRead
    <2>2. CASE Answer(u, Error)
      <3>1. TypeOK' /\ ExecutableIsEarned'
        BY <1>1, <1>11, <2>2 DEF RequestDesign, Answer, Goto, TypeOK, ExecutableIsEarned
      <3> QED
        BY <1>1, <1>11, <2>1, <2>2, <3>1, AnswerIInv DEF RequestDesign, IInv
    <2>3. ASSUME NEW claimed \in BOOLEAN, draft' = [draft EXCEPT ![u] = Preflight(u, claimed)],
                 Goto(u, "wait"), UNCHANGED reply
          PROVE  IInv'
      <3>1. Preflight(u, claimed) \in Design /\ Preflight(u, claimed).owner = u
        BY DEF Preflight, Design
      <3>2. draft'[u] = Preflight(u, claimed) /\ \A v \in Users \ {u} : draft'[v] = draft[v]
        BY <1>1, <2>3 DEF TypeOK
      <3>3. TypeOK'
        BY <1>1, <1>11, <2>3, <3>1 DEF RequestDesign, Goto, TypeOK
      <3> QED
        BY <1>1, <1>11, <2>1, <2>3, <3>1, <3>2, <3>3, MoveIInv DEF RequestDesign, IInv
    <2> QED
      BY <1>11, <2>2, <2>3 DEF RequestDesign
  <1>12. ASSUME NEW u \in Users, EnterSlot(u) PROVE IInv'
    <2>1. draft[u] \in Design /\ draft[u].owner = u /\ attempts[u] = 0
      BY <1>1, <1>12 DEF EnterSlot, DraftsMade, RequestsRead
    <2>2. /\ draft'[u] \in Design /\ draft'[u].owner = u /\ draft'[u].ran = TRUE
          /\ \A v \in Users \ {u} : draft'[v] = draft[v]
      BY <1>1, <1>12, <2>1 DEF EnterSlot, TypeOK, Design
    <2>3. TypeOK'
      BY <1>1, <1>12, <2>2 DEF EnterSlot, Goto, TypeOK
    <2> QED
      BY <1>1, <1>12, <2>1, <2>2, <2>3, MoveIInv DEF EnterSlot, IInv
  <1>13. ASSUME NEW u \in Users, CancelWait(u) PROVE IInv'
    <2>1. attempts[u] = 0 /\ TypeOK' /\ ExecutableIsEarned'
      BY <1>1, <1>13 DEF CancelWait, Answer, Goto, TypeOK, ExecutableIsEarned, RequestsRead
    <2> QED
      BY <1>1, <1>13, <2>1, AnswerIInv DEF CancelWait, IInv
  <1>14. ASSUME NEW u \in Users, NEW passed \in SUBSET Kinds, EndRun(u, passed) PROVE IInv'
    <2>1. draft[u] \in Design /\ draft[u].owner = u /\ draft[u].ran = TRUE /\ attempts[u] = 0
      BY <1>1, <1>14 DEF EndRun, DraftsMade, RequestsRead
    <2>2. draft'[u] = [draft[u] EXCEPT !.passed = passed, !.executable = (passed = Kinds)]
      BY <1>1, <1>14 DEF EndRun, ReplaceExecutionValidations, TypeOK
    <2>3. draft'[u] \in Design /\ draft'[u].owner = u /\ draft'[u].ran = TRUE
      BY <2>1, <2>2 DEF Design
    <2>4. DesignEarned(draft'[u])
      BY <2>1, <2>2 DEF Design, DesignEarned
    <2>5. \A v \in Users \ {u} : draft'[v] = draft[v]
      BY <1>1, <1>14 DEF EndRun, TypeOK
    <2>6. TypeOK'
      BY <1>1, <1>14, <2>3 DEF EndRun, Goto, TypeOK
    <2> QED
      BY <1>1, <1>14, <2>1, <2>3, <2>4, <2>5, <2>6, MoveIInv DEF EndRun, IInv
  <1>15. ASSUME NEW u \in Users, SaveDesign(u) PROVE IInv'
    <2>1. /\ draft[u] \in Design /\ draft[u].owner = u /\ DesignEarned(draft[u])
          /\ attempts[u] = 0
      BY <1>1, <1>15 DEF SaveDesign, DraftsMade, RequestsRead
    <2>2. PICK s \in {u, Error} : Answer(u, s)
      BY <1>15, <2>1 DEF SaveDesign
    <2>3. designs' = designs \/ designs' = [designs EXCEPT ![id[u]] = draft[u]]
      BY <1>15 DEF SaveDesign, Upsert
    <2>4. TypeOK'
      BY <1>1, <1>15, <2>1, <2>2, <2>3 DEF SaveDesign, Answer, Goto, TypeOK
    <2>5. ExecutableIsEarned'
      BY <1>1, <1>15, <2>1, <2>3 DEF SaveDesign, ExecutableIsEarned, TypeOK
    <2> QED
      BY <1>1, <1>15, <2>1, <2>2, <2>4, <2>5, AnswerIInv DEF SaveDesign, IInv
  <1>16. ASSUME NEW u \in Users, Handle(u) PROVE IInv'
    <2>1. {} \in SUBSET Kinds /\ {"build"} \in SUBSET Kinds /\ Kinds \in SUBSET Kinds
      BY DEF Kinds
    <2> QED
      BY <1>5, <1>6, <1>7, <1>8, <1>9, <1>12, <1>13, <1>14, <1>15, <1>16, <2>1
         DEF Handle, ScaffoldFails, BuildFails, BrowserFails, RunPasses
  <1> QED
    BY <1>2, <1>3, <1>4, <1>10, <1>11, <1>16 DEF Next, Request

LEMMA Invariant == Spec => []IInv
  BY InitIInv, NextIInv, PTL DEF Spec

-----------------------------------------------------------------------------
\* The calls, drafts and stores keep their types, whatever overlaps or fails.
THEOREM PlansTyped == Spec => []TypeOK
  <1>1. IInv => TypeOK
    BY DEF IInv
  <1> QED
    BY <1>1, Invariant, PTL

\* A plan or a design in the store has the verdict it has earned, however many
\* users save under one id (savePlan, saveDesign).
THEOREM ExecutableEarned == Spec => []ExecutableIsEarned
  <1>1. IInv => ExecutableIsEarned
    BY DEF IInv
  <1> QED
    BY <1>1, Invariant, PTL

\* No user is answered with what another user has saved under the same id
\* (getPlan, getDesign, savePlan, saveDesign).
THEOREM AnswersAreOwn == Spec => []OwnAnswers
  <1>1. IInv => OwnAnswers
    BY DEF IInv
  <1> QED
    BY <1>1, Invariant, PTL
=============================================================================
