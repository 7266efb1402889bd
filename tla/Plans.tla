-------------------------------- MODULE Plans --------------------------------
(***************************************************************************)
(* Plans that are generated from an idea, and product designs that are     *)
(* generated for a plan.  Calls of several users go through the gateway to *)
(* the generation service, which asks a language model, has the plan       *)
(* evaluated, and builds and tests the screens of a design, one design at  *)
(* a time.  A plan is kept under a hash of its idea and a design under the *)
(* id of its plan: whoever saves last is in the store.                     *)
(***************************************************************************)
EXTENDS Naturals

CONSTANTS
    Users,           \* users, each with one call at a time
    Ids,             \* ids of plans: of the ideas, by stableID
    PlanRequests,    \* requests for a plan: what is said of the idea
    DesignRequests,  \* requests for a design: are they well formed
    None, Error      \* nothing; an answer that is an error

Kinds == {"build", "render", "interaction", "accessibility", "responsive"}

\* The facts are known by their Verified, with evidence; the alternatives by
\* how many are selected and whether each has its reason.  facts, selected,
\* reasoned, decoded and evaluation are what the verdict is about.
Plan == [owner : Users, facts : SUBSET BOOLEAN, selected : 0..2, reasoned : BOOLEAN,
         decoded : BOOLEAN, evaluation : SUBSET {"blocking", "other", "not evaluated"},
         findings : SUBSET {"fact", "alternative", "output", "evaluation"},
         blockers : SUBSET {"fact", "research-missing", "alternative-selection",
                            "output", "evaluation"},
         verdict : {"executable", "rewrite_required", "not_executable"}]

Design == [owner : Users, ran : BOOLEAN, passed : SUBSET Kinds, executable : BOOLEAN]

ASSUME Constants ==
    /\ PlanRequests \subseteq [context : {"complete", "open", "missing"},
                               facts : SUBSET BOOLEAN, selected : 0..2,
                               reasoned : BOOLEAN]
    /\ DesignRequests \subseteq BOOLEAN
    /\ None \notin Users \cup Plan \cup Design
    /\ Error \notin {None} \cup Users

VARIABLES
    at,        \* where the call of each user is
    id,        \* the id of the plan it is about
    asked,     \* what it asks for
    attempts,  \* answers of the language model that could not be decoded
    draft,     \* the plan or design it has made
    reply,     \* whose plan or design it answers with
    plans, designs, \* the stores of the generation service
    slot       \* the call that runs the validator

vars == <<at, id, asked, attempts, draft, reply, plans, designs, slot>>
stores == <<plans, designs, slot>>

Init ==
    /\ at = [u \in Users |-> "idle"]
    /\ id \in [Users -> Ids]
    /\ asked = [u \in Users |-> None]
    /\ attempts = [u \in Users |-> 0]
    /\ draft = [u \in Users |-> None]
    /\ reply = [u \in Users |-> None]
    /\ plans = [i \in Ids |-> None]
    /\ designs = [i \in Ids |-> None]
    /\ slot = None

Goto(u, l) == at' = [at EXCEPT ![u] = l]

\* The call answers with something of the user s, or an error.
Answer(u, s) ==
    /\ Goto(u, "answered")
    /\ reply' = [reply EXCEPT ![u] = s]
    /\ draft' = [draft EXCEPT ![u] = None]

\* The user is done with the answer and may call again.
Leave(u) ==
    /\ at[u] = "answered"
    /\ Goto(u, "idle")
    /\ id' \in {[id EXCEPT ![u] = i] : i \in Ids}
    /\ reply' = [reply EXCEPT ![u] = None]
    /\ UNCHANGED <<asked, attempts, draft, stores>>

-----------------------------------------------------------------------------
(* generateAutonomousPlan.                                                 *)

\* The owner is the caller, whatever the request says.
RequestPlan(u) ==
    /\ at[u] = "idle"
    /\ \E r \in PlanRequests :
        /\ asked' = [asked EXCEPT ![u] = r]
        /\ Goto(u, IF r.facts = {} THEN "research" ELSE "prompt")
    /\ UNCHANGED <<id, attempts, draft, reply, stores>>

\* A request without facts has the idea researched; what the research service
\* finds is at most partially verified.
ResearchIdea(u) ==
    /\ at[u] = "research"
    /\ \/ Answer(u, Error) /\ asked' = [asked EXCEPT ![u] = None]
       \/ /\ asked' = [asked EXCEPT ![u].facts = {FALSE}]
          /\ Goto(u, "prompt")
          /\ UNCHANGED <<reply, draft>>
    /\ UNCHANGED <<id, attempts, stores>>

MaxAttempts == 2

\* What can be made of an answer of the model: is there a JSON object in it,
\* and does it, or the part that was read, name the purpose and the user.
Answers == [decoded : BOOLEAN, aims : BOOLEAN]

AsksAgain_Once(u) == attempts[u] < MaxAttempts

AsksAgain(u) == attempts[u] + 1 < MaxAttempts

\* An answer fills in the purpose and the user of an open context; one that
\* cannot be decoded may have filled in some of it already.
Prompt(u) ==
    /\ at[u] = "prompt"
    /\ \/ /\ Answer(u, Error)
          /\ asked' = [asked EXCEPT ![u] = None]
          /\ attempts' = [attempts EXCEPT ![u] = 0]
       \/ \E a \in Answers :
            /\ asked' = [asked EXCEPT ![u].context =
                             IF @ = "open" /\ a.aims THEN "complete" ELSE @]
            /\ attempts' = [attempts EXCEPT ![u] = IF a.decoded THEN @ ELSE @ + 1]
            /\ Goto(u, IF ~a.decoded /\ AsksAgain(u) THEN "prompt" ELSE "compose")
            /\ UNCHANGED <<reply, draft>>
    /\ UNCHANGED <<id, stores>>

selfVerdict(findings, blockers) ==
    IF blockers # {} THEN "not_executable"
    ELSE IF findings # {} THEN "rewrite_required"
    ELSE "executable"

MergeSelfEvaluation_OldVerdict(p, finding, severities) ==
    [p EXCEPT !.findings = @ \cup (IF severities = {} THEN {} ELSE {finding}),
              !.blockers = @ \cup (IF "blocking" \in severities THEN {finding} ELSE {})]

\* MergeSelfEvaluation: new findings, the blocking ones as blockers.
MergeSelfEvaluation(p, finding, severities) ==
    LET findings == p.findings \cup (IF severities = {} THEN {} ELSE {finding})
        blockers == p.blockers \cup (IF "blocking" \in severities THEN {finding} ELSE {})
    IN  [p EXCEPT !.findings = findings, !.blockers = blockers,
                  !.verdict = selfVerdict(findings, blockers)]

\* planning.Generate, for a request that is complete.
Generated(owner, r, decoded) ==
    LET findings == (IF FALSE \in r.facts THEN {"fact"} ELSE {})
                    \cup (IF r.reasoned THEN {} ELSE {"alternative"})
        blockers == (IF FALSE \in r.facts THEN {"fact"} ELSE {})
                    \cup (IF r.facts = {} THEN {"research-missing"} ELSE {})
                    \cup (IF r.selected = 1 THEN {} ELSE {"alternative-selection"})
    IN  [owner |-> owner, facts |-> r.facts, selected |-> r.selected,
         reasoned |-> r.reasoned, decoded |-> decoded, evaluation |-> {"not evaluated"},
         findings |-> findings, blockers |-> blockers,
         verdict |-> selfVerdict(findings, blockers)]

MissingQuestions(r) == r.context # "complete"

\* Questions that are still open end the call.  An answer of the model that
\* could not be decoded is a finding.
ComposePlan(u) ==
    /\ at[u] = "compose"
    /\ \/ /\ MissingQuestions(asked[u])
          /\ Answer(u, Error)
       \/ /\ ~MissingQuestions(asked[u])
          /\ LET decoded == attempts[u] < MaxAttempts
                 plan == Generated(u, asked[u], decoded)
             IN  draft' = [draft EXCEPT ![u] =
                     IF decoded THEN plan ELSE MergeSelfEvaluation(plan, "output", {"blocking"})]
          /\ Goto(u, "evaluate")
          /\ UNCHANGED reply
    /\ asked' = [asked EXCEPT ![u] = None]
    /\ attempts' = [attempts EXCEPT ![u] = 0]
    /\ UNCHANGED <<id, stores>>

\* evaluateGeneratedPlan: two evaluations, neither of which may fail.
EvaluatePlan(u) ==
    /\ at[u] = "evaluate"
    /\ \/ Answer(u, Error)
       \/ /\ \E severities \in {{}, {"other"}, {"blocking", "other"}} :
                draft' = [draft EXCEPT ![u] =
                    [MergeSelfEvaluation(@, "evaluation", severities)
                         EXCEPT !.evaluation = severities]]
          /\ Goto(u, "save")
          /\ UNCHANGED reply
    /\ UNCHANGED <<id, asked, attempts, stores>>

\* An insert, or an update if the id is taken.
Upsert(store, i, value) == [store EXCEPT ![i] = value]

SavePlan(u) ==
    /\ at[u] = "save"
    /\ \/ Answer(u, Error) /\ UNCHANGED plans
       \/ /\ plans' = Upsert(plans, id[u], draft[u])
          /\ Answer(u, draft[u].owner)
    /\ UNCHANGED <<id, asked, attempts, designs, slot>>

Own_Any(u, stored) == stored # None

\* A plan of somebody else is not found.
Own(u, stored) == stored # None /\ stored.owner = u

GetPlan(u) ==
    /\ at[u] = "idle"
    /\ \/ Answer(u, Error)
       \/ Own(u, plans[id[u]]) /\ Answer(u, plans[id[u]].owner)
    /\ UNCHANGED <<id, asked, attempts, stores>>

-----------------------------------------------------------------------------
(* generateProductDesign.                                                  *)

\* design.Generate: the screens it writes pass their own checks, and what the
\* request claims of validations decides for now.
Preflight(u, claimed) ==
    [owner |-> u, ran |-> FALSE, passed |-> {}, executable |-> claimed]

\* The plan must be the caller's when the request comes.  The request may
\* bring validations of its own, passed or not.
RequestDesign(u) ==
    /\ at[u] = "idle"
    /\ \/ Answer(u, Error)
       \/ /\ Own(u, plans[id[u]])
          /\ \E wellFormed \in DesignRequests, claimed \in BOOLEAN :
               \/ ~wellFormed /\ Answer(u, Error)
               \/ /\ wellFormed
                  /\ draft' = [draft EXCEPT ![u] = Preflight(u, claimed)]
                  /\ Goto(u, "wait")
                  /\ UNCHANGED reply
    /\ UNCHANGED <<id, asked, attempts, stores>>

ReplaceExecutionValidations_Added(d, passed) ==
    [d EXCEPT !.passed = passed, !.executable = (@ \/ passed = Kinds)]

\* ReplaceExecutionValidations: the results of the run are all that counts.
ReplaceExecutionValidations(d, passed) ==
    [d EXCEPT !.passed = passed, !.executable = (passed = Kinds)]

\* One design at a time is built and tested.
EnterSlot(u) ==
    /\ at[u] = "wait" /\ slot = None
    /\ slot' = u
    /\ draft' = [draft EXCEPT ![u].ran = TRUE]
    /\ Goto(u, "validate")
    /\ UNCHANGED <<id, asked, attempts, reply, plans, designs>>

\* A request that is cancelled while it waits has failed every validation, and
\* its design cannot be saved any more.
CancelWait(u) ==
    /\ at[u] = "wait"
    /\ Answer(u, Error)
    /\ UNCHANGED <<id, asked, attempts, stores>>

EndRun_SlotIfPassed(u, passed) ==
    /\ at[u] = "validate"
    /\ draft' = [draft EXCEPT ![u] = ReplaceExecutionValidations(@, passed)]
    /\ slot' = IF passed = {} THEN slot ELSE None
    /\ Goto(u, "saveDesign")
    /\ UNCHANGED <<id, asked, attempts, reply, plans, designs>>

\* A run gives the slot back and leaves the kinds that have passed.
EndRun(u, passed) ==
    /\ at[u] = "validate"
    /\ draft' = [draft EXCEPT ![u] = ReplaceExecutionValidations(@, passed)]
    /\ slot' = None
    /\ Goto(u, "saveDesign")
    /\ UNCHANGED <<id, asked, attempts, reply, plans, designs>>

\* There is no workspace, or the files do not fit into one; then a command
\* fails or is ended after executionTimeout.
ScaffoldFails(u) == EndRun(u, {})
BuildFails(u) == EndRun(u, {})
BrowserFails(u) == EndRun(u, {"build"})
RunPasses(u) == EndRun(u, Kinds)

SaveDesign(u) ==
    /\ at[u] = "saveDesign"
    /\ \/ Answer(u, Error) /\ UNCHANGED designs
       \/ /\ designs' = Upsert(designs, id[u], draft[u])
          /\ Answer(u, draft[u].owner)
    /\ UNCHANGED <<id, asked, attempts, plans, slot>>

GetDesign(u) ==
    /\ at[u] = "idle"
    /\ \/ Answer(u, Error)
       \/ Own(u, designs[id[u]]) /\ Answer(u, designs[id[u]].owner)
    /\ UNCHANGED <<id, asked, attempts, stores>>

-----------------------------------------------------------------------------
Handle(u) ==
    \/ ResearchIdea(u) \/ Prompt(u) \/ ComposePlan(u) \/ EvaluatePlan(u) \/ SavePlan(u)
    \/ EnterSlot(u) \/ CancelWait(u) \/ ScaffoldFails(u) \/ BuildFails(u)
    \/ BrowserFails(u) \/ RunPasses(u) \/ SaveDesign(u)

Request(u) == RequestPlan(u) \/ GetPlan(u) \/ RequestDesign(u) \/ GetDesign(u)

Next == \E u \in Users : Request(u) \/ Handle(u) \/ Leave(u)

\* A service answers or its call fails, and a command of the validator ends
\* within executionTimeout.  The slot goes to those who wait for it in turn;
\* nobody has to cancel.
Fairness ==
    \A u \in Users :
        /\ WF_vars(\/ ResearchIdea(u) \/ Prompt(u) \/ ComposePlan(u) \/ EvaluatePlan(u)
                   \/ SavePlan(u) \/ BuildFails(u) \/ BrowserFails(u) \/ RunPasses(u)
                   \/ SaveDesign(u))
        /\ SF_vars(EnterSlot(u))

Spec == Init /\ [][Next]_vars /\ Fairness

-----------------------------------------------------------------------------
(* Properties.                                                             *)

\* Every variable has its type.
TypeOK ==
    /\ at \in [Users -> {"idle", "research", "prompt", "compose", "evaluate", "save",
                         "wait", "validate", "saveDesign", "answered"}]
    /\ id \in [Users -> Ids]
    /\ asked \in [Users -> {None} \cup [context : {"complete", "open", "missing"},
                                        facts : SUBSET BOOLEAN, selected : 0..2,
                                        reasoned : BOOLEAN]]
    /\ attempts \in [Users -> 0..MaxAttempts]
    /\ draft \in [Users -> {None} \cup Plan \cup Design]
    /\ reply \in [Users -> {None, Error} \cup Users]
    /\ plans \in [Ids -> {None} \cup Plan]
    /\ designs \in [Ids -> {None} \cup Design]
    /\ slot \in {None} \cup Users

\* A plan in the store has been evaluated.  It is executable only if every
\* fact is verified, one alternative is chosen and all have their reasons, the
\* model's answer could be read and the evaluation found nothing; and each
\* thing that blocks it, wherever it was met, has made it not executable and
\* is among its blockers (docs/06-requirements.md, PLN-003 and PLN-004).
PlanEarned(p) ==
    /\ p.evaluation \subseteq {"blocking", "other"}
    /\ p.verdict = "executable" <=>
           p.facts = {TRUE} /\ p.selected = 1 /\ p.reasoned /\ p.decoded /\ p.evaluation = {}
    /\ p.verdict = "not_executable" <=> p.blockers # {}
    /\ p.facts # {TRUE} \/ p.selected # 1 \/ ~p.decoded \/ "blocking" \in p.evaluation
           <=> p.blockers # {}
    /\ "blocking" \in p.evaluation <=> "evaluation" \in p.blockers

\* A design in the store is executable exactly if it was itself built and
\* tested and passed every kind of validation, whatever its request claims.
DesignEarned(d) == d.executable <=> d.ran /\ d.passed = Kinds

ExecutableIsEarned ==
    \A i \in Ids :
        /\ plans[i] # None => PlanEarned(plans[i])
        /\ designs[i] # None => DesignEarned(designs[i])

\* Two ideas, or one idea of two users, can have the same id, and the second
\* plan takes the place of the first, also while a design is made for it.  No
\* user is ever given the plan or the design of another.
OwnAnswers ==
    \A u \in Users :
        reply[u] \notin {None, Error} => reply[u] = u

\* Every call is answered: no call that fails, waits or is cancelled keeps
\* the validator from the others.
EveryCallAnswers ==
    \A u \in Users : at[u] # "idle" ~> at[u] = "answered"
=============================================================================
