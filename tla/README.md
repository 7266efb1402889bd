# NoPlanner: specifications, model checks and proofs

NoPlanner evaluates planning documents. A user uploads a document; a chain of
services stores it, extracts its elements and requirements, identifies
assumptions, plans and does research on the web, evaluates the document in four
ways and writes a report with a verdict. The user may object to a finding or
submit a revised version, and every change of the verdict is recorded.

This directory holds TLA+ modules of the parts whose interleavings, crashes and
partial failures are hard to test, TLC instances that check them, and TLAPS
proofs of their main properties for every value of the constants. Paths below
are relative to `src/backend-msa` unless they begin with `docs/`.

1. The system · 2. Modules and code · 3. Runs and bounds · 4. Fairness ·
5. Proofs · 6. Where code and documentation differ · 7. What is not modelled ·
8. Plan

## 1. The system

Go services talk gRPC; the browser talks HTTP to the gateway. Redis holds the
job queue, PostgreSQL the rows of each service (a database per service), an
object store the uploaded files.

| component | state | operations that change it | hard behaviour | what makes it correct |
|---|---|---|---|---|
| **evaluation queue** (`gateway/modules/jobs`) | Redis: pending and processing lists, a record per job, idempotency keys; per worker: the job it runs | Enqueue, execute, Progress, recover | requests racing for one key; crash between any two Redis commands; several gateways; ignored Redis errors; expiry of keys | one job per key, answers only with the caller's job, no job lost or doubled, attempts bounded, every job settles |
| **gateway HTTP API** (`gateway/services/api`) | none of its own; chains of calls | enqueueEvaluation, processEvaluationJob, evaluate, submitObjection, reviseReport, plans, designs, integrations | no transaction over the calls of a chain: lost replies, failure in the middle, retries that repeat everything, four calls in parallel | a report rests on complete and settled rows; a chain that breaks off leaves nothing half recorded that is read as whole |
| **project service** (`project`) | projects, members with roles, row locks | Create, Update, UpdateOutputLanguage, SetMemberRole | READ COMMITTED transactions, stale reads, deadlocks | only owners change roles, a project keeps an owner |
| **document service** (`document`) | documents, versions, elements, requirements, originals | CreateDocument, AddDocumentVersion, AnalyzeDocumentVersion, AnalyzeRequirements | MAX+1 numbering, blob before row, DELETE+INSERT of rows | numbers without gaps or conflicts, originals readable, rows of one version from one run |
| **evaluation: assessments** (`evaluation/domains/assessment`, `services/assessment/service.go`) | analyses, validation plans, four kinds of evaluation, summaries, quality runs | one INSERT per call | results folded over findings in the order the LLM lists them; rows by runs that have already failed; a plan completed by several passes; shares of nothing | statuses reflect the worst finding, summaries add up; every serious driver is validated; a finding kept has a place; a gate opens only on evidence |
| **evaluation: revisions** (`evaluation/domains/revision`) | comparisons, objections, re-evaluations | CompareDocumentVersions, SubmitObjection, Reevaluate | a verdict computed by other code than the report's; items paired by id and then by similarity | the two rules agree, objections never harm, every item is in one change |
| **generation: reports** (`generation/domains/report`) | reports | CreateReport (Assemble) | thresholds, areas named by another service | the verdict follows the findings, reports are final |
| **research** (`research`) | research plans and reports | PlanResearch, ExecuteResearch, VerifySources | four limits checked at two places, failed searches and downloads | one result per task, its own evidence, limits kept, honest status |
| **user** (`user`) | login states, in memory | BeginGoogleLogin, CompleteGoogleLogin | a state is taken out before the code is exchanged, and expires; restarts | single use, in time |
| **generation: plans, designs** (`generation/domains/planning`, `domains/design`, `modules/uivalidator`) | plans and designs by an id derived from the idea, one slot for the browser | GenerateAutonomousPlan, GenerateProductDesign, reads | two owners with one id overwrite each other while calls are under way; one slot for all | verdicts that are earned, answers of one's own, the slot given back |
| **generation: implementation, integrations** (`services/report/implementation.go`, `domains/implementation`) | a history per project | AnalyzeRepository, CompareImplementation, CreateImplementationProposal, DeliverIntegration | check, external call, append, with errors dropped; a repository that moves on | repeated only for a known cause, records that are true, patches that were checked |
| **frontend session** (`frontend/app/src`) | a session store per tab over one local storage, requests under way | login, reload, requests, expiry | answers that arrive late, several 401 at a time, tabs that do not hear of each other | a late 401 ends no session before its end, a reload changes nothing |
| intelligence, LLM clients, parsers, web client, analyser, UI validator, observability, tools | none | one call each | none of their own | their answers are inputs of the models |

Interactions: the gateway enqueues into Redis and its worker goroutine calls
the HTTP handler `evaluate` in process; `evaluate` calls project, document,
evaluation, research and generation in order and keeps only their replies;
objections read a report (generation), review and record (evaluation);
revisions add a version (document), a report (generation), a comparison and a
re-evaluation (evaluation). A plan goes through research, the language model and
two evaluations before it is saved; a design reads a plan and runs it in a browser.
The browser brings the token the user service has issued, and the gateway
checks it. No service calls back.

`PROJECT.json` lists under `hazards` the points of this code that a test hardly
reaches, each with the properties that watch it, or why none does yet.

## 2. Modules and code

### JobQueue, and the abstract JobLifecycle

One action is one Redis round trip of a request (`Lookup`, `Claim`, `Reread`,
`Fetch`, `Publish`) or of a worker (`RecoverScan`, `RecoverNext`, `Take`,
`Load`, `SaveStart`, `ReportRead`, `ReportWrite`, `Succeed`/`Fail`,
`SaveOutcome`, `Unlist`, `Requeue`); `pc` names a goroutine's next one. `Crash`
ends a gateway between any two. A graceful shutdown is a crash to the queue:
its context is cancelled and the job in hand stays on the processing list. `RedisFault`
is an error of a command that the code drops; `IdemExpires` and `JobExpires`
are the times to live. The id of a job is a UUID made by the request that
publishes it, so requests and jobs share the set `Request`. `runs`, which counts executions, and
`together`, which notes two gateways that were up at once, are history variables. `JobLifecycle` says what the queue promises about a job without lists,
keys or workers; `ImplementsLifecycle` is the refinement.

### ProjectMembers

Each SQL statement is an action, under READ COMMITTED: `SelectActor` takes the
lock on the caller's row (`FOR UPDATE`), `CountOwners` reads committed rows
without a lock, `Upsert` needs the target's row, `Commit` makes it visible and
releases. `Deadlocked` and `DeadlockVictim` are PostgreSQL's detector. Update
and UpdateOutputLanguage read the role and write the project without locking.
`overlap` is a history variable that notes two owners stepping down at once.

### Verdicts

The rules of the verdict and everything that applies them twice: `Assemble`
(generation), `deriveVerdict` and `Reevaluate` (evaluation), the conversions of
the gateway between them (`findingInputs`, `currentFindings`, `severityScore`,
`AreaString`), and the chains of calls submitObjection and reviseReport, one
action per call. A finding keeps what the rules read: area, level, confidence
and whether it has a place in the document. `severity` has the thresholds of
the code over integers, in thousandths of the risk. Reports,
objections, comparisons and the history are the stored rows. A chain may end
anywhere (`Fail`); `MaxCalls` bounds how many begin.

### Evaluations, and the abstract EvaluationHandler

The handler `evaluate` and the services it calls; one action is one call with
the rows it stores. AddDocumentVersion is split at its statements
(`NumberVersion`: the locked row and MAX + 1; `InsertVersion`). Every call may
succeed, be executed and fail for the run (`Answered`: lost reply, deadline), or
fail without effect (`Fail`, also the end of the gateway). The four evaluations
run in parallel and may store results after the run has ended. Attempts of one
job are runs with the same call; nothing orders them, as the queue may start a
job again while another gateway is still at it. `EvaluationHandler` says what a
run promises: at most one report, an answer only for a stored report, nothing
taken back.

### Research

One request, ExecuteResearch or VerifySources, step by step: each query, hit and download,
each place where a limit is looked at, the end of each query and task, and the
assembling of status and reasons. A hit is whether its page can be read and
whether it is a primary source; grades and dimensions are left out. `late` is
whether the time is over, which may happen at any point. `searched` is a history
variable.

### Plans

The chains of calls behind generateAutonomousPlan and generateProductDesign for
several users, one action per call: research when there are no facts, up to two
prompts, composing with its questions, evaluation, saving; for a design the
check of the plan, the wait for the one slot of `uivalidator`, the stages of
the run and saving. `Ids` are what `stableID` makes of ideas, shared by users.
A plan is what its verdict is about and its findings and blockers; a
design is what was run and what has passed.

### Requests, with Comparison, ValidationPolicy, Improvement, QualityGate, ResearchPlan, StableSort

Handlers whose answer depends on the request alone. The first five modules have
the operators of one each (`Compare` with its pairing; `applyRequiredPlanPolicy` and
`validatePlan`, the acceptance of findings; the improvement of a plan;
the totals and gates of a quality run; `BuildPlan`), `StableSort` is Go's `sort.SliceStable`, which two of them call.
`Requests` serves one request at a time of a set of inputs (`Serve`, one action per
handler, and `Leave`) and its properties compare the answer with what was asked, stated without the
operators that compute it. Texts are sequences of words of one letter with a wording,
shares are pairs of integers, the order in which Go walks over a map is an input.
The loops of the code are folds; `Inputs` is the assumption that names what can be sent.

### Implementations

Reviews, proposals and deliveries of several clients on one project: reading a
repository's revision and its files are two steps and commits come in
between; a proposal has two attempts, each checked against review, revision and
`git apply --check`; a delivery looks into the history, calls the tracker and
appends. The tracker may take a delivery and its reply be lost, the history may
be unreadable or not writable, and the service may end between any two steps. `posts`
counts what the tracker took, and `excuses` is a history variable that counts the
causes for taking it again.

### Sessions

The user service's logins, Google as an external party, the tokens, and the
auth store of each tab over one local storage: begin, callback with the removal
of the login and the exchange as steps of their own, expiry, restarts, loading
of a page, requests whose answers come in any order and as late as they like,
the dialog of an expired session. `now` is the one clock of browser, gateway and
user service: skew between them is left out. `served`, `stranger` and `ended`
are history variables.

The `MC…` modules only name constants, inputs and symmetry sets for TLC.

## 3. Runs and bounds

| run | module | instance | shows |
|---|---|---|---|
| `queue_single` | MCJobQueue | 2 requests with 2 keys and 2 owners, 1 gateway, 2 attempts, 1 progress report, 2 crashes | idempotent and private enqueueing; with one gateway and a Redis that answers no job is lost, listed twice or run too often (`WorkSound`: `ListedOnce`, `UnfinishedListed`, `NothingStranded`, `RunsBounded`); refinement of JobLifecycle; every job settles |
| `queue_flaky` | MCJobQueue | 2 requests, 1 key, 2 owners, 2 gateways together or one after the other, 1 attempt, 1 crash, 2 failed commands, 1 expiry | what survives failed commands and a second gateway: the types with the attempt limit; while gateways follow each other, what an error costs that the worker drops (`ErrorsContained`): one job lost or one id left behind at most, none listed twice, none run uncounted more often than commands have failed |
| `members` | MCProjectMembers | 2 subjects, 3 concurrent calls, any arguments | role checks hold until commit; only two owners who step down at once leave a project ownerless, and then for ever; calls that wait for each other return |
| `verdicts` | MCVerdicts | 1 problem with the detections at the thresholds of the rules, any two calls out of 2 objections and 2 revisions, 3 versions | the rules agree; objections never make a verdict worse, rejected ones change nothing and the mark has its row (`ObjectionsSound`), each judged against the findings of the report, whatever another one has achieved; each recorded revision has its own version and a saved comparison; reports do not change |
| `evaluation_pipeline` | MCEvaluations | 2 runs, 1 existing document, a revision or a new document each, with the same file; 1 run that fails | numbering, locks, own rows and originals (`VersionsSound`), complete reports on settled rows, statuses and counts, refinement of EvaluationHandler |
| `research_limits` | MCResearch | 3 tasks, 2 queries each, up to 2 hits, 3 sets of limits | limits kept; one result per task, its own evidence and an earned status (`ReportSound`); saturation means what it says |
| `plan_calls` | MCPlans | 2 users with calls of every kind under one shared id; every outcome of research, prompts, evaluation and run | verdicts of plans and designs are earned, nobody is given what is another's, every call is answered |
| `request_answers` | MCRequests | one request at a time out of sets of inputs around the boundaries of each rule (83 672 states) | each item is in one change (`ComparisonSound`), serious drivers are validated and findings have places (`ValidationSound`), tasks reach their sections (`ImprovementSound`), gates open on evidence (`GateSound`), a task for each kind of each assumption (`ResearchPlanned`) |
| `implementations` | MCImplementations | 2 clients, 3 calls, 1 trace, 2 trackers of which 1 may write, 2 revisions | deliveries are repeated for a known cause only and their records are true (`DeliverySound`); proposals follow from reviews, reviews from analyses (`ProposalSound`) |
| `sessions` | MCSessions | 2 tabs with 2 requests each, 2 logins, 4 units of time; a login may take 1, a token is valid for 2 | single use in time (`LoginSound`); no tab ends the session it shows before its end, and reloads keep what a tab shows unless another tab has used the storage (`SessionSound`) |
| `members_ownerless`, `verdict_unverified` | | smallest instance each | the disagreements of section 6, by counterexample |

Why the bounds are enough. Two requests or workers are what every race here
needs, as no protocol involves three parties; the third call in `members`
lets a promotion follow a race of two. Two attempts and two crashes reach
"interrupted after its outcome was saved", "attempts used up" and both at once;
the real limit of three attempts and five progress reports only repeat these.
The detections of `verdicts` give a representative for the branches of the rules, at
their thresholds; that the rules agree for every finding is proved. Three versions
let a revision start from a version that is no longer the last, and two revisions
race for one; `MaxCalls` leaves each pair of calls, and a third would meet no row that two do not. In the pipeline, two runs contend for one number, one object or
one document; one that fails, at any step, is what leaves rows behind. Two users
are the owner of a row and the one who overwrites it. Three calls are a delivery, its
repetition and one that overlaps, or an analysis, a review and a proposal; the
second revision is the commit in between. Of two logins the second replaces the
first or comes from the other tab; a token of two units is begun, used and
over within four, and a login of one unit is tried before, at and after its end.
The inputs of `request_answers` hold two items for every rule that pairs or orders,
blank and present fields, and values at and on both sides of each threshold. Each of the three limits in `research_limits`
is the first to be reached in one of the sets. Symmetry is used only in runs
without liveness and over sets no constant distinguishes.

`CHECK_DEADLOCK FALSE` is set because the systems stop: requests, calls, runs
and bounded crashes come to an end.

Every property of a passing run has a mutant, a plausible bug in a mapped
definition (operators named `X_...` before `X`) under which TLC finds the
property violated.

## 4. Fairness

* **JobQueue**, `FairSpec`: weak fairness of each worker's steps. The worker is
  a goroutine that loops until its gateway ends and is started by
  `gateway/apps/server/main.go`. That a gateway which has crashed is started again is an
  assumption about its operation, as the repository deploys nothing. That a
  handler returns rests on the clients it waits for in the end: those of LLM
  and search give up after 90 seconds, of the web after 30 and 15
  (`intelligence/modules/provider/client.go:40`, `research/modules/web/client.go:36`,
  `document/modules/webfetch/fetcher.go:65`), and databases are taken to
  answer. `EveryJobSettles` is claimed where crashes end (`MaxCrashes`) and
  Redis answers (`MaxFaults = 0`). Requests, crashes and expiries have no
  fairness.
* **ProjectMembers**, `FairSpec`: the database executes a statement that can
  run and its deadlock detector breaks a cycle. Callers have none.
* **Plans**, `Fairness`: weak fairness of the steps of a call that has begun, as
  its handler goes on until it answers and its clients and the browser's commands
  have timeouts (`generation/modules/uivalidator/runner.go:46`); strong fairness of entering the slot,
  as a Go channel serves those who wait in order. Users have none.
* **Verdicts, Evaluations, Research, Implementations, Sessions, Requests** claim
  no liveness: a run may be left by its client or end with its gateway at any call, and what
  happens then is left to the queue, the user or the browser.

## 5. Proofs

All proofs are for any values of the constants that satisfy the named
assumption of each module (`Constants`; `Inputs` of `Requests`), which TLC evaluates on
its runs. Every invariant and action property of a passing run is stated by a theorem,
except `ErrorsContained`.

**JobQueueProofs.** `Typed` adds to the type invariant that a busy worker holds
an id and that recover has something left to look at; without them the steps
of a worker would apply the store to "no id". `Answering` adds `ClaimKeepsKey`
(a key names a request made under that key) and `FoundUnderKey` (what a request
has read is under its own key, and belongs to its owner once it answers).
`OnePerKey` is `OnlyClaimed`: as long as no key has expired, only the request
that holds its key's claim has, or is about to publish, a job, and the lists and
workers hold only such jobs. `Working` is about a single gateway whose Redis
answers (`Alone`): `Listed` (an unfinished job is on exactly one list, once, and
what is pending is queued), `Unpublished` (a request that has yet to publish has no
job), and for each step of the worker its `Place` (the processing list holds the
one job it is busy with, or after a crash the one that recover will find) and
what is `AtWork` (how its copy relates to the saved job). `WorkSound`, the action
property and the refinement of `JobLifecycle` all follow from it; `WhoWrites` lists
the only steps that write a job, and each is a step of the life cycle or a
stutter. Theorems: `QueueTyped`, `AnswersAreOwn`, `EnqueueIsIdempotent`, `WorkIsSound`,
`OutcomesStay`, `QueueImplementsLifecycle`.

**HandlersProofs, the members of a project.** `IInv` consists of the types, `RoleChecked` (a call past its
check has an owner as actor), `RowsLocked` (and holds the lock on that row),
`RacesNoted` (two calls that both leave are noted in `overlap`) and
`AnotherOwner` (a call that leaves has seen an owner who is still there unless a
race was noted). Theorems: `MembersTyped`, `AuthorityIsHeld`,
`OwnerIsRetained`, `OwnerlessIsForever`.

**VerdictsProofs.** The rules first: `Assembled` and `Derived` characterise the two
verdicts in the same words, `SameRule` joins them, and `FewerFindings` says that
resolving findings never makes a verdict worse. The behaviour next: `Requests`
(types, every chain reads a report that exists, a revision has its own version)
and `Recorded` (a history row for exactly the calls that have recorded one,
its comparison saved before it, its content right). Theorems: `VerdictsTyped`,
`ServicesAgree`, `ReportsAreFinal`, `ObjectionsAreHarmless`,
`RejectionsChangeNothing`, `MarkedHaveRows`, `ObjectionsAreSound`, `RevisionsAreCompared`.

**EvaluationsProofs.** The invariant `DInv` of the document service: types, `LocksHeld` (a run
between its two statements holds the row it has numbered), `OriginalsPut`,
`Finished` (a run with a report has ended), `VersionsOwn` (the last version a run has added is its own) and the
four parts of `VersionsSound`. A revision keeps its number because the lock
it holds until it inserts keeps every other `NextNumber` where it is. Then
the runs. `RInv` says of each run how far it is: `ReadOut` (what it
believes was read out of its version is there), `OwnStored` (the rows its
replies stand for), `EvaluationsBack` (past the join the four results are in and no
goroutine is left that could still write) and `Reports`. The action
property and the refinement follow from it. Theorems: `VersionsAreSound`, `EvaluationsTyped`, `ReportsAreComplete`,
`FoundationsAreFixed`, and `RunsImplementHandler`, where each step of the chain is a
step of `EvaluationHandler` or a stutter. `DefectsAreCounted` needs a third part,
`SInv`: from the summary on it is what `Summarize` makes of the statuses that are stored,
because the replies and the evaluations of a run no longer change then; `StatusOfFound`
says what the fold over the findings makes of them, in whatever order they are
listed (`DefectsCounted`).

**PlansProofs.** `IInv` adds to the properties `DraftsMade` (what a draft says of its verdict
at each step of its call) and `RequestsRead` (a call that composes has its request and counts its undecoded answers): what is saved later
has been right since it was made, whoever has overwritten the row in between. Theorems:
`PlansTyped`, `ExecutableEarned`, `AnswersAreOwn`.

**SessionsProofs.** `IInv`: types, `LoginsOnce` (a login that waits was not served), `CallbacksServed`, `SessionsIssued` (every session
anywhere in the browser comes from a served login), `FlightsOwn` (a request
under way carries its tab's session while the tab has one, and was refused only
when that was over) and the parts of the properties.
`FlightsOwn` is why a late 401 is harmless. Theorems: `LoginsAreSound`, `SessionsAreSound`.

**ResearchProofs.** `IInv`: types, `Modes`, `Stale`, `LimitsKept`, `Ordered` (task k's result is the k-th), `Attributed` (the evidence since the mark is
the current task's), `Whole` (without a reason to stop every query was
sent, counted by cardinalities) and the parts of `ReportSound`. `Counted` is for saturation: there is a place in the list of searches from which none
found a page and exactly `stale` of them were answered. The place is moved to the end
when a page is found, and stays where it is when a search fails or a
task ends. Theorems: `ResearchTyped`, `LimitsAreKept`, `ReportsAreSound`, `SaturationIsSound`.

**ImplementationsProofs.** `IInv`: types, `Shape` and `Founded` (what a call holds at
each step, and that it is true of the repository and the tracker, which only move
on), and two counts for each key. `Counted`: items and calls about to append one
stand for deliveries of their own. `Caused`: as long as no delivery is
known to the history or to a call about to append it, every earlier one has its
cause; once one is known, so has every call that passed the look-up and may still
send. Without the calls at "send" the count would not survive the second of
two overlapping calls. Theorems: `DeliveriesAreSound`, `ProposalsAreSound`.

**HandlersProofs, the answers of handlers.** The invariant `Served` says that an answer is what a
handler makes of one of the inputs; each theorem is then about one handler, for any
inputs that satisfy `Inputs`: texts are texts, sizes are numbers, ids which the
program itself gives to the parts of a request are distinct, an order of a map walks all of it.
Nothing is assumed of what a language model answers beyond its fields, except where
the property is about a well-formed answer. The loops need induction over a fold. The
library's theorems about that take operators and cannot be cited here, so the module proves
what it needs in first-order form: `Induction` for a set of numbers, `FoldExists`
(the recursive function behind a fold exists, on the sets of places) and
`Prefix` (its value at k+1 places is one step from its value at k). Each loop
then has one lemma about what is so after k rounds.

* `GateIsSound`: the totals of a run are sums over its cases (`SumIsNumber`), so a
  share that reaches a minimum above zero has something measured in it.
* `ValidationIsSound`: the passes that complete a plan change an item as the policy says and lose
  none (`PolicyCompletes`); blocks that are cited twice count once (`CitesMany`). A finding about the purpose
  cites blocks or is an absence; a gap that is kept is both (`FindingsHold`).
* `ResearchIsPlanned`: sorting permutes and keeps the order of equals
  (`SortPermutes`); every assumption adds as many tasks as it has kinds (`KindsCounted`), whatever was planned before it.
* `ImprovementIsSound`: after each task the changes of a section form a chain from its original
  text to the present one (`ChainedStep`), and those it has served are resolved (`ResolvedStep`).
* `ComparisonIsSound`: after k items of the later version their changes are what
  `Prior` makes of what was used before each (`Paired`). No two of them continue one item
  (`FormersMatch`): ids are separate, what is used is not taken by similarity, and
  (`NoneTaken`) no item of an id of its own stands behind one of the same kind, which
  is where the summary has to come first. For a report that says the same, a pigeonhole argument
  shows that each finding continues one with the same words: if all of those were
  used, that many findings before it would have taken them (`OthersAlike`); and that nothing is removed (`SameKept`).

**Only model-checked.** `ErrorsContained`, which counts over the jobs. Liveness (`EveryJobSettles`, `EveryCallReturns`,
`EveryCallAnswers`), which is out of reach of the prover here, as is ENABLED. Of the queue
with several gateways or failing Redis calls, types, answers and
idempotence are proved; the theorems that assume `Alone` do not extend to it, and
are not claimed for it (section 6). The distances that `characterSimilarity` computes are
not proved to be edit distances: no property depends on more than that texts of
the same words are alike.

## 6. Where code and documentation differ

Kept as runs with a counterexample (see `findings` in `PROJECT.json`):

* `members_ownerless`: two owners step down at once and none is left
  (`project/domains/project/repository.go:193`).
* `verdict_unverified`: a re-evaluation is not given the assumptions and may
  answer "executable" while they are unverified, as after an objection that is upheld against the only
  serious finding (`evaluation/domains/revision/rules.go:262`).

Met while modelling and part of the models, without a run of their own.

Queue and pipeline:

* A gateway that starts takes what another is executing for interrupted and executes
  it as well; the field `lease` is set and never used
  (`gateway/modules/jobs/queue.go:45`, `190`; docs/09-architecture.md:98 asks for no double execution).
  Hence `queue_single` has one gateway and `ErrorsContained` excepts behaviours with two at once
  (`together`). A report of progress that one of the two has read can then bring
  the other's outcome back to running (`queue.go:115`).
* recover sends a job whose completed outcome is saved but whose id is still
  listed back to the queue (`queue.go:208`); hence "only reopened by recovery".
* One failed GET in execute takes the id off the list and loses the job
  (`queue.go:146`); a request that ends between SETNX and MULTI leaves a key
  that names no job until it expires (`queue.go:79`).
* A new attempt of a job does not resume: it repeats every step and stores a
  document of its own (`gateway/services/api/service.go:397`;
  docs/09-architecture.md:94, 99). The payload of a job has no document id, so an
  enqueued revision becomes a new document (`service.go:190`).
* If the reply of CreateReport is lost the job gets a second report.
* All assumptions are sent as unverified (`service.go:520`), so a report that
  evaluate makes is at best conditionally executable.
* A document without elements, a purpose, requirements or assumptions
  cannot be evaluated: its run always fails.
* Upheld objections do not accumulate: each re-evaluation starts from the
  findings of the original report (`service.go:876`). One whose review cites no
  evidence is recorded as resolved by revision (`revision/rules.go:221`).
* Finding ids contain the version, so a problem that stays is recorded as
  resolved and new (`assessment/service.go:682`).
* The error of marking an objection is dropped and it stays pending
  (`revision/repository.go:52`).

Rules:

* The rewrite rule of a report looks for area names the gateway never sends
  (`generation/domains/report/rules.go:39`, `gateway/services/api/service.go:556`; docs/03-evaluation-spec.md:101).
* Compare's general pairing by id can use one old item twice; for the items the
  gateway makes it cannot, as the ids of the summary come first and are distinct.
* Exceptions of golden cases do not close the gate of a quality run.
* A driver that only an area left out names counts as covered, as
  completion does not look whether the area is selected.
* The flag "verified" of a claim is the client's, and a claim without an area goes to "consistency".

Research and plans:

* If every search fails the research is still "completed" (`research/services/investigate/service.go:86`;
  docs/05-research-spec.md:179). Two unknown kinds of a dependency become two equal tasks.
* Research by the server never verifies a fact, so a plan is executable only
  with facts the client has sent as verified; reading a plan back loses the evidence.
* Requirements of a plan with one id twice are validated in the last one's files only.
* A design may be saved after its plan was overwritten by another owner.

Implementation and integrations:

* DeliverIntegration takes an unreadable history for an empty one and drops the
  error of its append; it looks for a trace within one project only, and
  what has no trace is delivered each time. "failed" may be recorded of what the tracker has taken.
* CompareImplementation and CreateImplementationProposal answer an empty 200 if repository or review are missing.
* `git apply --check` tries a patch on the working tree, not on the revision that was read.

Sessions:

* After the dialog was acknowledged a second 401 opens it again (AUTH-006,
  docs/06-requirements.md:119, docs/10-test-plan.md:133).
* The navigation guard looks at the status of the store, not at the end of the session (AUTH-010).
* Tabs do not hear of each other: what one has signed in or out of, the others see when they
  are loaded again. This is why `ReloadKeeps` excepts a tab after a `stranger`.
* A tab whose token has run out clears the storage that the tabs share without looking at
  what is in it. The valid session of another tab, signed in later, is removed and gone when that tab
  is loaded again (`frontend/app/src/stores/auth/auth-store.ts:58` in `src`;
  docs/06-requirements.md:121). `EndedForCause` is about what a tab shows, not about the storage.
* Codes are exchanged once because the login is gone, whether or not Google would take a code twice.

## 7. What is not modelled

Parsers, exports, prompts, JSON, routing, CORS and page rendering compute without
state. Intelligence, LLM and web clients are single calls; what they may answer is
enumerated. Progress messages of a run are in `JobQueue` only, and reads that
change nothing are left out everywhere. Of the analyser the scan of a tree, of the UI
validator the generated test program, of a review the matching of requirements
with code by words are inputs. Signatures of tokens and Google's protocol are taken to
be sound. Left out because nothing in the repository calls it: logout in the user
interface, and a validator without a configuration. The projects that
retries of enqueueEvaluation create before the idempotency key is looked at are
listed as a hazard without a property.

The composition of the queue with the pipeline is not a module: what it
would add, attempts of one job that follow or overlap each other, is in
`Evaluations` as runs with one call that nothing orders, and in `JobQueue` as an
outcome that only recovery takes back.

## 8. Plan

Done, the most important first: the queue with its abstract life cycle; project
roles; verdicts, objections and revisions; the pipeline and its handler;
research; plans and designs; the pure rules; implementations and deliveries;
logins and sessions. Proofs: all theorems of section 5.

Left, in this order:

1. A proof of `ErrorsContained`, with an invariant that gives each lost job and each id left
   behind an error of its own, and that the next start finds what was left behind.
2. Liveness of `Implementations` under the timeouts of its calls, as for `Plans`.
3. The words of the comparisons and the analyser (section 7), as far as a
   property needs more of them than an input.

## Running

`tlc -config Verdicts_calls.cfg MCVerdicts` checks a run, `tlapm
VerdictsProofs.tla` a module of proofs. The largest runs, `queue_flaky` (6.4
million states) and `evaluation_pipeline` (1.2 million), take a minute or two with two workers.
